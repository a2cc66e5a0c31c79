----------------------------- MODULE FragileLock -----------------------------
(***************************************************************************)
(* What the lock table promises: a reader-writer lock per id, until two    *)
(* readers share it.  From then on it grants whatever is asked for, and    *)
(* when everybody has released it, it is whole again.                      *)
(***************************************************************************)
CONSTANTS Node, LockId, Mode

VARIABLES
    holds,    \* holds[i][n]: the mode in which n holds lock i, or "none"
    broken    \* the locks that two readers have shared

fragileVars == <<holds, broken>>

Holders(i) == {n \in Node : holds[i][n] # "none"}

FragileInit ==
    /\ holds = [i \in LockId |-> [n \in Node |-> "none"]]
    /\ broken = {}

\* A writer excludes everybody and is excluded by everybody.
Compatible(i, s) ==
    \A m \in Holders(i) : s = "SHAREDLOCK" /\ holds[i][m] = "SHAREDLOCK"

Acquire(n, i, s) ==
    /\ holds[i][n] = "none"
    /\ i \in broken \/ Compatible(i, s)
    /\ holds' = [holds EXCEPT ![i][n] = s]
    /\ broken' = IF Holders(i) = {} THEN broken ELSE broken \cup {i}

Release(n, i) ==
    /\ holds[i][n] # "none"
    /\ holds' = [holds EXCEPT ![i][n] = "none"]
    /\ broken' = IF Holders(i) = {n} THEN broken \ {i} ELSE broken

FragileNext ==
    \E n \in Node, i \in LockId : \/ \E s \in Mode : Acquire(n, i, s)
                                  \/ Release(n, i)

FragileSpec == FragileInit /\ [][FragileNext]_fragileVars

=============================================================================
