----------------------------- MODULE Ownership -----------------------------
(***************************************************************************)
(* What a program may do with descriptors: it owns one from the call that  *)
(* opens it to the one that closes it, and never closes one that it does   *)
(* not own.  Who in the program owns it is of no concern here.             *)
(***************************************************************************)
CONSTANT Fds

VARIABLES owned,    \* descriptors the program will close
          foreign,  \* descriptors of other parts of the process
          lost      \* descriptors nobody will close

vars == <<owned, foreign, lost>>

Free == Fds \ (owned \cup foreign \cup lost)

Init == owned = {} /\ foreign \subseteq Fds /\ lost = {}

Open == \E fd \in Free : owned' = owned \cup {fd} /\ UNCHANGED <<foreign, lost>>

Lose == \E fd \in Free : lost' = lost \cup {fd} /\ UNCHANGED <<owned, foreign>>

Close == \E fd \in owned : owned' = owned \ {fd} /\ UNCHANGED <<foreign, lost>>

OthersOpen == \E fd \in Free : foreign' = foreign \cup {fd} /\ UNCHANGED <<owned, lost>>

OthersClose == \E fd \in foreign : foreign' = foreign \ {fd} /\ UNCHANGED <<owned, lost>>

Next == Open \/ Lose \/ Close \/ OthersOpen \/ OthersClose

Spec == Init /\ [][Next]_vars
=============================================================================
