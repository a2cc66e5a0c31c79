---------------------------- MODULE ForgetfulMap ----------------------------
(***************************************************************************)
(* What a node may rely on in its cache: a map that may forget anything at *)
(* any time, but that never shows a value which was overwritten or         *)
(* invalidated.                                                            *)
(***************************************************************************)
CONSTANTS Key, Value, None

VARIABLES
    shown,  \* shown[k]: the value under k, or None
    out     \* what the last call did, under which key, with which value

mapVars == <<shown, out>>

MapInit == shown = [k \in Key |-> None] /\ out = <<"none", None, None>>

\* The map that remembers of m what is under the keys of S.
Kept(m, S) == [k \in Key |-> IF k \in S THEN m[k] ELSE None]

Lookup(k) == out' = <<"found", k, shown[k]>> /\ UNCHANGED shown

Store(k, v) ==
    /\ \E S \in SUBSET Key : shown' = Kept([shown EXCEPT ![k] = v], S)
    /\ out' = <<"stored", k, v>>

Remove(k) ==
    /\ shown' = [shown EXCEPT ![k] = None]
    /\ out' = <<"removed", k, shown[k]>>

\* The map is lost with its process, or the call never returns.
Fail == \E S \in SUBSET Key : shown' = Kept(shown, S) /\ out' = <<"none", None, None>>

MapNext ==
    \/ \E k \in Key : Lookup(k) \/ Remove(k)
    \/ \E k \in Key, v \in Value : Store(k, v)
    \/ Fail

MapSpec == MapInit /\ [][MapNext]_mapVars

=============================================================================
