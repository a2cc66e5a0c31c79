--------------------------------- MODULE Swap ---------------------------------
(* Two peers swap records, round by round: what both of them may rely on.    *)
EXTENDS Naturals, Sequences

CONSTANTS Peer, Rounds, RecordOf(_, _)   \* what a peer says in a round

VARIABLE got   \* got[p]: the records p has read

Other(p) == CHOOSE q \in Peer : q # p

Init == got = [p \in Peer |-> << >>]

\* A record arrives whole and in its turn; who sends one has read all before it.
Deliver(p) ==
    /\ Len(got[p]) < Rounds /\ Len(got[p]) <= Len(got[Other(p)])
    /\ got' = [got EXCEPT ![p] = Append(@, RecordOf(Other(p), Len(got[p]) + 1))]

Next == \E p \in Peer : Deliver(p)

Spec == Init /\ [][Next]_got

=============================================================================
