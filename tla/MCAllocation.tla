---------------------------- MODULE MCAllocation ----------------------------
(* Three clients, of which c never serves, and the lives of one address of a *)
(* home node with memory for a few sessions: polite programs, and any.       *)
EXTENDS Allocation

CONSTANTS c, d, e, a

PoliteInit == Init /\ polite = TRUE
PoliteSpec == PoliteInit /\ [][Next]_vars /\ Fairness

AnyInit == Init /\ polite = FALSE
AnySpec == AnyInit /\ [][Next]_vars

=============================================================================
