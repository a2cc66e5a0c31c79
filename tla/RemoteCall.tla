------------------------------ MODULE RemoteCall ------------------------------
(***************************************************************************)
(* What the nodes expect of their transport: a node has at most one call   *)
(* under way; its peer handles every call once, in order; and the call     *)
(* returns with the answer the peer gave to it, and to no other call.      *)
(***************************************************************************)
EXTENDS Naturals

CONSTANT Node

VARIABLES
    asked,     \* asked[n]: the number of calls n has begun
    handled,   \* handled[n]: the last call of n its peer has handled
    answered,  \* answered[n]: the call whose answer n has returned last
    lost       \* the transport has failed

callVars == <<asked, handled, answered, lost>>

CallInit ==
    asked = [n \in Node |-> 0] /\ handled = asked /\ answered = asked /\ lost = FALSE

Ask(n) ==
    /\ answered[n] = asked[n]
    /\ asked' = [asked EXCEPT ![n] = @ + 1]
    /\ UNCHANGED <<handled, answered, lost>>

Handle(n) ==
    /\ handled[n] # asked[n]
    /\ handled' = [handled EXCEPT ![n] = asked[n]]
    /\ UNCHANGED <<asked, answered, lost>>

Answer(n) ==
    /\ answered[n] # asked[n] /\ handled[n] = asked[n]
    /\ answered' = [answered EXCEPT ![n] = asked[n]]
    /\ UNCHANGED <<asked, handled, lost>>

\* A failure is for ever; calls may still be handled and return.
Fail == ~ lost /\ lost' = TRUE /\ UNCHANGED <<asked, handled, answered>>

CallNext == Fail \/ \E n \in Node : Ask(n) \/ Handle(n) \/ Answer(n)

CallSpec == CallInit /\ [][CallNext]_callVars

\* Until it fails, a transport loses nothing.
LiveCallSpec ==
    CallSpec /\ \A n \in Node : /\ WF_callVars(~ lost /\ Handle(n))
                                /\ WF_callVars(~ lost /\ Answer(n))

=============================================================================
