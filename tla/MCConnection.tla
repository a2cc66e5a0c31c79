---------------------------- MODULE MCConnection ----------------------------
(***************************************************************************)
(* The five parts a connection is made of: the socket objects, the stream  *)
(* between two sockets, the verbs objects, the queue pairs, the messages.  *)
(* Their modules share no variable, so that nothing is to be learnt from   *)
(* their interleavings: a behaviour picks one of them, and the others stay *)
(* as they are.                                                            *)
(***************************************************************************)
EXTENDS Descriptors, Naturals

CONSTANTS Rounds, RecordSize, Capacity, Handles, MaxScopes, MaxEvents,
          CallsMade, MtuRefused, ObjectSizes, BufferSize

VARIABLES
    part,                                                       \* the one that moves
    loop, round, current, stream, record, got,                  \* Exchange
    object, uses, member, scopes, phase, step, unacked,         \* Verbs
    kind, fabric, port, qp, pc, calls, known, tcp, flight,
    done, lost, threw,                                          \* QueuePairSetup
    call, client, server, wire, region, buffer, request, answers, polled,
    arrived, result                                             \* Messages

streamVars == <<loop, round, current, stream, record, got>>
verbsVars == <<object, uses, member, scopes, phase, step, unacked>>
setupVars == <<kind, fabric, port, qp, pc, calls, known, tcp, flight, done, lost,
               threw>>
messageVars == <<call, client, server, wire, region, buffer, request, answers,
                 polled, arrived, result>>
partVars == <<part, vars, streamVars, verbsVars, setupVars, messageVars>>

\* The kernel holds one record for each side; a peer may end.
Stream == INSTANCE Exchange WITH
    Peer <- {"client", "server"}, Size <- RecordSize, MayEnd <- TRUE,
    pc <- loop, wire <- stream, buffer <- record

\* The seven members of the Network and up to four scopes: a connection, a
\* buffer and a region over it, and the connection that replaces the first.
Objects == INSTANCE Verbs WITH kind <- object

\* Two calls and the RESET on every kind of queue pair and fabric, and ports
\* that may be too small for the MTU.
Pairs == INSTANCE QueuePairSetup WITH
    Kinds <- {"RC", "UC", "UD"}, Fabrics <- {"infiniband", "roce"},
    Calls <- CallsMade

\* Every kind of call, one after the other, for objects without a byte, of a
\* word, and on both sides of the largest one whose address is sent inline.
Calls == INSTANCE Messages WITH maxInlineSize <- 512

ASSUME PartsAssumption ==
    /\ Stream!ExchangeAssumption /\ Objects!VerbsAssumption
    /\ Pairs!SetupAssumption /\ Calls!MessagesAssumption

PartInit ==
    /\ part \in {"sockets", "stream", "verbs", "pairs", "calls"}
    /\ Init /\ Stream!Init /\ Objects!Init /\ Pairs!Init /\ Calls!Init
    /\ part # "sockets" => others = {}
    /\ part # "pairs" => kind = "RC" /\ port["client"].lid = 1 /\ port["client"].gid = "none"

InSockets ==
    /\ part = "sockets" /\ Next
    /\ UNCHANGED <<part, streamVars, verbsVars, setupVars, messageVars>>

InStream(Step) ==
    /\ part = "stream" /\ Step
    /\ UNCHANGED <<part, vars, verbsVars, setupVars, messageVars>>

InVerbs(Step) ==
    /\ part = "verbs" /\ Step
    /\ UNCHANGED <<part, vars, streamVars, setupVars, messageVars>>

InPairs(Step) ==
    /\ part = "pairs" /\ Step
    /\ UNCHANGED <<part, vars, streamVars, verbsVars, messageVars>>

InCalls(Step) ==
    /\ part = "calls" /\ Step
    /\ UNCHANGED <<part, vars, streamVars, verbsVars, setupVars>>

PartNext ==
    \/ InSockets \/ InStream(Stream!Next) \/ InVerbs(Objects!Next)
    \/ InPairs(Pairs!Next) \/ InCalls(Calls!Next)

\* The fairness of each part, as its own FairSpec states it.
PartSpec ==
    /\ PartInit /\ [][PartNext]_partVars
    /\ \A p \in {"client", "server"} :
          /\ WF_partVars(InStream(Stream!Write(p) \/ Stream!Read(p)))
          /\ WF_partVars(InPairs(Pairs!Step(p)))
          /\ WF_partVars(InPairs(Pairs!Deliver(p)))
    /\ WF_partVars(InVerbs(Objects!Destructors))
    /\ WF_partVars(InVerbs(Objects!Finish /\ phase = "unwinding"))
    /\ WF_partVars(InCalls(Calls!Step))

-----------------------------------------------------------------------------
(* What the parts promise; each is explained where it is defined.          *)

\* Every part keeps its types.
PartsTypeOK ==
    TypeOK /\ Stream!TypeOK /\ Objects!TypeOK /\ Pairs!TypeOK /\ Calls!TypeOK

\* Records arrive whole and in step, however the stream is cut.
ImplementsSwap == Stream!ImplementsSwap

\* No verbs object is left without an owner, none is destroyed twice or under
\* one that was created from it, and the memory of a region outlives it.
ObjectsHeld ==
    /\ Objects!NothingForgotten /\ Objects!OneOwner
    /\ Objects!RegionsCoverLiveMemory

\* Two queue pairs that are connected lead to each other, with equal
\* attributes, and connect() throws only because of a port.
ConnectedAsMeant == Pairs!LeadToEachOther /\ Pairs!RefusedOnlyByPort

\* No packet meets a queue pair that cannot take it, or is dropped by a reset.
NothingIsLost == Pairs!NothingIsLost

\* The server reads the request that was meant, and the client takes only what
\* an answer carried.
FieldsArrive == Calls!RequestArrives /\ Calls!AnswerArrives

\* A call throws only for an object too large to be sent inline.
ThrowsOnlyWhenLarge == Calls!ThrowsOnlyWhenLarge

\* Two sides that both write first get through, destructors come to their end
\* and leave nothing, a connection is set up, used and closed, and every call
\* comes to an end.
EveryPartEnds ==
    /\ part = "stream" => Stream!PeersFinish
    /\ Objects!EverythingIsReleased
    /\ part = "pairs" => Pairs!ConnectionEnds
    /\ Calls!CallEnds

=============================================================================
