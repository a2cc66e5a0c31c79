--------------------------- MODULE QueuePairSetup ---------------------------
(***************************************************************************)
(* How two queue pairs become a connection: the attributes each connect()  *)
(* sets and names on the way from RESET over INIT and RTR to RTS, the      *)
(* addresses the two ends exchange for it over TCP, and what keeps a       *)
(* packet from arriving at a queue pair that is not there yet or no more.  *)
(*                                                                         *)
(* An adapter takes only the attributes that modify() names, leaves the    *)
(* others as they are, and refuses a step whose mandatory attributes are   *)
(* not named.  It drops a packet for a queue pair that cannot receive; the *)
(* retransmission timeout is 0, for ever, so that what is dropped is lost. *)
(* Only the reliable queue pairs of Node exchange messages and are reset.  *)
(***************************************************************************)
EXTENDS Naturals, Sequences

CONSTANTS Kinds,       \* of queue pairs, among RC, UC and UD
          Fabrics,     \* among infiniband and roce
          Calls,       \* calls of the client on a connection, the RESET included
          MtuRefused   \* whether a port may be too small for an MTU of 4096

SetupAssumption ==
    /\ Kinds \subseteq {"RC", "UC", "UD"} /\ Fabrics \subseteq {"infiniband", "roce"}
    /\ Calls \in Nat /\ MtuRefused \in BOOLEAN

Ends == {"client", "server"}
Peer(e) == IF e = "client" THEN "server" ELSE "client"

VARIABLES
    kind,     \* of the two queue pairs
    fabric,   \* what the ports are connected by
    port,     \* lid and gid of each end's port
    qp,       \* the attributes the adapter holds for each queue pair
    pc,       \* the step each end is at
    calls,    \* and the calls it has behind it
    known,    \* what each end has read of its peer
    tcp,      \* what each end has still to read from its socket
    flight,   \* packets on their way to each end
    done,     \* completions each end has to poll: of its writes, of its receives
    lost,     \* packets that were dropped
    threw     \* the ends whose process an exception has ended

vars == <<kind, fabric, port, qp, pc, calls, known, tcp, flight, done, lost, threw>>
ends == <<kind, fabric, port>>

Address(e) == [qpn |-> IF e = "client" THEN 11 ELSE 12,
               lid |-> port[e].lid, gid |-> port[e].gid]

-----------------------------------------------------------------------------
(* What connect() sets and what it names, for one step to a state.         *)
(* A setter that is not named has no effect.                               *)

NoPath == [global |-> FALSE, dlid |-> 0, dgid |-> "none"]

Reset == [STATE |-> "RESET", PKEY_INDEX |-> 0, PORT |-> 0, ACCESS_FLAGS |-> {}, QKEY |-> 0,
          AV |-> NoPath, PATH_MTU |-> 0, DEST_QPN |-> 0, RQ_PSN |-> 0,
          MAX_DEST_RD_ATOMIC |-> 0, MIN_RNR_TIMER |-> 0, TIMEOUT |-> 0, RETRY_CNT |-> 0,
          RNR_RETRY |-> 0, SQ_PSN |-> 0, MAX_QP_RD_ATOMIC |-> 0]

Attrs == DOMAIN Reset

\* An Attributes object: what is set, and zeros.
Attributes(set) == [a \in Attrs |-> IF a \in DOMAIN set THEN set[a] ELSE Reset[a]]

RcPath(a) == [global |-> a.gid # "none", dlid |-> a.lid, dgid |-> a.gid]

UcPath(a) == [global |-> FALSE, dlid |-> a.lid, dgid |-> "none"]

\* Mutant: RNR_RETRY is set and not named.
RcUnnamed(a) ==
    [INIT |-> [set |-> [PKEY_INDEX |-> 0, PORT |-> 1, ACCESS_FLAGS |-> {"WRITE", "READ", "ATOMIC"}],
               mask |-> {"PKEY_INDEX", "PORT", "ACCESS_FLAGS"}],
     RTR |-> [set |-> [PATH_MTU |-> 4096, DEST_QPN |-> a.qpn, RQ_PSN |-> 0,
                       MAX_DEST_RD_ATOMIC |-> 16, MIN_RNR_TIMER |-> 12, AV |-> RcPath(a)],
              mask |-> {"AV", "PATH_MTU", "DEST_QPN", "RQ_PSN", "MAX_DEST_RD_ATOMIC",
                        "MIN_RNR_TIMER"}],
     RTS |-> [set |-> [SQ_PSN |-> 0, TIMEOUT |-> 0, RETRY_CNT |-> 0, RNR_RETRY |-> 0,
                       MAX_QP_RD_ATOMIC |-> 128],
              mask |-> {"TIMEOUT", "RETRY_CNT", "SQ_PSN", "MAX_QP_RD_ATOMIC"}]]

Rc(a) ==
    [INIT |-> [set |-> [PKEY_INDEX |-> 0, PORT |-> 1, ACCESS_FLAGS |-> {"WRITE", "READ", "ATOMIC"}],
               mask |-> {"PKEY_INDEX", "PORT", "ACCESS_FLAGS"}],
     RTR |-> [set |-> [PATH_MTU |-> 4096, DEST_QPN |-> a.qpn, RQ_PSN |-> 0,
                       MAX_DEST_RD_ATOMIC |-> 16, MIN_RNR_TIMER |-> 12, AV |-> RcPath(a)],
              mask |-> {"AV", "PATH_MTU", "DEST_QPN", "RQ_PSN", "MAX_DEST_RD_ATOMIC",
                        "MIN_RNR_TIMER"}],
     RTS |-> [set |-> [SQ_PSN |-> 0, TIMEOUT |-> 0, RETRY_CNT |-> 0, RNR_RETRY |-> 0,
                       MAX_QP_RD_ATOMIC |-> 128],
              mask |-> {"TIMEOUT", "RETRY_CNT", "RNR_RETRY", "SQ_PSN", "MAX_QP_RD_ATOMIC"}]]

Uc(a) ==
    [INIT |-> [set |-> [PKEY_INDEX |-> 0, PORT |-> 1, ACCESS_FLAGS |-> {"WRITE"}],
               mask |-> {"PKEY_INDEX", "PORT", "ACCESS_FLAGS"}],
     RTR |-> [set |-> [PATH_MTU |-> 4096, DEST_QPN |-> a.qpn, RQ_PSN |-> 0, AV |-> UcPath(a)],
              mask |-> {"AV", "PATH_MTU", "DEST_QPN", "RQ_PSN"}],
     RTS |-> [set |-> [SQ_PSN |-> 0], mask |-> {"SQ_PSN"}]]

\* A datagram queue pair has no peer.
Ud == [INIT |-> [set |-> [PKEY_INDEX |-> 0, PORT |-> 1, QKEY |-> 2],
                 mask |-> {"PKEY_INDEX", "PORT", "QKEY"}],
       RTR |-> [set |-> << >>, mask |-> {}],
       RTS |-> [set |-> [SQ_PSN |-> 0], mask |-> {"SQ_PSN"}]]

Connecting(k, a) == CASE k = "RC" -> Rc(a) [] k = "UC" -> Uc(a) [] OTHER -> Ud

\* The attributes modify() documents as mandatory.
Mandatory(k) ==
    [INIT |-> {"PKEY_INDEX", "PORT"} \cup IF k = "UD" THEN {"QKEY"} ELSE {"ACCESS_FLAGS"},
     RTR |-> CASE k = "RC" -> {"AV", "PATH_MTU", "DEST_QPN", "RQ_PSN", "MAX_DEST_RD_ATOMIC",
                               "MIN_RNR_TIMER"}
               [] k = "UC" -> {"AV", "PATH_MTU"}
               [] OTHER -> {},
     RTS |-> {"SQ_PSN"} \cup IF k = "RC"
                             THEN {"MAX_QP_RD_ATOMIC", "RETRY_CNT", "RNR_RETRY", "TIMEOUT"}
                             ELSE {}]

Before == [INIT |-> "RESET", RTR |-> "INIT", RTS |-> "RTR"]

-----------------------------------------------------------------------------
(* The program of each end: exchange the addresses, connect, and call by   *)
(* call announce a buffer, post, poll and take what arrives.               *)

Steps == {"write", "read", "INIT", "RTR", "RTS", "announce", "hear", "post", "sent",
          "receive", "close", "done"}

\* Calls, the RESET the last of them, and the end of the connection; only
\* reliable queue pairs are called on.
Calling(n) == IF kind # "RC" THEN "done" ELSE IF n < Calls THEN "announce" ELSE "close"

After(e) ==
    CASE pc[e] = "write" -> "read"
      [] pc[e] = "read" -> "INIT"
      [] pc[e] = "INIT" -> "RTR"
      [] pc[e] = "RTR" -> "RTS"
      [] pc[e] = "RTS" -> Calling(0)
      [] pc[e] = "announce" -> "hear"
      [] pc[e] = "hear" -> IF e = "client" THEN "post" ELSE "receive"
      [] pc[e] = "post" -> "sent"
      [] pc[e] = "sent" -> IF e = "client" THEN "receive" ELSE Calling(calls[e] + 1)
      [] pc[e] = "receive" -> IF e = "client" THEN Calling(calls[e] + 1) ELSE "post"
      [] OTHER -> "done"

Last(e) == IF e = "client" THEN "receive" ELSE "sent"

At(e, step) == e \notin threw /\ pc[e] = step
Passed(e) == /\ pc' = [pc EXCEPT ![e] = After(e)]
             /\ calls' = [calls EXCEPT ![e] = IF pc[e] = Last(e) THEN @ + 1 ELSE @]
Ended(e) == pc[e] = "done"

Init ==
    /\ kind \in Kinds /\ fabric \in Fabrics
    /\ \E gids \in {[client |-> "g1", server |-> "g2"], [client |-> "none", server |-> "none"]} :
          /\ fabric = "roce" => gids.client # "none"
          /\ port = [e \in Ends |->
                [gid |-> gids[e],
                 lid |-> IF fabric = "roce" THEN 0 ELSE IF e = "client" THEN 1 ELSE 2]]
    /\ qp = [e \in Ends |-> Reset] /\ pc = [e \in Ends |-> "write"]
    /\ calls = [e \in Ends |-> 0]
    /\ known = [e \in Ends |-> [qpn |-> 0, lid |-> 0, gid |-> "none"]]
    /\ tcp = [e \in Ends |-> << >>] /\ flight = tcp
    /\ done = [e \in Ends |-> [write |-> 0, receive |-> 0]]
    /\ lost = 0 /\ threw = {}

WriteAddress(e) ==
    /\ At(e, "write") /\ Passed(e)
    /\ tcp' = [tcp EXCEPT ![Peer(e)] = Append(@, Address(e))]
    /\ UNCHANGED <<ends, qp, known, flight, done, lost, threw>>

ReadAddress(e) ==
    /\ At(e, "read") /\ tcp[e] # << >> /\ Passed(e)
    /\ known' = [known EXCEPT ![e] = Head(tcp[e])]
    /\ tcp' = [tcp EXCEPT ![e] = Tail(@)]
    /\ UNCHANGED <<ends, qp, flight, done, lost, threw>>

\* External: what an adapter accepts.
Accepts(e, to, new, mask) ==
    /\ qp[e].STATE = Before[to] /\ Mandatory(kind)[to] \subseteq mask
    /\ to = "RTR" /\ kind # "UD" /\ fabric = "roce" => new.AV.global

\* modify(): what is named is taken, or nothing is and it throws.
Modify(e, to) ==
    LET step == Connecting(kind, known[e])[to]
        new == Attributes(step.set)
        Taken == [a \in Attrs |-> IF a = "STATE" THEN to
                                  ELSE IF a \in step.mask THEN new[a] ELSE qp[e][a]]
    IN
    /\ At(e, to)
    /\ \/ /\ Accepts(e, to, new, step.mask)
          /\ qp' = [qp EXCEPT ![e] = Taken] /\ Passed(e)
          /\ UNCHANGED threw
       \/ /\ \/ ~ Accepts(e, to, new, step.mask)
             \/ MtuRefused /\ to = "RTR" /\ kind # "UD"
          /\ threw' = threw \cup {e}
          /\ UNCHANGED <<qp, pc, calls>>
    /\ UNCHANGED <<ends, known, tcp, flight, done, lost>>

\* The address of a buffer, and the peer's.
Announce(e) ==
    /\ At(e, "announce") /\ Passed(e)
    /\ tcp' = [tcp EXCEPT ![Peer(e)] = Append(@, Address(e))]
    /\ UNCHANGED <<ends, qp, known, flight, done, lost, threw>>

\* Mutant: a read that does not wait for the announcement.
HearNonblocking(e) ==
    /\ At(e, "hear") /\ Passed(e)
    /\ tcp' = [tcp EXCEPT ![e] = IF @ = << >> THEN @ ELSE Tail(@)]
    /\ UNCHANGED <<ends, qp, known, flight, done, lost, threw>>

Hear(e) ==
    /\ At(e, "hear") /\ tcp[e] # << >> /\ Passed(e)
    /\ tcp' = [tcp EXCEPT ![e] = Tail(@)]
    /\ UNCHANGED <<ends, qp, known, flight, done, lost, threw>>

Post(e) ==
    LET packet == [psn |-> qp[e].SQ_PSN, path |-> qp[e].AV, qpn |-> qp[e].DEST_QPN] IN
    /\ At(e, "post") /\ Passed(e)
    /\ flight' = [flight EXCEPT ![Peer(e)] = Append(@, packet)]
    /\ qp' = [qp EXCEPT ![e].SQ_PSN = @ + 1]
    /\ UNCHANGED <<ends, known, tcp, done, lost, threw>>

Leads(path, to) == /\ fabric = "infiniband" => path.dlid = port[to].lid
                   /\ path.global => path.dgid = port[to].gid
                   /\ fabric = "roce" => path.global

\* External: a packet arrives, is taken and acknowledged, or dropped.
Deliver(e) ==
    LET p == Head(flight[e])
        Takes == /\ Leads(p.path, e) /\ p.qpn = Address(e).qpn
                 /\ qp[e].STATE \in {"RTR", "RTS"} /\ p.psn = qp[e].RQ_PSN
                 /\ "WRITE" \in qp[e].ACCESS_FLAGS
    IN
    /\ flight[e] # << >>
    /\ flight' = [flight EXCEPT ![e] = Tail(@)]
    /\ IF Takes
       THEN /\ qp' = [qp EXCEPT ![e].RQ_PSN = @ + 1]
            /\ done' = [done EXCEPT ![e].receive = @ + 1, ![Peer(e)].write = @ + 1]
            /\ UNCHANGED lost
       ELSE /\ lost' = lost + 1 /\ UNCHANGED <<qp, done>>
    /\ UNCHANGED <<ends, pc, calls, known, tcp, threw>>

\* pollSendCompletionQueueBlocking, pollRecvWorkCompletionBlocking.
PollSend(e) ==
    /\ At(e, "sent") /\ done[e].write > 0 /\ Passed(e)
    /\ done' = [done EXCEPT ![e].write = @ - 1]
    /\ UNCHANGED <<ends, qp, known, tcp, flight, lost, threw>>

PollReceive(e) ==
    /\ At(e, "receive") /\ done[e].receive > 0 /\ Passed(e)
    /\ done' = [done EXCEPT ![e].receive = @ - 1]
    /\ UNCHANGED <<ends, qp, known, tcp, flight, lost, threw>>

\* setToResetState: what the queue pair has still to send is gone with it.
SetToResetState(e) ==
    /\ At(e, "close") /\ Passed(e)
    /\ qp' = [qp EXCEPT ![e] = Reset]
    /\ lost' = lost + Len(flight[Peer(e)])
    /\ flight' = [flight EXCEPT ![Peer(e)] = << >>]
    /\ UNCHANGED <<ends, known, tcp, done, threw>>

Step(e) == \/ WriteAddress(e) \/ ReadAddress(e) \/ \E to \in DOMAIN Before : Modify(e, to)
           \/ Announce(e) \/ Hear(e) \/ Post(e) \/ PollSend(e) \/ PollReceive(e)
           \/ SetToResetState(e)

Next == \E e \in Ends : Step(e) \/ Deliver(e)

Spec == Init /\ [][Next]_vars

\* Both processes go on, and packets arrive somewhere.
FairSpec == Spec /\ \A e \in Ends : WF_vars(Step(e)) /\ WF_vars(Deliver(e))

-----------------------------------------------------------------------------
\* Every variable keeps its type: an end never has more than one completion
\* of a kind to poll, and no more than two records to read.
TypeOK == /\ kind \in Kinds /\ fabric \in Fabrics /\ threw \subseteq Ends
          /\ \A e \in Ends : /\ DOMAIN qp[e] = Attrs
                             /\ qp[e].STATE \in {"RESET", "INIT", "RTR", "RTS"}
                             /\ pc[e] \in Steps /\ calls[e] \in 0 .. Calls
                             /\ done[e].write \in 0 .. 1 /\ done[e].receive \in 0 .. 1
                             /\ Len(tcp[e]) <= 2 /\ Len(flight[e]) <= 1

\* Two connected queue pairs lead to each other: the path and the number of
\* each are the other's, packets are as large, and each expects the sequence
\* number the other sends next, unless that packet is on its way.
LeadToEachOther ==
    (kind # "UD" /\ \A e \in Ends : qp[e].STATE = "RTS") =>
        \A e \in Ends :
            /\ Leads(qp[e].AV, Peer(e)) /\ qp[e].DEST_QPN = Address(Peer(e)).qpn
            /\ qp[e].PATH_MTU = qp[Peer(e)].PATH_MTU
            /\ qp[e].SQ_PSN = qp[Peer(e)].RQ_PSN + Len(flight[Peer(e)])

\* No packet is sent to a queue pair that cannot take it, nor dropped with
\* its sender: a buffer is announced when its queue pair receives, and a
\* queue pair is reset when the peer has all it sent.
NothingIsLost == lost = 0

\* Only a port refuses a step, never the order or the attributes of one:
\* no process ends if its port has the path and the MTU connect() asks for.
RefusedOnlyByPort ==
    \A e \in threw : /\ qp[e].STATE = "INIT" /\ kind # "UD"
                     /\ MtuRefused \/ (kind = "UC" /\ fabric = "roce")

\* Both ends come to the end of what they do, unless one of them throws.
ConnectionEnds == <>(threw # {} \/ \A e \in Ends : Ended(e))
=============================================================================
