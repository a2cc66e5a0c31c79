------------------------------ MODULE Transport ------------------------------
(***************************************************************************)
(* A session between two nodes, Caller and Home: the TCP connection over   *)
(* which they tell each other their queue pairs and, before every call,    *)
(* the regions they have registered; the queue pairs, which retry nothing; *)
(* the shared receive queue and the two completion queues of a node, which *)
(* all its connections use.  The client writes its request into the        *)
(* server's region, the server its answer into the client's, and the       *)
(* immediate data of either write consumes a receive the other has posted. *)
(*                                                                         *)
(* Home answers a WRITE twice if it knows of sharers; it then closes and   *)
(* calls back.  Caller serves that session in the middle of its own call   *)
(* and connects to Home again.                                             *)
(***************************************************************************)
EXTENDS Naturals, Sequences, SequencesExt

CONSTANTS
    Caller, Home,
    Programs,      \* the sequences of calls Caller makes in one session
    MaxSessions    \* bound: the sessions Caller begins

Node == {Caller, Home}
Peer(n) == IF n = Caller THEN Home ELSE Caller

Imm == {"DEFAULT", "MALLOC", "READ", "WRITE", "RESET", "INVALIDATE"}

\* Nothing is called in a session after its RESET.
ASSUME TransportAssumption ==
    /\ Caller # Home /\ MaxSessions \in Nat
    /\ \A p \in Programs :
          p \in Seq(Imm) /\ \A i \in DOMAIN p : p[i] = "RESET" => i = Len(p)

VARIABLES
    role,      \* the side n is on, of its connection or of the next one
    pc,        \* how far n has come
    todo,      \* todo[n]: the calls a client has still to make
    calling,   \* calling[n]: the call a client is in; "BACK" if it is called back
    serving,   \* serving[n]: the last request of a server; of a WRITE that
               \* finds sharers, which of its two answers is next
    tcp,       \* tcp[n]: what n has yet to read from its socket
    open,      \* open[n]: whether n's socket is connected
    remote,    \* remote[n]: the peer's region that n has read of last
    own,       \* own[n]: n's registered regions, a stack as calls nest
    mem,       \* mem[n]: all buffers n has allocated, and the call each has
               \* the request or the answer of
    qp,        \* qp[n]: the state of n's queue pair
    posted,    \* posted[n]: receives in the shared receive queue
    wire,      \* wire[n]: the writes n has posted and nobody has received
    sendCQ, recvCQ,
    sessions,
    asked, handled, answered   \* history: the calls of n, see RemoteCall

control == <<role, pc, todo, calling, serving>>
socket == <<tcp, open>>
regions == <<remote, own, mem>>
queues == <<posted, wire, sendCQ, recvCQ>>
history == <<sessions, asked, handled, answered>>
vars == <<control, socket, regions, qp, queues, history>>

PC == {"idle", "listen", "address", "ready", "exchange", "request", "sent",
       "receive", "wait", "close", "stuck", "ended"}

Init ==
    /\ role = [n \in Node |-> IF n = Home THEN "server" ELSE "client"]
    /\ pc = [n \in Node |-> IF n = Home THEN "listen" ELSE "idle"]
    /\ todo = [n \in Node |-> << >>]
    /\ calling = [n \in Node |-> "none"] /\ serving = calling
    /\ tcp = todo /\ open = [n \in Node |-> FALSE]
    /\ remote = [n \in Node |-> 0] /\ own = todo /\ mem = todo
    /\ qp = [n \in Node |-> "RESET"]
    /\ posted = remote /\ wire = todo /\ sendCQ = todo /\ recvCQ = todo
    /\ sessions = 0
    /\ asked = remote /\ handled = remote /\ answered = remote

At(n, r, p) == role[n] = r /\ pc[n] = p
Go(n, p) == pc' = [pc EXCEPT ![n] = p]
Put(f, n, x) == [f EXCEPT ![n] = Append(@, x)]
Take(f, n) == [f EXCEPT ![n] = Tail(@)]
Pop(f, n) == [f EXCEPT ![n] = Front(@)]

\* Mutant: a nested session uses the buffer of the outer one.
ContentOfOuter(n) == mem[n][Head(own[n])]

\* What has been written into the innermost of n's regions.
Content(n) == mem[n][Last(own[n])]

-----------------------------------------------------------------------------
\* Caller is about to make a session's calls.
Begin ==
    /\ At(Caller, "client", "idle")
    /\ todo[Caller] = << >> /\ sessions < MaxSessions
    /\ \E p \in Programs : todo' = [todo EXCEPT ![Caller] = p]
    /\ sessions' = sessions + 1
    /\ UNCHANGED <<role, pc, calling, serving, socket, regions, qp, queues,
                   asked, handled, answered>>

\* connectClientSocket finds a listening node, whose accept returns; both
\* write their address.
Connect(n) ==
    /\ At(n, "client", "idle") /\ todo[n] # << >>
    /\ At(Peer(n), "server", "listen")
    /\ pc' = [m \in Node |-> "address"]
    /\ open' = [m \in Node |-> TRUE]
    /\ tcp' = [m \in Node |-> <<"address">>]
    /\ UNCHANGED <<role, todo, calling, serving, regions, qp, queues, history>>

\* A call returns with what is in its region.
Return(n) ==
    /\ answered' = [answered EXCEPT ![n] = Content(n)]
    /\ own' = Pop(own, n)
    /\ calling' = [calling EXCEPT ![n] = "none"]

\* The peer's address is read, and RcQueuePair::connect takes the queue pair
\* to RTS.  For a client that was called back this ends sendData.
ConnectQueuePair(n) ==
    /\ pc[n] = "address" /\ tcp[n] # << >>
    /\ tcp' = Take(tcp, n)
    /\ qp' = [qp EXCEPT ![n] = "RTS"]
    /\ Go(n, "ready")
    /\ IF role[n] = "client" /\ calling[n] = "BACK"
       THEN Return(n)
       ELSE UNCHANGED <<answered, own, calling>>
    /\ UNCHANGED <<role, todo, serving, open, remote, mem, queues,
                   sessions, asked, handled>>

\* A buffer is allocated and registered, and its address written to the peer,
\* whose socket has what is in unread.
Announce(n, unread) ==
    LET r == Len(mem[n]) + 1 IN
    /\ own' = Put(own, n, r) /\ mem' = Put(mem, n, 0)
    /\ tcp' = IF open[Peer(n)] THEN Put(unread, Peer(n), r) ELSE unread
    /\ Go(n, "exchange")

\* A client enters its next call.
BeginCall(n) ==
    IF role[n] = "client"
    THEN /\ calling' = [calling EXCEPT ![n] = Head(todo[n])]
         /\ todo' = Take(todo, n)
         /\ asked' = [asked EXCEPT ![n] = @ + 1]
    ELSE UNCHANGED <<calling, todo, asked>>

\* sendAddress, sendData or sendLock of the next call; or receive.
Offer(n) ==
    /\ pc[n] = "ready"
    /\ Announce(n, tcp) /\ BeginCall(n)
    /\ UNCHANGED <<role, serving, open, remote, qp, queues, sessions, handled, answered>>

\* tcp::read of the peer's region.
ReadRegion(n) ==
    /\ pc[n] = "exchange" /\ tcp[n] # << >>
    /\ remote' = [remote EXCEPT ![n] = Head(tcp[n])]
    /\ tcp' = Take(tcp, n)
    /\ Go(n, IF role[n] = "client" THEN "request" ELSE "receive")
    /\ UNCHANGED <<role, todo, calling, serving, open, own, mem, qp, queues, history>>

\* tcp::read when the peer has closed: recv returns 0 and the loop goes on for
\* ever; or, if the peer's kernel has reset the connection, it throws.
EndOfStream(n) ==
    /\ pc[n] = "exchange" /\ tcp[n] = << >> /\ ~ open[Peer(n)]
    /\ \/ Go(n, "stuck")
       \/ Go(n, "ended")
    /\ UNCHANGED <<role, todo, calling, serving, socket, regions, qp, queues, history>>

\* The write with immediate data: of the request, or of an answer.
Post(n) ==
    /\ pc[n] = "request"
    /\ wire' = Put(wire, n,
         [imm |-> IF role[n] = "client" THEN calling[n]
                  ELSE CASE serving[n] = "first" -> "INVALIDATE"
                         [] serving[n] = "RESET" -> "RESET"
                         [] OTHER -> "DEFAULT",
          region |-> remote[n],
          call |-> IF role[n] = "client" THEN asked[n] ELSE handled[Peer(n)]])
    /\ Go(n, "sent")
    /\ UNCHANGED <<role, todo, calling, serving, socket, regions, qp, posted,
                   sendCQ, recvCQ, history>>

\* pollSendCompletionQueueBlocking throws on an error; nobody catches.
PollSend(n) ==
    /\ pc[n] = "sent" /\ sendCQ[n] # << >>
    /\ sendCQ' = Take(sendCQ, n)
    /\ LET next == IF Head(sendCQ[n]) = "ERROR" THEN "ended"
                   ELSE IF role[n] = "client" THEN "receive"
                   ELSE CASE serving[n] = "first" -> "request"
                          [] serving[n] \in {"last", "RESET"} -> "close"
                          [] OTHER -> "ready"
       IN  /\ Go(n, next)
           /\ serving' = IF next = "request" THEN [serving EXCEPT ![n] = "last"] ELSE serving
           /\ own' = IF next = "ready" THEN Pop(own, n) ELSE own
    /\ UNCHANGED <<role, todo, calling, socket, remote, mem, qp, posted, wire,
                   recvCQ, history>>

\* Mutant: sendData posts the receive for a second answer in advance.
PostReceiveAhead(n) ==
    /\ pc[n] = "receive"
    /\ posted' = [posted EXCEPT ![n] = @ + IF calling[n] = "WRITE" THEN 2 ELSE 1]
    /\ Go(n, "wait")
    /\ UNCHANGED <<role, todo, calling, serving, socket, regions, qp, wire,
                   sendCQ, recvCQ, history>>

\* postRecvRequest, without a buffer, to the receive queue all share.
PostReceive(n) ==
    /\ pc[n] = "receive"
    /\ posted' = [posted EXCEPT ![n] = @ + 1]
    /\ Go(n, "wait")
    /\ UNCHANGED <<role, todo, calling, serving, socket, regions, qp, wire,
                   sendCQ, recvCQ, history>>

\* Mutant: a request is answered without being handled.
TakeRequestUnhandled(n) ==
    /\ At(n, "server", "wait") /\ recvCQ[n] # << >>
    /\ recvCQ' = Take(recvCQ, n)
    /\ serving' = [serving EXCEPT ![n] = Head(recvCQ[n])]
    /\ Go(n, "request")
    /\ UNCHANGED <<role, todo, calling, socket, regions, qp, posted, wire, sendCQ, history>>

\* receive has polled a request, and its handler does its work.
TakeRequest(n) ==
    /\ At(n, "server", "wait") /\ recvCQ[n] # << >>
    /\ recvCQ' = Take(recvCQ, n)
    /\ \E s \in {Head(recvCQ[n])} \cup (IF Head(recvCQ[n]) = "WRITE" THEN {"first"} ELSE {}) :
           serving' = [serving EXCEPT ![n] = s]
    /\ handled' = [handled EXCEPT ![Peer(n)] = Content(n)]
    /\ Go(n, "request")
    /\ UNCHANGED <<role, todo, calling, socket, regions, qp, posted, wire, sendCQ,
                   sessions, asked, answered>>

\* An answer.  sendData looks at the immediate data: after an INVALIDATE it
\* waits for a second one, and is called back.
TakeAnswer(n) ==
    /\ At(n, "client", "wait") /\ recvCQ[n] # << >>
    /\ recvCQ' = Take(recvCQ, n)
    /\ IF calling[n] = "BACK" \/ (calling[n] = "WRITE" /\ Head(recvCQ[n]) = "INVALIDATE")
       THEN /\ Go(n, IF calling[n] = "BACK" THEN "close" ELSE "receive")
            /\ calling' = [calling EXCEPT ![n] = "BACK"]
            /\ UNCHANGED <<own, answered>>
       ELSE Return(n) /\ Go(n, IF todo[n] = << >> THEN "close" ELSE "ready")
    /\ UNCHANGED <<role, todo, serving, socket, remote, mem, qp, posted, wire, sendCQ,
                   sessions, asked, handled>>

\* Mutant: the writer is not called back.
CloseUncalling(n) ==
    LET turns == calling[n] = "BACK" \/ serving[n] = "last"
        next == IF turns = (role[n] = "client") THEN "server" ELSE "client"
    IN
    /\ pc[n] = "close"
    /\ qp' = [qp EXCEPT ![n] = "RESET"] /\ wire' = [wire EXCEPT ![n] = << >>]
    /\ open' = [open EXCEPT ![n] = FALSE] /\ tcp' = [tcp EXCEPT ![n] = << >>]
    /\ role' = [role EXCEPT ![n] = next]
    /\ Go(n, IF next = "client" THEN "idle" ELSE "listen")
    /\ own' = IF (role[n] = "server") # (serving[n] = "last") THEN Pop(own, n) ELSE own
    /\ UNCHANGED <<todo, calling, serving, remote, mem, posted, sendCQ, recvCQ, history>>

\* The queue pair is reset and the socket closed: by closeClientSocket, by the
\* fallback of Malloc, by handleReset; by prepareForInvalidate, which listens
\* then; and by startInvalidations, which calls back.
Close(n) ==
    LET turns == calling[n] = "BACK" \/ serving[n] = "last"
        next == IF turns = (role[n] = "client") THEN "server" ELSE "client"
    IN
    /\ pc[n] = "close"
    /\ qp' = [qp EXCEPT ![n] = "RESET"] /\ wire' = [wire EXCEPT ![n] = << >>]
    /\ open' = [open EXCEPT ![n] = FALSE] /\ tcp' = [tcp EXCEPT ![n] = << >>]
    /\ role' = [role EXCEPT ![n] = next]
    /\ Go(n, IF next = "client" THEN "idle" ELSE "listen")
    /\ todo' = IF At(n, "server", "close") /\ serving[n] = "last"
               THEN [todo EXCEPT ![n] = <<"INVALIDATE", "RESET">>] ELSE todo
    /\ own' = IF (role[n] = "server") # (serving[n] = "last") THEN Pop(own, n) ELSE own
    /\ UNCHANGED <<calling, serving, remote, mem, posted, sendCQ, recvCQ, history>>

-----------------------------------------------------------------------------
\* External: reliable queue pairs.  A write with immediate data takes a posted
\* receive and the sender's completion is a success; without a receive, or into
\* memory that is not registered, it is an error at once, since the queue pairs
\* retry zero times; or the write is as late as it takes for the receive to be
\* posted.  Nothing answers for a queue pair that is not connected.
Deliver(n) ==
    LET p == Peer(n) w == Head(wire[n]) IN
    /\ wire[n] # << >> /\ qp[n] = "RTS" /\ qp[p] = "RTS"
    /\ wire' = Take(wire, n)
    /\ \/ /\ posted[p] > 0 /\ Contains(own[p], w.region)
          /\ posted' = [posted EXCEPT ![p] = @ - 1]
          /\ mem' = [mem EXCEPT ![p][w.region] = w.call]
          /\ recvCQ' = Put(recvCQ, p, w.imm)
          /\ sendCQ' = Put(sendCQ, n, "SUCCESS")
          /\ UNCHANGED qp
       \/ /\ posted[p] = 0 \/ ~ Contains(own[p], w.region)
          /\ sendCQ' = Put(sendCQ, n, "ERROR")
          /\ qp' = [qp EXCEPT ![n] = "ERR"]
          /\ UNCHANGED <<posted, mem, recvCQ>>
    /\ UNCHANGED <<control, socket, remote, own, history>>

NodeStep(n) ==
    \/ Connect(n) \/ ConnectQueuePair(n) \/ Offer(n) \/ ReadRegion(n)
    \/ EndOfStream(n) \/ Post(n) \/ PollSend(n) \/ PostReceive(n)
    \/ TakeRequest(n) \/ TakeAnswer(n) \/ Close(n)

Next == Begin \/ \E n \in Node : NodeStep(n) \/ Deliver(n)

Spec == Init /\ [][Next]_vars

\* Every process runs, and so does the network.
FairSpec == Spec /\ \A n \in Node : WF_vars(NodeStep(n)) /\ WF_vars(Deliver(n))

-----------------------------------------------------------------------------
\* What a queue holds, what is under way and what is written.
TypeOK ==
    /\ role \in [Node -> {"client", "server"}] /\ pc \in [Node -> PC]
    /\ todo \in [Node -> Seq(Imm)]
    /\ calling \in [Node -> Imm \cup {"none", "BACK"}]
    /\ serving \in [Node -> Imm \cup {"none", "first", "last"}]
    /\ open \in [Node -> BOOLEAN]
    /\ remote \in [Node -> Nat] /\ mem \in [Node -> Seq(Nat)]
    /\ \A n \in Node : \A i \in DOMAIN own[n] : own[n][i] \in DOMAIN mem[n]
    /\ qp \in [Node -> {"RESET", "RTS", "ERR"}] /\ posted \in [Node -> Nat]
    /\ sessions \in 0 .. MaxSessions

\* The queues that all connections share are empty when a session begins: what
\* one session left over would be taken for an answer of the next.
QueuesStartEmpty ==
    \A n \in Node : pc[n] \in {"idle", "listen", "address"} =>
        /\ posted[n] = 0 /\ wire[n] = << >>
        /\ sendCQ[n] = << >> /\ recvCQ[n] = << >>

\* A write under way meets a connected queue pair and a registered region.
WritesLand ==
    \A n \in Node : wire[n] # << >> =>
        /\ qp[Peer(n)] = "RTS"
        /\ Contains(own[Peer(n)], Head(wire[n]).region)

\* Types are kept, sessions do not disturb each other, nothing is sent to where
\* nobody expects it.
TransportInv == TypeOK /\ QueuesStartEmpty /\ WritesLand

\* A client that ends in a call has not had it handled; a server that ends
\* has handled the call of a client that never returns.
FailureIsClean ==
    \A n \in Node : pc[n] = "ended" /\ qp[n] = "ERR" =>
        IF role[n] = "client" THEN handled[n] # asked[n]
        ELSE handled[Peer(n)] = asked[Peer(n)] /\ answered[Peer(n)] # asked[Peer(n)]

\* A write came before the receive that it needs.
TooLate == \E n \in Node : qp[n] = "ERR"

\* After every session that ends with RESET Home listens again, if no receive
\* was posted too late.
HomeListensAgain ==
    ~ At(Home, "server", "listen") ~>
        At(Home, "server", "listen") \/ TooLate \/ serving[Home] = "MALLOC"

\* Calls are handled at most once, return what was answered to them and to no
\* other, and always return while no receive is posted too late.
Call == INSTANCE RemoteCall WITH lost <- TooLate
ImplementsRemoteCall == Call!LiveCallSpec

=============================================================================
