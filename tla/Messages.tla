------------------------------ MODULE Messages ------------------------------
(***************************************************************************)
(* What the bytes of a call mean at both ends.  A call posts the first     *)
(* bytes of a packed structure; the server lays a structure over what has  *)
(* arrived, answers with the first bytes of another one, and the client    *)
(* lays yet another over its buffer.  Nothing but agreement between these  *)
(* declarations and lengths makes a field arrive as what it was.           *)
(*                                                                         *)
(* sendAddress registers, posts and expects as many bytes as the object    *)
(* has on top of the structure: what follows the structure on its stack is *)
(* sent along.  All writes are inline, and so bounded by the queue pair.   *)
(*                                                                         *)
(* A byte is the value it belongs to and its place in it.                  *)
(***************************************************************************)
EXTENDS Naturals, Sequences

CONSTANTS ObjectSizes,     \* sizes of the objects a program allocates
          maxInlineSize,   \* of the queue pair: 512
          BufferSize       \* of the server: twice BIGBADBUFFER_SIZE

MessagesAssumption ==
    /\ ObjectSizes \subseteq Nat /\ maxInlineSize \in Nat /\ BufferSize \in Nat
    /\ maxInlineSize <= BufferSize

VARIABLES
    call,      \* the call of the client: kind, object size, whether it has sharers
    client,    \* where the client is in it
    server,    \* where the server is in it
    wire,      \* work requests posted and not carried out
    region,    \* the bytes of the server's buffer that were written
    buffer,    \* and those of the client's
    request,   \* what the server has read
    answers,   \* the immediate data of the answers the server has still to post
    polled,    \* completions to be polled: [side |-> sequence of results]
    arrived,   \* immediate data that has arrived: [side |-> sequence]
    result     \* what the client has read

vars == <<call, client, server, wire, region, buffer, request, answers, polled, arrived, result>>

-----------------------------------------------------------------------------
(* The structures, byte by byte; all but SaveData are packed.              *)

Field(f, width) == [b \in 1 .. width |-> <<f, b>>]

SendGlobalAddr == Field("size", 8) \o Field("ptr", 8) \o Field("id", 2) \o Field("srcID", 2)

GlobalAddress == Field("size", 8) \o Field("ptr", 8) \o Field("id", 2)

SendingData == Field("dsize", 8) \o Field("data", 8) \o SendGlobalAddr

Lock == Field("id", 2) \o Field("state", 4)

SaveData == Field("data", 8) \o Field("iscached", 4) \o Field("ownerNode", 2)
                \o Field("padding", 2) \o Field("sharerNodes", 24)

Word == Field("data", 8)
Bool == Field("result", 1)

SizeOf(layout) == Len(layout)

Bytes(layout, record) ==
    [i \in DOMAIN layout |-> <<record[layout[i][1]], layout[i][2]>>]

\* The first n bytes from a structure on; behind it is whatever is there.
Slice(layout, record, n) ==
    SubSeq(Bytes(layout, record) \o [i \in 1 .. n |-> <<"garbage", i>>], 1, n)

\* A structure laid over bytes: a field is a value if its bytes are those.
Read(layout, bytes, f) ==
    LET at == {i \in DOMAIN layout : layout[i][1] = f} IN
    IF \E v \in {bytes[i][1] : i \in at \cap DOMAIN bytes} :
           \A i \in at : i \in DOMAIN bytes /\ bytes[i] = <<v, layout[i][2]>>
    THEN bytes[CHOOSE i \in at : TRUE][1] ELSE "garbage"

-----------------------------------------------------------------------------
(* The calls. *)

ByAddress == {"MALLOC", "READ", "FREE", "INVALIDATE"}   \* sendAddress
ByLock == {"LOCKS", "RESET"}                            \* sendLock
Kinds == ByAddress \cup ByLock \cup {"WRITE"}

RequestLayout(k) == IF k \in ByAddress THEN SendGlobalAddr
                    ELSE IF k \in ByLock THEN Lock ELSE SendingData

RequestLength(c) == SizeOf(RequestLayout(c.kind)) + IF c.kind \in ByAddress THEN c.size ELSE 0

\* The client's buffer.
AnswerRoom(c) == CASE c.kind \in ByAddress -> SizeOf(SendGlobalAddr) + c.size
                   [] c.kind \in ByLock -> SizeOf(Lock)
                   [] OTHER -> SizeOf(SendGlobalAddr)

\* What the client means: Malloc has no address yet.
Meant(k) ==
    CASE k = "MALLOC" -> [size |-> "size", ptr |-> "null", id |-> "0", srcID |-> "me"]
      [] k = "WRITE" -> [dsize |-> "eight", data |-> "new", size |-> "size", ptr |-> "p",
                         id |-> "home", srcID |-> "me"]
      [] k = "LOCKS" -> [id |-> "home", state |-> "wanted"]
      [] k = "RESET" -> [id |-> "me", state |-> "UNLOCKED"]
      [] OTHER -> [size |-> "size", ptr |-> "p", id |-> "home", srcID |-> "me"]

\* What the server makes of the request: handleRead, handleFree, ...; the
\* answer of handleReset and of handleLocks is a bool.
Answer(k, q) ==
    CASE k = "MALLOC" -> [size |-> q.size, ptr |-> "fresh", id |-> "home", srcID |-> q.srcID]
      [] k = "FREE" -> [size |-> "0", ptr |-> "null", id |-> q.id, srcID |-> q.srcID]
      [] k = "WRITE" -> [size |-> q.size, ptr |-> q.ptr, id |-> q.id, srcID |-> q.srcID]
      [] k \in ByLock -> [result |-> "granted"]
      [] OTHER -> [data |-> "old"]

AnswerLayout(k) == IF k \in {"MALLOC", "FREE", "WRITE"} THEN SendGlobalAddr
                   ELSE IF k \in ByLock THEN Bool ELSE Word

\* Mutant: handleRead answers with the entry and not with its data.
AnswerLengthOfEntry(k) ==
    IF k = "READ" THEN SizeOf(SaveData) ELSE SizeOf(AnswerLayout(k))

\* handleAllocation registers a SendGlobalAddr with the size of a GlobalAddress.
AnswerLength(k) == IF k = "MALLOC" THEN SizeOf(GlobalAddress) ELSE SizeOf(AnswerLayout(k))

\* The structure the client lays over its buffer, and what it takes from it.
View(k) == CASE k = "READ" -> SaveData
             [] k \in ByLock -> Bool
             [] OTHER -> SendGlobalAddr
Used(k) == CASE k \in {"MALLOC", "FREE", "WRITE"} -> {"size", "ptr", "id"}
             [] k = "READ" -> {"data"}
             [] k = "LOCKS" -> {"result"}
             [] OTHER -> {}

-----------------------------------------------------------------------------
(* A work request: Simple holds the slice its scatter-gather list points   *)
(* to.  createWriteWithImm returns the object it has built in place; the   *)
(* pointer would otherwise be to a local that is gone.                     *)

\* Mutant: a work request that is copied on return.
CreateWriteWithImmByCopy(slice, imm) ==
    [slice |-> [i \in DOMAIN slice |-> <<"garbage", i>>], imm |-> imm,
     flags |-> {"INLINE", "SIGNALED"}]

CreateWriteWithImm(slice, imm) ==
    [slice |-> slice, imm |-> imm, flags |-> {"INLINE", "SIGNALED"}]

TooLong(wr) == "INLINE" \in wr.flags /\ Len(wr.slice) > maxInlineSize

Init == /\ call = [kind |-> "RESET", size |-> 0, shared |-> FALSE]
        /\ client = "idle" /\ server = "waiting"
        /\ wire = << >> /\ region = << >> /\ buffer = << >>
        /\ request = << >> /\ answers = << >>
        /\ polled = [s \in {"client", "server"} |-> << >>] /\ arrived = polled
        /\ result = << >>

\* sendAddress, sendData or sendLock, on both sides a buffer of its own.
Call == /\ client = "idle"
        /\ \E k \in Kinds, n \in ObjectSizes, s \in BOOLEAN :
              /\ s => k = "WRITE"
              /\ call' = [kind |-> k, size |-> n, shared |-> s]
        /\ client' = "posting" /\ server' = "waiting"
        /\ region' = << >> /\ buffer' = << >> /\ result' = << >> /\ request' = << >>
        /\ UNCHANGED <<wire, answers, polled, arrived>>

\* Mutant: a write that is posted a second time.
PostRequestTwice ==
    LET k == call.kind
        wr == CreateWriteWithImm(Slice(RequestLayout(k), Meant(k), RequestLength(call)), k)
    IN
    /\ client = "posting" /\ ~ TooLong(wr)
    /\ client' = "sent" /\ wire' = wire \o <<wr, wr>>
    /\ UNCHANGED <<call, server, region, buffer, request, answers, polled, arrived, result>>

\* postWorkRequest; ibv_post_send refuses what is too long, and it throws.
PostRequest ==
    LET k == call.kind
        wr == CreateWriteWithImm(Slice(RequestLayout(k), Meant(k), RequestLength(call)), k)
    IN
    /\ client = "posting"
    /\ IF TooLong(wr)
       THEN client' = "threw" /\ UNCHANGED wire
       ELSE client' = "sent" /\ wire' = Append(wire, wr)
    /\ UNCHANGED <<call, server, region, buffer, request, answers, polled, arrived, result>>

\* External: the adapter carries out the oldest write.  A completion is made
\* for what is SIGNALED, and an error if the peer's region is too small.
Transfer ==
    LET wr == Head(wire)
        from == IF server = "answering" THEN "server" ELSE "client"
        to == IF from = "server" THEN "client" ELSE "server"
        room == IF from = "server" THEN AnswerRoom(call) ELSE BufferSize
        fits == Len(wr.slice) <= room
        Over(old) == wr.slice \o SubSeq(old, Len(wr.slice) + 1, Len(old))
    IN
    /\ wire # << >>
    /\ wire' = Tail(wire)
    /\ polled' = IF "SIGNALED" \in wr.flags
                 THEN [polled EXCEPT ![from] = Append(@, fits)] ELSE polled
    /\ arrived' = IF fits THEN [arrived EXCEPT ![to] = Append(@, wr.imm)] ELSE arrived
    /\ region' = IF fits /\ from = "client" THEN Over(region) ELSE region
    /\ buffer' = IF fits /\ from = "server" THEN Over(buffer) ELSE buffer
    /\ UNCHANGED <<call, client, server, request, answers, result>>

\* pollSendCompletionQueueBlocking.
PollSend(s) == /\ polled[s] # << >> /\ polled' = [polled EXCEPT ![s] = Tail(@)]

ClientPollSend ==
    /\ client = "sent" /\ PollSend("client")
    /\ client' = IF Head(polled.client) THEN "receiving" ELSE "threw"
    /\ UNCHANGED <<call, server, wire, region, buffer, request, answers, arrived, result>>

\* receive: the immediate data says what the bytes are.
TakeRequest ==
    LET k == Head(arrived.server) IN
    /\ server = "waiting" /\ arrived.server # << >>
    /\ arrived' = [arrived EXCEPT !.server = Tail(@)]
    /\ request' = [f \in DOMAIN Meant(k) |-> Read(RequestLayout(k), region, f)]
    /\ answers' = IF call.shared THEN <<"INVALIDATE", "DEFAULT">>
                  ELSE IF k = "RESET" THEN <<"RESET">> ELSE <<"DEFAULT">>
    /\ server' = "handling"
    /\ UNCHANGED <<call, client, wire, region, buffer, polled, result>>

PostAnswer ==
    LET k == call.kind
        slice == Slice(AnswerLayout(k), Answer(k, request), AnswerLength(k))
    IN
    /\ server = "handling"
    /\ wire' = Append(wire, CreateWriteWithImm(slice, Head(answers)))
    /\ answers' = Tail(answers)
    /\ server' = "answering"
    /\ UNCHANGED <<call, client, region, buffer, request, polled, arrived, result>>

ServerPollSend ==
    /\ server = "answering" /\ PollSend("server")
    /\ server' = IF ~ Head(polled.server) THEN "threw"
                 ELSE IF answers = << >> THEN "answered" ELSE "handling"
    /\ UNCHANGED <<call, client, wire, region, buffer, request, answers, arrived, result>>

\* The client takes its answer: sendData the second one, if told so.
TakeAnswer ==
    LET k == call.kind IN
    /\ client = "receiving" /\ arrived.client # << >>
    /\ arrived' = [arrived EXCEPT !.client = Tail(@)]
    /\ IF Head(arrived.client) = "INVALIDATE"
       THEN UNCHANGED <<client, result>>
       ELSE /\ result' = [f \in Used(k) |-> Read(View(k), buffer, f)]
            /\ client' = "returned"
    /\ UNCHANGED <<call, server, wire, region, buffer, request, answers, polled>>

\* The next call, when the server has come back to receive.
Again == /\ client = "returned" /\ server = "answered"
         /\ client' = "idle"
         /\ UNCHANGED <<call, server, wire, region, buffer, request, answers, polled, arrived, result>>

Step == \/ PostRequest \/ Transfer \/ ClientPollSend \/ TakeRequest \/ PostAnswer
        \/ ServerPollSend \/ TakeAnswer

Next == Call \/ Step \/ Again

Spec == Init /\ [][Next]_vars

\* Both processes and the adapter go on.
FairSpec == Spec /\ WF_vars(Step)

-----------------------------------------------------------------------------
\* Every variable keeps its type.
TypeOK == /\ call \in [kind : Kinds, size : ObjectSizes \cup {0}, shared : BOOLEAN]
          /\ client \in {"idle", "posting", "sent", "receiving", "returned", "threw"}
          /\ server \in {"waiting", "handling", "answering", "answered", "threw"}
          /\ Len(wire) <= 1 /\ Len(region) <= BufferSize /\ Len(buffer) <= AnswerRoom(call)

\* The server reads the request that was meant, field by field, although it
\* lays the structure over a buffer of megabytes.
RequestArrives ==
    server \in {"handling", "answering", "answered"} => request = Meant(call.kind)

\* The client takes from its buffer what the server meant to answer, although
\* the answer may be shorter than the structure it reads: it never takes a
\* field the answer did not carry.
AnswerArrives ==
    client = "returned" =>
        \A f \in Used(call.kind) : result[f] = Answer(call.kind, Meant(call.kind))[f]

\* A call throws only if the object is too large to be sent inline with its
\* address: no answer exceeds the buffer the client has announced for it.
ThrowsOnlyWhenLarge ==
    /\ client = "threw" => call.kind \in ByAddress /\ 20 + call.size > maxInlineSize
    /\ server # "threw"

\* Every call comes to an end.
CallEnds == client = "posting" ~> client \in {"returned", "threw"}
=============================================================================
