---------------------------- MODULE TransportProofs ----------------------------
(***************************************************************************)
(* What Transport promises, for any programs, any number of sessions and   *)
(* every interleaving of the two nodes with the network.  SessionInv says  *)
(* where the one end of a session can be while the other is where it is;   *)
(* that is what a step of either end relies on.                            *)
(***************************************************************************)
EXTENDS Transport, SequenceFacts

\* Queues of at most two elements.
LEMMA Singles ==
    ASSUME NEW x, NEW y
    PROVE  /\ Append(<< >>, x) = <<x>> /\ Tail(<<x>>) = << >> /\ Head(<<x>>) = x
           /\ <<x>> # << >> /\ Append(<<x>>, y) = <<x, y>>
           /\ Head(<<x, y>>) = x /\ Tail(<<x, y>>) = <<y>> /\ <<x, y>> # << >>
           /\ (<<x>> = <<y>> => x = y)
  <1> DEFINE S == {x, y}
  <1>1. <<x>> \in Seq(S) /\ <<x, y>> \in Seq(S) /\ <<y>> \in Seq(S)
    OBVIOUS
  <1>2. Tail(<<x>>) \in Seq(S) /\ Len(Tail(<<x>>)) = 0
    BY <1>1, HeadTailProperties
  <1>3. Tail(<<x>>) = << >>
    BY <1>2, EmptySeq
  <1>4. /\ Tail(<<x, y>>) \in Seq(S) /\ Len(Tail(<<x, y>>)) = 1 /\ Tail(<<x, y>>)[1] = y
        /\ Len(<<y>>) = 1 /\ <<y>>[1] = y
    BY <1>1
  <1>5. Tail(<<x, y>>) = <<y>>
    BY <1>1, <1>4, SeqEqual
  <1>6. /\ Append(<< >>, x) = <<x>> /\ Head(<<x>>) = x /\ Head(<<x, y>>) = x
        /\ <<x>> # << >> /\ <<x, y>> # << >>
    OBVIOUS
  <1>7. Append(<<x>>, y) = <<x, y>>
    <2>1. /\ Append(<<x>>, y) \in Seq(S) /\ Len(Append(<<x>>, y)) = 2
          /\ Append(<<x>>, y)[1] = x /\ Append(<<x>>, y)[2] = y
      BY <1>1
    <2>2. Len(<<x, y>>) = 2 /\ <<x, y>>[1] = x /\ <<x, y>>[2] = y
      OBVIOUS
    <2>3. \A i \in 1 .. 2 : Append(<<x>>, y)[i] = <<x, y>>[i]
      <3>1. \A i \in 1 .. 2 : i = 1 \/ i = 2
        OBVIOUS
      <3> QED
        BY <2>1, <2>2, <3>1
    <2>4. Len(Append(<<x>>, y)) = Len(<<x, y>>)
      BY <2>1, <2>2
    <2>5. Append(<<x>>, y) \in Seq(S)
      BY <2>1
    <2> QED
      BY <1>1, <2>1, <2>3, <2>4, <2>5, SeqEqual
  <1>8. <<x>> = <<y>> => x = y
    OBVIOUS
  <1> HIDE DEF S
  <1> QED
    BY <1>3, <1>5, <1>6, <1>7, <1>8

\* A stack without its last element.
LEMMA Popped ==
    ASSUME NEW s \in Seq(Nat), Len(s) > 0
    PROVE  /\ Front(s) \in Seq(Nat) /\ Len(Front(s)) = Len(s) - 1
           /\ \A i \in 1 .. Len(s) - 1 : Front(s)[i] = s[i]
           /\ Last(s) = s[Len(s)] 
  <1>1. Len(s) \in Nat /\ 1 \in Int /\ Len(s) - 1 \in Int /\ \A i \in 1 .. Len(s) - 1 : s[i] \in Nat
    OBVIOUS
  <1> DEFINE t == SubSeq(s, 1, Len(s) - 1)
  <1>2. t \in Seq(Nat) /\ Len(t) = IF 1 <= Len(s) - 1 THEN (Len(s) - 1) - 1 + 1 ELSE 0
    BY <1>1, SubSeqProperties
  <1>3. \A i \in 1 .. (Len(s) - 1) - 1 + 1 : t[i] = s[1 + i - 1]
    BY <1>1, SubSeqProperties
  <1>4. \A i \in 1 .. Len(s) - 1 : t[i] = s[i]
    BY <1>1, <1>3
  <1> HIDE DEF t
  <1>5. Len(t) = Len(s) - 1
    <2>1. \A k \in Nat : k > 0 => (IF 1 <= k - 1 THEN (k - 1) - 1 + 1 ELSE 0) = k - 1
      OBVIOUS
    <2> QED
      BY <1>1, <1>2, <2>1
  <1> USE DEF t
  <1> QED
    BY <1>2, <1>4, <1>5 DEF Front, Last

-----------------------------------------------------------------------------
\* Where a node is with a write of its own, and with one it waits for.
Sending(n) == pc[n] = "sent" /\ sendCQ[n] = << >>
Delivered(n) == pc[n] = "sent" /\ sendCQ[n] = <<"SUCCESS">>
Undelivered(n) == pc[n] = "request" \/ Sending(n) \/ qp[n] = "ERR"
Empty(n) == pc[n] = "receive" \/ (pc[n] = "wait" /\ recvCQ[n] = << >>)
Got(n) == pc[n] = "wait" /\ recvCQ[n] # << >>

\* Where a client is in its session; Home has called it back, or is about to,
\* when it is Interrupted.
Starting(c) == role[c] = "client" /\ pc[c] \in {"address", "ready", "exchange"}
Offering(c) == role[c] = "client" /\ pc[c] \in {"ready", "exchange"}
Requesting(c) == role[c] = "client" /\ Undelivered(c)
Expecting(c) == role[c] = "client" /\ calling[c] # "BACK" /\ (Delivered(c) \/ Empty(c))
Interrupted(c) ==
    /\ role[c] = "client"
    /\ \/ calling[c] = "WRITE" /\ Got(c) /\ Head(recvCQ[c]) = "INVALIDATE"
       \/ calling[c] = "BACK" /\ Empty(c)
Final(c) == role[c] = "client" /\ calling[c] # "BACK" /\ Got(c) /\ Head(recvCQ[c]) # "INVALIDATE"
Away(c) == pc[c] \in {"close", "idle", "listen"}
Over(c) ==
    \/ Away(c)
    \/ role[c] = "client" /\ Got(c) /\ calling[c] = "BACK"
    \/ Final(c) /\ todo[c] = << >>

\* What the other end is doing, by what a server is doing.
ServerFits(s, c) ==
    /\ pc[s] = "listen" => Over(c) \/ role[c] = "server"
    /\ pc[s] = "address" => Starting(c)
    /\ pc[s] = "ready" => Starting(c) \/ Final(c) \/ Away(c)
    /\ pc[s] = "exchange" => Starting(c) \/ Requesting(c) \/ Final(c) \/ Away(c)
    /\ Empty(s) => (role[c] = "client" /\ pc[c] = "exchange") \/ Requesting(c)
    /\ Got(s) => Expecting(c) /\ handled[c] # asked[c] /\ recvCQ[s] = <<calling[c]>>
                 /\ mem[s][Last(own[s])] = asked[c]
    /\ Undelivered(s) =>
          /\ handled[c] = asked[c]
          /\ IF serving[s] = "last" THEN Interrupted(c)
             ELSE Expecting(c) /\ calling[c] = IF serving[s] = "first" THEN "WRITE" ELSE serving[s]
    /\ Delivered(s) =>
          CASE serving[s] = "first" -> Interrupted(c)
            [] serving[s] \in {"last", "RESET"} -> Over(c)
            [] OTHER -> Final(c) \/ Offering(c) \/ Away(c)
    /\ pc[s] = "close" => Over(c) /\ serving[s] \in {"last", "RESET"}
    /\ pc[s] = "stuck" \/ (pc[s] = "ended" /\ qp[s] # "ERR") => Away(c)

Fits(n, p) ==
    IF role[n] = "server" THEN ServerFits(n, p)
    ELSE role[p] = "client" => Over(p)

\* What n has not read of what p has offered.
Unread(n, p) ==
    \/ /\ role[n] = "client" /\ role[p] = "server"
       /\ \/ pc[p] = "exchange" /\ pc[n] \in {"address", "ready", "exchange", "wait"}
          \/ pc[p] \in {"receive", "wait"} /\ pc[n] = "exchange"
    \/ /\ role[n] = "server" /\ role[p] = "client"
       /\ \/ pc[p] = "exchange" /\ pc[n] \in {"address", "ready", "exchange", "sent"}
          \/ pc[n] = "exchange" /\ Undelivered(p)

SocketFits(n, p) ==
    /\ open[n] = (pc[n] \notin {"idle", "listen"})
    /\ pc[n] = "address" =>
          tcp[n] = IF Unread(n, p) THEN <<"address", Last(own[p])>> ELSE <<"address">>
    /\ pc[n] \in {"ready", "exchange", "request", "sent", "receive", "wait"} =>
          tcp[n] = IF Unread(n, p) THEN <<Last(own[p])>> ELSE << >>

\* A node writes to the region its peer has announced last.
RemoteFits(n, p) ==
    \/ pc[n] = "request" \/ Sending(n)
    \/ role[n] = "server" /\ (pc[n] \in {"receive", "wait"} \/ (serving[n] = "first" /\ Delivered(n)))
    => remote[n] = Last(own[p])

\* What a completion or an immediate datum can be.
Single(S) == {<<x>> : x \in S}

Message(n, p) ==
    [imm |-> IF role[n] = "client" THEN calling[n]
             ELSE CASE serving[n] = "first" -> "INVALIDATE"
                    [] serving[n] = "RESET" -> "RESET"
                    [] OTHER -> "DEFAULT",
     region |-> remote[n],
     call |-> IF role[n] = "client" THEN asked[n] ELSE handled[p]]

\* One receive or completion at a time, of the call the node is in.
QueuesFit(n, p) ==
    /\ posted[n] = IF pc[n] = "wait" /\ recvCQ[n] = << >> THEN 1 ELSE 0
    /\ recvCQ[n] \in Single(Imm) \cup {<< >>} /\ (recvCQ[n] # << >> => pc[n] = "wait")
    /\ sendCQ[n] \in {<< >>, <<"SUCCESS">>, <<"ERROR">>} /\ (sendCQ[n] # << >> => pc[n] = "sent")
    /\ wire[n] = IF Sending(n) THEN <<Message(n, p)>> ELSE << >>
    /\ qp[n] = "RESET" <=> pc[n] \in {"idle", "listen", "address"}
    /\ sendCQ[n] = <<"ERROR">> => qp[n] = "ERR"
    /\ qp[n] = "ERR" => sendCQ[n] = <<"ERROR">> \/ pc[n] = "ended"

\* The calls of n, and where it is in the last one.
CallsFit(n) ==
    /\ asked[n] \in Nat /\ handled[n] \in Nat /\ answered[n] \in Nat
    /\ calling[n] = "none" => handled[n] = asked[n] /\ answered[n] = asked[n]
    /\ calling[n] # "none" => asked[n] = answered[n] + 1 /\ handled[n] \in {answered[n], asked[n]}
    /\ calling[n] = "BACK" => handled[n] = asked[n]
    /\ role[n] = "server" => calling[n] \in {"none", "BACK"} /\ pc[n] # "idle"
    /\ role[n] = "client" =>
          /\ pc[n] \notin {"listen", "stuck"} /\ (pc[n] = "ended" => qp[n] = "ERR")
          /\ pc[n] \in {"idle", "address", "close"} => calling[n] \in {"none", "BACK"}
          /\ pc[n] = "ready" => calling[n] = "none"
          /\ pc[n] \in {"exchange", "request", "sent", "ended"} => calling[n] \notin {"none", "BACK"}
          /\ pc[n] \in {"receive", "wait"} => calling[n] # "none"
          /\ pc[n] = "exchange" \/ Undelivered(n) => handled[n] # asked[n]
          /\ Got(n) => handled[n] = asked[n]
    /\ calling[n] = "RESET" => todo[n] = << >>
    /\ role[n] = "client" /\ pc[n] \in {"address", "ready"} => todo[n] # << >>
    /\ \A i \in DOMAIN todo[n] : todo[n][i] = "RESET" => i = Len(todo[n])

\* Home calls nobody but to call back, and nobody asks Caller to write.
PartsFit ==
    /\ calling[Home] \notin {"WRITE", "BACK"}
    /\ \A i \in DOMAIN todo[Home] : todo[Home][i] # "WRITE"
    /\ serving[Caller] \notin {"first", "last"}

\* The region of a call or a handler that is interrupted by a session the other
\* way round, and of one that is going on.
Kept(n) ==
    \/ calling[n] = "BACK" /\ (role[n] = "server" \/ pc[n] \in {"idle", "address", "close"})
    \/ serving[n] = "last" /\ role[n] = "client"

Active(n) ==
    \/ pc[n] \in {"exchange", "request", "sent", "receive", "wait", "stuck", "ended"}
    \/ role[n] = "server" /\ pc[n] = "close"

RegionsFit(n) ==
    /\ own[n] \in Seq(Nat)
    /\ Len(own[n]) = (IF Kept(n) THEN 1 ELSE 0) + (IF Active(n) THEN 1 ELSE 0)
    /\ Len(own[n]) = 2 => own[n][1] # own[n][2]
    /\ calling[n] = "BACK" => mem[n][own[n][1]] = asked[n]
    /\ role[n] = "client" /\ Got(n) => mem[n][Last(own[n])] = asked[n]

NodeFits(n, p) ==
    /\ QueuesFit(n, p) /\ CallsFit(n) /\ RegionsFit(n)
    /\ SocketFits(n, p) /\ RemoteFits(n, p) /\ Fits(n, p)

\* What is kept of both nodes.
Shape ==
    /\ DOMAIN tcp = Node /\ DOMAIN own = Node /\ DOMAIN wire = Node
    /\ DOMAIN sendCQ = Node /\ DOMAIN recvCQ = Node
    /\ DOMAIN asked = Node /\ DOMAIN handled = Node /\ DOMAIN answered = Node

SessionInv == TypeOK /\ Shape /\ PartsFit /\ \A n \in Node : NodeFits(n, Peer(n))

-----------------------------------------------------------------------------
(* The lemmas XKeeps: what action X does to n and its peer p (footprint      *)
(* <1>2), where the two are before and after it (<1>s for p, whom X leaves   *)
(* where it is; <1>e), and then each part of the invariant, for n and for p. *)

\* Two nodes, each the other's peer.
Pair(n, p) ==
    /\ n \in Node /\ p \in Node /\ n # p /\ Node = {n, p}
    /\ Peer(n) = p /\ Peer(p) = n

LEMMA Pairs == \A n \in Node : Pair(n, Peer(n))
  BY TransportAssumption DEF Node, Peer, Pair

\* Nothing is queued but while a node waits for it.
Quiet(n) ==
    /\ pc[n] # "sent" => sendCQ[n] = << >>
    /\ pc[n] # "wait" => recvCQ[n] = << >>
    /\ qp[n] = "ERR" => pc[n] \in {"sent", "ended"}

LEMMA Quietness == ASSUME NEW n, NEW p, QueuesFit(n, p) PROVE Quiet(n)
  BY Singles DEF QueuesFit, Quiet

\* What is known of the two before a step, and what is to be shown after it.
LEMMA Before ==
    ASSUME SessionInv, NEW n, NEW p, Pair(n, p)
    PROVE  /\ TypeOK /\ Shape /\ PartsFit /\ NodeFits(n, p) /\ NodeFits(p, n)
           /\ Quiet(n) /\ Quiet(p)
  BY Quietness DEF SessionInv, Pair, NodeFits

LEMMA After ==
    ASSUME NEW n, NEW p, Pair(n, p),
           TypeOK', Shape', PartsFit', NodeFits(n, p)', NodeFits(p, n)'
    PROVE  SessionInv'
  BY DEF SessionInv, Pair

\* What a node does not do itself does not change where it is.
Still(n) ==
    /\ role'[n] = role[n] /\ pc'[n] = pc[n] /\ todo'[n] = todo[n] /\ calling'[n] = calling[n]
    /\ qp'[n] = qp[n] /\ sendCQ'[n] = sendCQ[n] /\ recvCQ'[n] = recvCQ[n]

SamePlace(n) ==
    /\ (Undelivered(n)' <=> Undelivered(n)) /\ (Delivered(n)' <=> Delivered(n))
    /\ (Empty(n)' <=> Empty(n)) /\ (Got(n)' <=> Got(n))
    /\ (Starting(n)' <=> Starting(n)) /\ (Offering(n)' <=> Offering(n))
    /\ (Requesting(n)' <=> Requesting(n)) /\ (Expecting(n)' <=> Expecting(n))
    /\ (Interrupted(n)' <=> Interrupted(n)) /\ (Final(n)' <=> Final(n))
    /\ (Away(n)' <=> Away(n)) /\ (Over(n)' <=> Over(n))

\* What a client has still to call, when it goes on.
LEMMA Advanced ==
    ASSUME NEW S, NEW s \in Seq(S), s # << >>
    PROVE  /\ Head(s) = s[1] /\ Head(s) \in S
           /\ Tail(s) \in Seq(S) /\ Len(Tail(s)) = Len(s) - 1
           /\ \A i \in DOMAIN Tail(s) : i + 1 \in DOMAIN s /\ Tail(s)[i] = s[i + 1]
           /\ 1 \in DOMAIN s /\ Len(s) \in Nat
  <1>1. Len(s) \in Nat /\ Len(s) > 0 /\ DOMAIN s = 1 .. Len(s)
    OBVIOUS
  <1>2. /\ Tail(s) \in Seq(S) /\ Len(Tail(s)) = Len(s) - 1 /\ Head(s) = s[1]
        /\ DOMAIN Tail(s) = 1 .. (Len(s) - 1)
    BY <1>1
  <1>3. \A i \in 1 .. (Len(s) - 1) : Tail(s)[i] = s[i + 1]
    BY <1>1
  <1>4. \A i \in 1 .. (Len(s) - 1) : i + 1 \in 1 .. Len(s)
    BY <1>1
  <1> QED
    BY <1>1, <1>2, <1>3, <1>4

\* A region pushed onto the stack.
LEMMA Pushed ==
    ASSUME NEW s \in Seq(Nat), NEW r \in Nat
    PROVE  /\ Append(s, r) \in Seq(Nat) /\ Len(Append(s, r)) = Len(s) + 1
           /\ Last(Append(s, r)) = r
           /\ Len(s) = 1 => Append(s, r)[1] = s[1] /\ Append(s, r)[2] = r
  <1>1. /\ Append(s, r) \in Seq(Nat) /\ Len(Append(s, r)) = Len(s) + 1 /\ Len(s) \in Nat
        /\ Append(s, r)[Len(s) + 1] = r /\ \A i \in 1 .. Len(s) : Append(s, r)[i] = s[i]
    BY AppendProperties
  <1> QED
    BY <1>1 DEF Last

LEMMA NotLast == ASSUME NEW k \in Nat, NEW j \in 1 .. (k + 1), j # k + 1 PROVE j \in 1 .. k
  OBVIOUS

LEMMA Grown ==
    ASSUME NEW s \in Seq(Nat), NEW t \in Seq(Nat), \A i \in DOMAIN s : s[i] \in DOMAIN t,
           NEW x \in Nat
    PROVE  \A i \in DOMAIN Append(s, Len(t) + 1) :
              Append(s, Len(t) + 1)[i] \in DOMAIN Append(t, x)
  <1>1. /\ Len(s) \in Nat /\ Len(t) \in Nat /\ DOMAIN s = 1 .. Len(s) /\ DOMAIN t = 1 .. Len(t)
        /\ DOMAIN Append(t, x) = 1 .. (Len(t) + 1)
    OBVIOUS
  <1>2. /\ DOMAIN Append(s, Len(t) + 1) = 1 .. (Len(s) + 1)
        /\ Append(s, Len(t) + 1)[Len(s) + 1] = Len(t) + 1
        /\ \A i \in 1 .. Len(s) : Append(s, Len(t) + 1)[i] = s[i]
    BY <1>1, AppendProperties
  <1>3. ASSUME NEW i \in 1 .. (Len(s) + 1)
        PROVE  Append(s, Len(t) + 1)[i] \in 1 .. (Len(t) + 1)
    <2>1. CASE i = Len(s) + 1
      BY <1>1, <1>2, <2>1
    <2>2. CASE i # Len(s) + 1
      <3>1. i \in DOMAIN s
        BY <1>1, <2>2, NotLast
      <3>2. s[i] \in 1 .. Len(t) /\ Append(s, Len(t) + 1)[i] = s[i]
        BY <1>1, <1>2, <3>1
      <3>3. \A k \in Nat : 1 .. k \subseteq 1 .. (k + 1)
        OBVIOUS
      <3> QED
        BY <1>1, <3>2, <3>3
    <2> QED
      BY <2>1, <2>2
  <1> QED
    BY <1>1, <1>2, <1>3

\* Stacks of at most two regions, when the top one is given up.
LEMMA LowerRegion ==
    ASSUME NEW s \in Seq(Nat), Len(s) = 1 \/ Len(s) = 2
    PROVE  /\ Front(s) \in Seq(Nat) /\ Len(Front(s)) = Len(s) - 1
           /\ Len(s) = 2 => Front(s)[1] = s[1]
           /\ \A i \in DOMAIN Front(s) : i \in DOMAIN s /\ Front(s)[i] = s[i]
  <1>1. Len(s) \in Nat /\ Len(s) > 0 /\ DOMAIN s = 1 .. Len(s)
    OBVIOUS
  <1>2. /\ Front(s) \in Seq(Nat) /\ Len(Front(s)) = Len(s) - 1
        /\ \A i \in 1 .. Len(s) - 1 : Front(s)[i] = s[i]
    BY <1>1, Popped
  <1>3. DOMAIN Front(s) = 1 .. Len(s) - 1
    BY <1>2
  <1>4. \A k \in Nat : 1 .. k - 1 \subseteq 1 .. k /\ (k = 2 => 1 \in 1 .. k - 1)
    OBVIOUS
  <1> QED
    BY <1>1, <1>2, <1>3, <1>4

\* The region announced last, while a call or a handler needs it.
LEMMA TopRegion ==
    ASSUME NEW n \in Node, TypeOK, RegionsFit(n), Active(n)
    PROVE  /\ (Len(own[n]) = 1 \/ Len(own[n]) = 2) /\ Last(own[n]) = own[n][Len(own[n])]
           /\ Last(own[n]) \in DOMAIN mem[n] /\ Last(own[n]) \in Nat
           /\ Contains(own[n], Last(own[n]))
  <1>1. own[n] \in Seq(Nat) /\ (Len(own[n]) = 1 \/ Len(own[n]) = 2)
    BY DEF RegionsFit
  <1>2. Len(own[n]) \in 1 .. Len(own[n]) /\ DOMAIN own[n] = 1 .. Len(own[n])
    <2>1. \A k \in Nat : k > 0 => k \in 1 .. k
      OBVIOUS
    <2>2. Len(own[n]) \in Nat /\ Len(own[n]) > 0
      <3>1. \A k : k = 1 \/ k = 2 => k \in Nat /\ k > 0
        OBVIOUS
      <3> QED
        BY <1>1, <3>1
    <2> QED
      BY <1>1, <2>1, <2>2
  <1>3. own[n][Len(own[n])] \in DOMAIN mem[n] /\ own[n][Len(own[n])] \in Nat
    BY <1>1, <1>2 DEF TypeOK
  <1> QED
    BY <1>1, <1>2, <1>3 DEF Last, Contains

\* What is polled is all there is.
LEMMA Polled ==
    ASSUME NEW n, NEW p, QueuesFit(n, p), sendCQ[n] # << >>
    PROVE  /\ Tail(sendCQ[n]) = << >>
           /\ sendCQ[n] = <<"SUCCESS">> \/ sendCQ[n] = <<"ERROR">>
           /\ Head(sendCQ[n]) = "ERROR" <=> sendCQ[n] = <<"ERROR">>
  <1>1. sendCQ[n] = <<"SUCCESS">> \/ sendCQ[n] = <<"ERROR">>
    BY DEF QueuesFit
  <1>2. CASE sendCQ[n] = <<"SUCCESS">>
    <2>1. Tail(<<"SUCCESS">>) = << >> /\ Head(<<"SUCCESS">>) = "SUCCESS"
      BY Singles
    <2> QED
      BY <1>2, <2>1
  <1>3. CASE sendCQ[n] = <<"ERROR">>
    <2>1. Tail(<<"ERROR">>) = << >> /\ Head(<<"ERROR">>) = "ERROR"
      BY Singles
    <2> QED
      BY <1>3, <2>1
  <1> QED
    BY <1>1, <1>2, <1>3

LEMMA Received ==
    ASSUME NEW n, NEW p, QueuesFit(n, p), recvCQ[n] # << >>
    PROVE  /\ Tail(recvCQ[n]) = << >> /\ recvCQ[n] = <<Head(recvCQ[n])>>
           /\ Head(recvCQ[n]) \in Imm /\ pc[n] = "wait"
  <1>1. PICK x \in Imm : recvCQ[n] = <<x>>
    BY DEF QueuesFit, Single
  <1>2. Tail(<<x>>) = << >> /\ Head(<<x>>) = x
    BY Singles
  <1> QED
    BY <1>1, <1>2 DEF QueuesFit

LEMMA Standing == ASSUME NEW n, Still(n) PROVE SamePlace(n)
  BY DEF Still, SamePlace, Sending, Delivered, Undelivered, Empty, Got,
         Starting, Offering, Requesting, Expecting, Interrupted, Final, Away, Over

USE DEF control, socket, regions, queues, history, Go, Put, Take, Pop

\* The write of n is under way.
LEMMA PostKeeps ==
    ASSUME SessionInv, NEW n, NEW p, Pair(n, p), Post(n)
    PROVE  SessionInv'
  <1>1. /\ TypeOK /\ Shape /\ PartsFit /\ NodeFits(n, p) /\ NodeFits(p, n)
        /\ Quiet(n) /\ Quiet(p)
        /\ n \in Node /\ p \in Node /\ n # p /\ Peer(n) = p /\ Peer(p) = n /\ Node = {n, p}
    BY Before DEF Pair
  <1>2. /\ pc[n] = "request" /\ pc'[n] = "sent" /\ pc'[p] = pc[p]
        /\ wire'[n] = <<Message(n, p)>> /\ wire'[p] = wire[p]
        /\ UNCHANGED <<role, todo, calling, serving, socket, regions, qp, posted,
                       sendCQ, recvCQ, history>>
    <2>1. wire[n] = << >> /\ pc[n] = "request"
      BY <1>1 DEF Post, NodeFits, QueuesFit, Sending
    <2> QED
      BY <1>1, <2>1, Singles DEF Post, Message, TypeOK, Shape
  <1>s. Still(p) /\ SamePlace(p)
    BY <1>1, <1>2, Standing DEF Still
  <1>e. Undelivered(n) /\ Undelivered(n)' /\ ~ Delivered(n)' /\ ~ Empty(n)' /\ ~ Got(n)'
    <2>1. sendCQ[n] = << >> /\ recvCQ[n] = << >> /\ pc[n] = "request"
      BY <1>1, <1>2 DEF Quiet
    <2> QED
      BY <1>2, <2>1, Singles DEF Sending, Undelivered, Delivered, Empty, Got
  <1>3. TypeOK'
    <2>1. pc' \in [Node -> PC]
      BY <1>1, <1>2 DEF Post, TypeOK, PC
    <2> QED
      BY <1>1, <1>2, <2>1 DEF TypeOK
  <1>4. PartsFit'
    BY <1>1, <1>2 DEF PartsFit, TypeOK, Node
  <1>5. Shape'
    BY <1>1 DEF Post, Shape
  <1>6. QueuesFit(n, p)'
    BY <1>1, <1>2, <1>e DEF NodeFits, QueuesFit, Message, Sending
  <1>7. QueuesFit(p, n)'
    BY <1>1, <1>2, <1>e DEF NodeFits, QueuesFit, Message, Sending
  <1>8. CallsFit(n)'
    BY <1>1, <1>2, <1>e DEF NodeFits, CallsFit
  <1>9. CallsFit(p)'
    BY <1>1, <1>2, <1>s DEF NodeFits, CallsFit, SamePlace
  <1>10. RegionsFit(n)'
    BY <1>1, <1>2, <1>e DEF NodeFits, RegionsFit, Kept, Active
  <1>11. RegionsFit(p)'
    BY <1>1, <1>2, <1>s DEF NodeFits, RegionsFit, Kept, Active, SamePlace
  <1>12. SocketFits(n, p)'
    <2>1. ~ (role[n] = "server" /\ role[p] = "client" /\ pc[p] = "exchange")
      BY <1>1, <1>2, <1>e DEF NodeFits, Fits, ServerFits, Expecting, Interrupted, Delivered,
         Empty, Got
    <2>2. ~ Unread(n, p) /\ ~ Unread(n, p)'
      BY <1>2, <2>1 DEF Unread
    <2> QED
      BY <1>1, <1>2, <2>2 DEF NodeFits, SocketFits
  <1>13. SocketFits(p, n)'
    BY <1>1, <1>2, <1>e DEF NodeFits, SocketFits, Unread
  <1>14. RemoteFits(n, p)'
    BY <1>1, <1>2, <1>e DEF NodeFits, RemoteFits, Sending
  <1>15. RemoteFits(p, n)'
    BY <1>1, <1>2, <1>s, <1>e DEF NodeFits, RemoteFits, Sending, SamePlace
  <1>16. Fits(n, p)'
    BY <1>1, <1>2, <1>s, <1>e DEF NodeFits, Fits, ServerFits, SamePlace
  <1>17. Fits(p, n)'
    BY <1>1, <1>2, <1>s, <1>e DEF NodeFits, Fits, ServerFits, CallsFit, QueuesFit, SamePlace,
       Undelivered, Sending, Delivered, Empty, Got, Starting, Offering, Requesting, Expecting,
       Interrupted, Final, Away, Over, TypeOK
  <1> QED
    BY <1>1, <1>3, <1>4, <1>5, <1>6, <1>7, <1>8, <1>9, <1>10, <1>11,
       <1>12, <1>13, <1>14, <1>15, <1>16, <1>17, After DEF NodeFits, Pair

\* A receive is posted; n was and stays Empty.
LEMMA PostReceiveKeeps ==
    ASSUME SessionInv, NEW n, NEW p, Pair(n, p), PostReceive(n)
    PROVE  SessionInv'
  <1>1. /\ TypeOK /\ Shape /\ PartsFit /\ NodeFits(n, p) /\ NodeFits(p, n)
        /\ Quiet(n) /\ Quiet(p)
        /\ n \in Node /\ p \in Node /\ n # p /\ Peer(n) = p /\ Peer(p) = n /\ Node = {n, p}
    BY Before DEF Pair
  <1>2. /\ pc[n] = "receive" /\ pc'[n] = "wait" /\ pc'[p] = pc[p]
        /\ posted'[n] = posted[n] + 1 /\ posted'[p] = posted[p]
        /\ UNCHANGED <<role, todo, calling, serving, socket, regions, qp, wire,
                       sendCQ, recvCQ, history>>
    BY <1>1 DEF PostReceive, TypeOK, Shape
  <1>s. Still(p) /\ SamePlace(p)
    BY <1>1, <1>2, Standing DEF Still
  <1>e. Empty(n) /\ ~ Undelivered(n)' /\ ~ Delivered(n)' /\ Empty(n)' /\ ~ Got(n)'
    BY <1>1, <1>2, Singles DEF NodeFits, QueuesFit, CallsFit, Fits, ServerFits, SocketFits,
       Unread, TypeOK,
       Sending, Delivered, Undelivered, Empty, Got,
       Starting, Offering, Requesting, Expecting, Interrupted, Final, Away, Over
  <1>3. TypeOK'
    <2>1. pc' \in [Node -> PC]
      BY <1>1, <1>2 DEF PostReceive, TypeOK, PC
    <2>2. posted' \in [Node -> Nat]
      BY <1>1, <1>2 DEF PostReceive, TypeOK, PC
    <2> QED
      BY <1>1, <1>2, <2>1, <2>2 DEF TypeOK
  <1>4. PartsFit'
    BY <1>1, <1>2 DEF PartsFit, TypeOK, Node
  <1>5. Shape'
    BY <1>1 DEF PostReceive, Shape
  <1>6. QueuesFit(n, p)'
    BY <1>1, <1>2, <1>e DEF NodeFits, QueuesFit, Message, Sending
  <1>7. QueuesFit(p, n)'
    BY <1>1, <1>2, <1>e DEF NodeFits, QueuesFit, Message, Sending
  <1>8. CallsFit(n)'
    BY <1>1, <1>2, <1>e DEF NodeFits, CallsFit
  <1>9. CallsFit(p)'
    BY <1>1, <1>2, <1>s DEF NodeFits, CallsFit, SamePlace
  <1>10. RegionsFit(n)'
    BY <1>1, <1>2, <1>e DEF NodeFits, RegionsFit, Kept, Active
  <1>11. RegionsFit(p)'
    BY <1>1, <1>2, <1>s DEF NodeFits, RegionsFit, Kept, Active, SamePlace
  <1>12. SocketFits(n, p)'
    BY <1>1, <1>2, <1>s, <1>e DEF NodeFits, SocketFits, Unread, SamePlace, Fits, ServerFits,
       CallsFit, Undelivered, Sending, Delivered, Empty, Got, Starting, Requesting, Final,
       Away, TypeOK
  <1>13. SocketFits(p, n)'
    BY <1>1, <1>2, <1>s, <1>e DEF NodeFits, SocketFits, Unread, SamePlace, Undelivered, Sending
  <1>14. RemoteFits(n, p)'
    BY <1>1, <1>2, <1>e DEF NodeFits, RemoteFits, Sending
  <1>15. RemoteFits(p, n)'
    BY <1>1, <1>2, <1>s, <1>e DEF NodeFits, RemoteFits, Sending, SamePlace
  <1>16. Fits(n, p)'
    BY <1>1, <1>2, <1>s, <1>e DEF NodeFits, Fits, ServerFits, SamePlace
  <1>17. Fits(p, n)'
    BY <1>1, <1>2, <1>s, <1>e DEF NodeFits, Fits, ServerFits, CallsFit, QueuesFit, SamePlace,
       Undelivered, Sending, Delivered, Empty, Got, Starting, Offering, Requesting, Expecting,
       Interrupted, Final, Away, Over, TypeOK
  <1> QED
    BY <1>1, <1>3, <1>4, <1>5, <1>6, <1>7, <1>8, <1>9, <1>10, <1>11,
       <1>12, <1>13, <1>14, <1>15, <1>16, <1>17, After DEF NodeFits, Pair

\* A server whose client has gone away stops.
LEMMA EndOfStreamKeeps ==
    ASSUME SessionInv, NEW n, NEW p, Pair(n, p), EndOfStream(n)
    PROVE  SessionInv'
  <1>1. /\ TypeOK /\ Shape /\ PartsFit /\ NodeFits(n, p) /\ NodeFits(p, n)
        /\ Quiet(n) /\ Quiet(p)
        /\ n \in Node /\ p \in Node /\ n # p /\ Peer(n) = p /\ Peer(p) = n /\ Node = {n, p}
    BY Before DEF Pair
  <1>2. /\ pc[n] = "exchange" /\ tcp[n] = << >> /\ ~ open[p]
        /\ pc'[n] \in {"stuck", "ended"} /\ pc'[p] = pc[p]
        /\ UNCHANGED <<role, todo, calling, serving, socket, regions, qp, queues, history>>
    BY <1>1 DEF EndOfStream, TypeOK, Shape
  <1>s. Still(p) /\ SamePlace(p)
    BY <1>1, <1>2, Standing DEF Still
  <1>e. /\ role[n] = "server" /\ Away(p) /\ qp[n] = "RTS" /\ ~ Undelivered(n)' /\ ~ Delivered(n)'
        /\ ~ Empty(n)' /\ ~ Got(n)'
    BY <1>1, <1>2, Singles DEF NodeFits, QueuesFit, CallsFit, Fits, ServerFits, SocketFits,
       Unread, TypeOK,
       Sending, Delivered, Undelivered, Empty, Got,
       Starting, Offering, Requesting, Expecting, Interrupted, Final, Away, Over
  <1>3. TypeOK'
    <2>1. pc' \in [Node -> PC]
      BY <1>1, <1>2 DEF EndOfStream, TypeOK, PC
    <2> QED
      BY <1>1, <1>2, <2>1 DEF TypeOK
  <1>4. PartsFit'
    BY <1>1, <1>2 DEF PartsFit, TypeOK, Node
  <1>5. Shape'
    BY <1>1 DEF EndOfStream, Shape
  <1>6. QueuesFit(n, p)'
    BY <1>1, <1>2, <1>e DEF NodeFits, QueuesFit, Message, Sending
  <1>7. QueuesFit(p, n)'
    BY <1>1, <1>2, <1>e DEF NodeFits, QueuesFit, Message, Sending
  <1>8. CallsFit(n)'
    BY <1>1, <1>2, <1>e DEF NodeFits, CallsFit
  <1>9. CallsFit(p)'
    BY <1>1, <1>2, <1>s DEF NodeFits, CallsFit, SamePlace
  <1>10. RegionsFit(n)'
    BY <1>1, <1>2, <1>e DEF NodeFits, RegionsFit, Kept, Active
  <1>11. RegionsFit(p)'
    BY <1>1, <1>2, <1>s DEF NodeFits, RegionsFit, Kept, Active, SamePlace
  <1>12. SocketFits(n, p)'
    BY <1>1, <1>2, <1>e DEF NodeFits, SocketFits, Unread
  <1>13. SocketFits(p, n)'
    BY <1>1, <1>2, <1>e DEF NodeFits, SocketFits, Unread
  <1>14. RemoteFits(n, p)'
    BY <1>1, <1>2, <1>e DEF NodeFits, RemoteFits, Sending
  <1>15. RemoteFits(p, n)'
    BY <1>1, <1>2, <1>s, <1>e DEF NodeFits, RemoteFits, Sending, SamePlace
  <1>16. Fits(n, p)'
    BY <1>1, <1>2, <1>s, <1>e DEF NodeFits, Fits, ServerFits, SamePlace
  <1>17. Fits(p, n)'
    BY <1>1, <1>2, <1>s, <1>e DEF NodeFits, Fits, ServerFits, CallsFit, QueuesFit, SamePlace,
       Undelivered, Sending, Delivered, Empty, Got, Starting, Offering, Requesting, Expecting,
       Interrupted, Final, Away, Over, TypeOK
  <1> QED
    BY <1>1, <1>3, <1>4, <1>5, <1>6, <1>7, <1>8, <1>9, <1>10, <1>11,
       <1>12, <1>13, <1>14, <1>15, <1>16, <1>17, After DEF NodeFits, Pair

\* What n reads is the region its peer has announced last.
LEMMA ReadRegionKeeps ==
    ASSUME SessionInv, NEW n, NEW p, Pair(n, p), ReadRegion(n)
    PROVE  SessionInv'
  <1>1. /\ TypeOK /\ Shape /\ PartsFit /\ NodeFits(n, p) /\ NodeFits(p, n)
        /\ Quiet(n) /\ Quiet(p)
        /\ n \in Node /\ p \in Node /\ n # p /\ Peer(n) = p /\ Peer(p) = n /\ Node = {n, p}
    BY Before DEF Pair
  <1>2. /\ pc[n] = "exchange" /\ pc'[p] = pc[p]
        /\ pc'[n] = (IF role[n] = "client" THEN "request" ELSE "receive")
        /\ Unread(n, p) /\ tcp[n] = <<Last(own[p])>>
        /\ remote'[n] = Last(own[p]) /\ remote'[p] = remote[p]
        /\ tcp'[n] = << >> /\ tcp'[p] = tcp[p]
        /\ UNCHANGED <<role, todo, calling, serving, open, own, mem, qp, queues, history>>
    <2>1. pc[n] = "exchange" /\ tcp[n] # << >>
      BY DEF ReadRegion
    <2>2. Unread(n, p) /\ tcp[n] = <<Last(own[p])>>
      BY <1>1, <2>1 DEF NodeFits, SocketFits
    <2> QED
      BY <1>1, <2>2, Singles DEF ReadRegion, TypeOK, Shape
  <1>s. Still(p) /\ SamePlace(p)
    BY <1>1, <1>2, Standing DEF Still
  <1>e. /\ ~ Undelivered(n)' \/ role[n] = "client"
        /\ ~ Delivered(n)' /\ ~ Got(n)'
        /\ role[n] = "client" => role[p] = "server" /\ (pc[p] = "exchange" \/ Empty(p)) /\ Requesting(n)'
        /\ role[n] = "server" => role[p] = "client" /\ (pc[p] = "exchange" \/ Undelivered(p))
        /\ Active(p)
    BY <1>1, <1>2, Singles DEF NodeFits, QueuesFit, CallsFit, Fits, ServerFits, Unread, Active,
       TypeOK,
       Sending, Delivered, Undelivered, Empty, Got,
       Starting, Offering, Requesting, Expecting, Interrupted, Final, Away, Over
  <1>3. TypeOK'
    <2>1. pc' \in [Node -> PC]
      BY <1>1, <1>2 DEF ReadRegion, TypeOK, PC
    <2>2. remote' \in [Node -> Nat]
      <3>1. Last(own[p]) \in Nat
        BY <1>1, <1>e, TopRegion DEF NodeFits
      <3> QED
        BY <1>1, <1>2, <3>1, Singles DEF ReadRegion, TypeOK
    <2> QED
      BY <1>1, <1>2, <2>1, <2>2 DEF TypeOK
  <1>4. PartsFit'
    BY <1>1, <1>2 DEF PartsFit, TypeOK, Node
  <1>5. Shape'
    BY <1>1 DEF ReadRegion, Shape
  <1>6. QueuesFit(n, p)'
    BY <1>1, <1>2, <1>e DEF NodeFits, QueuesFit, Message, Sending
  <1>7. QueuesFit(p, n)'
    BY <1>1, <1>2, <1>e DEF NodeFits, QueuesFit, Message, Sending
  <1>8. CallsFit(n)'
    BY <1>1, <1>2, <1>e DEF NodeFits, CallsFit
  <1>9. CallsFit(p)'
    BY <1>1, <1>2, <1>s DEF NodeFits, CallsFit, SamePlace
  <1>10. RegionsFit(n)'
    BY <1>1, <1>2, <1>e DEF NodeFits, RegionsFit, Kept, Active
  <1>11. RegionsFit(p)'
    BY <1>1, <1>2, <1>s DEF NodeFits, RegionsFit, Kept, Active, SamePlace
  <1>12. SocketFits(n, p)'
    BY <1>1, <1>2, <1>e DEF NodeFits, SocketFits, Unread
  <1>13. SocketFits(p, n)'
    BY <1>1, <1>2, <1>e, Singles DEF NodeFits, SocketFits, Unread, Fits, ServerFits, CallsFit,
       QueuesFit, Sending, Delivered, Undelivered, Empty, Got, Starting, Offering, Requesting,
       Expecting, Interrupted, Final, Away, Over
  <1>14. RemoteFits(n, p)'
    BY <1>1, <1>2, <1>e DEF NodeFits, RemoteFits, Sending
  <1>15. RemoteFits(p, n)'
    BY <1>1, <1>2, <1>s, <1>e DEF NodeFits, RemoteFits, Sending, SamePlace
  <1>16. Fits(n, p)'
    BY <1>1, <1>2, <1>s, <1>e DEF NodeFits, Fits, ServerFits, SamePlace, Requesting, TypeOK
  <1>17. Fits(p, n)'
    BY <1>1, <1>2, <1>s, <1>e DEF NodeFits, Fits, ServerFits, CallsFit, QueuesFit, SamePlace,
       Undelivered, Sending, Delivered, Empty, Got, Starting, Offering, Requesting, Expecting,
       Interrupted, Final, Away, Over, TypeOK
  <1> QED
    BY <1>1, <1>3, <1>4, <1>5, <1>6, <1>7, <1>8, <1>9, <1>10, <1>11,
       <1>12, <1>13, <1>14, <1>15, <1>16, <1>17, After DEF NodeFits, Pair

\* Both sides of a connection begin together.
LEMMA ConnectKeeps ==
    ASSUME SessionInv, NEW n, NEW p, Pair(n, p), Connect(n)
    PROVE  SessionInv'
  <1>1. /\ TypeOK /\ Shape /\ PartsFit /\ NodeFits(n, p) /\ NodeFits(p, n)
        /\ Quiet(n) /\ Quiet(p)
        /\ n \in Node /\ p \in Node /\ n # p /\ Peer(n) = p /\ Peer(p) = n /\ Node = {n, p}
    BY Before DEF Pair
  <1>2. /\ role[n] = "client" /\ pc[n] = "idle" /\ todo[n] # << >>
        /\ role[p] = "server" /\ pc[p] = "listen"
        /\ pc'[n] = "address" /\ pc'[p] = "address" /\ open'[n] = TRUE /\ open'[p] = TRUE
        /\ tcp'[n] = <<"address">> /\ tcp'[p] = <<"address">>
        /\ UNCHANGED <<role, todo, calling, serving, regions, qp, queues, history>>
    BY <1>1 DEF Connect, At
  <1>e. /\ ~ Undelivered(n)' /\ ~ Delivered(n)' /\ ~ Empty(n)' /\ ~ Got(n)'
        /\ ~ Undelivered(p)' /\ ~ Delivered(p)' /\ ~ Empty(p)' /\ ~ Got(p)'
        /\ Starting(n)' /\ qp[n] = "RESET" /\ qp[p] = "RESET"
    BY <1>1, <1>2, Singles DEF NodeFits, QueuesFit, CallsFit, Fits, ServerFits, TypeOK,
       Sending, Delivered, Undelivered, Empty, Got,
       Starting, Offering, Requesting, Expecting, Interrupted, Final, Away, Over
  <1>3. TypeOK'
    <2>1. pc' \in [Node -> PC]
      BY <1>1, <1>2 DEF Connect, TypeOK, PC
    <2>2. open' \in [Node -> BOOLEAN]
      BY <1>1, <1>2 DEF Connect, TypeOK, PC
    <2> QED
      BY <1>1, <1>2, <2>1, <2>2 DEF TypeOK
  <1>4. PartsFit'
    BY <1>1, <1>2 DEF PartsFit, TypeOK, Node
  <1>5. Shape'
    BY <1>1 DEF Connect, Shape
  <1>6. QueuesFit(n, p)'
    BY <1>1, <1>2, <1>e DEF NodeFits, QueuesFit, Message, Sending
  <1>7. QueuesFit(p, n)'
    BY <1>1, <1>2, <1>e DEF NodeFits, QueuesFit, Message, Sending
  <1>8. CallsFit(n)'
    BY <1>1, <1>2, <1>e DEF NodeFits, CallsFit
  <1>9. CallsFit(p)'
    BY <1>1, <1>2, <1>e DEF NodeFits, CallsFit
  <1>10. RegionsFit(n)'
    BY <1>1, <1>2, <1>e DEF NodeFits, RegionsFit, Kept, Active
  <1>11. RegionsFit(p)'
    BY <1>1, <1>2, <1>e DEF NodeFits, RegionsFit, Kept, Active
  <1>12. SocketFits(n, p)'
    BY <1>1, <1>2, <1>e DEF NodeFits, SocketFits, Unread
  <1>13. SocketFits(p, n)'
    BY <1>1, <1>2, <1>e DEF NodeFits, SocketFits, Unread
  <1>14. RemoteFits(n, p)'
    BY <1>1, <1>2, <1>e DEF NodeFits, RemoteFits, Sending
  <1>15. RemoteFits(p, n)'
    BY <1>1, <1>2, <1>e DEF NodeFits, RemoteFits, Sending
  <1>16. Fits(n, p)'
    BY <1>1, <1>2 DEF Fits
  <1>17. Fits(p, n)'
    BY <1>1, <1>2, <1>e DEF Fits, ServerFits
  <1> QED
    BY <1>1, <1>3, <1>4, <1>5, <1>6, <1>7, <1>8, <1>9, <1>10, <1>11,
       <1>12, <1>13, <1>14, <1>15, <1>16, <1>17, After DEF NodeFits, Pair

\* A client that was called back returns from the call.
LEMMA ConnectQueuePairKeeps ==
    ASSUME SessionInv, NEW n, NEW p, Pair(n, p), ConnectQueuePair(n)
    PROVE  SessionInv'
  <1>1. /\ TypeOK /\ Shape /\ PartsFit /\ NodeFits(n, p) /\ NodeFits(p, n)
        /\ Quiet(n) /\ Quiet(p)
        /\ n \in Node /\ p \in Node /\ n # p /\ Peer(n) = p /\ Peer(p) = n /\ Node = {n, p}
    BY Before DEF Pair
  <1>2. /\ pc[n] = "address" /\ pc'[n] = "ready" /\ pc'[p] = pc[p]
        /\ qp'[n] = "RTS" /\ qp'[p] = qp[p]
        /\ tcp'[n] = (IF Unread(n, p) THEN <<Last(own[p])>> ELSE << >>) /\ tcp'[p] = tcp[p]
        /\ own'[p] = own[p] /\ answered'[p] = answered[p] /\ calling'[p] = calling[p]
        /\ UNCHANGED <<role, todo, serving, open, remote, mem, queues, sessions, asked, handled>>
        /\ \/ ~ (role[n] = "client" /\ calling[n] = "BACK") /\ UNCHANGED <<own, answered, calling>>
           \/ /\ role[n] = "client" /\ calling[n] = "BACK" /\ calling'[n] = "none"
              /\ answered'[n] = asked[n] /\ own'[n] \in Seq(Nat) /\ Len(own'[n]) = 0 /\ ~ Kept(n)'
    <2>1. tcp[n] = IF Unread(n, p) THEN <<"address", Last(own[p])>> ELSE <<"address">>
      BY <1>1 DEF ConnectQueuePair, NodeFits, SocketFits
    <2>2. tcp'[n] = (IF Unread(n, p) THEN <<Last(own[p])>> ELSE << >>) /\ tcp'[p] = tcp[p]
      BY <1>1, <2>1, Singles DEF ConnectQueuePair, Shape
    <2>3. ASSUME role[n] = "client", calling[n] = "BACK"
          PROVE  /\ calling'[n] = "none" /\ answered'[n] = asked[n]
                 /\ own'[n] \in Seq(Nat) /\ Len(own'[n]) = 0 /\ ~ Kept(n)'
                 /\ own'[p] = own[p] /\ answered'[p] = answered[p] /\ calling'[p] = calling[p]
      <3>1. /\ calling' = [calling EXCEPT ![n] = "none"] /\ own' = [own EXCEPT ![n] = Front(@)]
            /\ answered' = [answered EXCEPT ![n] = mem[n][Last(own[n])]]
            /\ pc[n] = "address" /\ UNCHANGED <<serving, role>>
        BY <2>3 DEF ConnectQueuePair, Return, Content
      <3>2. own[n] \in Seq(Nat) /\ Len(own[n]) = 1 /\ mem[n][own[n][1]] = asked[n]
        BY <1>1, <2>3, <3>1 DEF NodeFits, RegionsFit, Kept, Active
      <3>3. Last(own[n]) = own[n][1] /\ Front(own[n]) \in Seq(Nat) /\ Len(Front(own[n])) = 0
        BY <3>2, LowerRegion DEF Last
      <3>4. serving[n] # "last"
        BY <1>1, <2>3 DEF PartsFit, Node
      <3> QED
        BY <1>1, <3>1, <3>2, <3>3, <3>4 DEF TypeOK, Shape, Kept
    <2> QED
      BY <1>1, <2>2, <2>3 DEF ConnectQueuePair, TypeOK, Shape
  <1>s. Still(p) /\ SamePlace(p)
    BY <1>1, <1>2, Standing DEF Still
  <1>e. ~ Undelivered(n)' /\ ~ Delivered(n)' /\ ~ Empty(n)' /\ ~ Got(n)' /\ qp[n] = "RESET"
    BY <1>1, <1>2, Singles DEF NodeFits, QueuesFit, CallsFit, Fits, ServerFits, TypeOK,
       Sending, Delivered, Undelivered, Empty, Got,
       Starting, Offering, Requesting, Expecting, Interrupted, Final, Away, Over
  <1>3. TypeOK'
    <2>1. pc' \in [Node -> PC]
      BY <1>1, <1>2 DEF ConnectQueuePair, TypeOK, PC
    <2>2. qp' \in [Node -> {"RESET", "RTS", "ERR"}]
      BY <1>1, <1>2 DEF ConnectQueuePair, TypeOK
    <2>3. calling' \in [Node -> Imm \cup {"none", "BACK"}]
      BY <1>1, <1>2 DEF ConnectQueuePair, Return, TypeOK
    <2>4. \A m \in Node : \A i \in DOMAIN own'[m] : own'[m][i] \in DOMAIN mem[m]
      <3>1. Len(own'[n]) = 0 /\ own'[n] \in Seq(Nat) => DOMAIN own'[n] = {}
        OBVIOUS
      <3> QED
        BY <1>1, <1>2, <3>1 DEF TypeOK
    <2> QED
      BY <1>1, <1>2, <2>1, <2>2, <2>3, <2>4 DEF TypeOK
  <1>4. PartsFit'
    BY <1>1, <1>2 DEF PartsFit, TypeOK, Node
  <1>5. Shape'
    BY <1>1 DEF ConnectQueuePair, Return, Shape
  <1>6. QueuesFit(n, p)'
    BY <1>1, <1>2, <1>e DEF NodeFits, QueuesFit, Message, Sending
  <1>7. QueuesFit(p, n)'
    BY <1>1, <1>2, <1>e DEF NodeFits, QueuesFit, Message, Sending
  <1>8. CallsFit(n)'
    BY <1>1, <1>2, <1>e DEF NodeFits, CallsFit
  <1>9. CallsFit(p)'
    BY <1>1, <1>2, <1>s DEF NodeFits, CallsFit, SamePlace
  <1>10. RegionsFit(n)'
    <2>1. CASE role[n] = "client" /\ calling[n] = "BACK"
      BY <2>1, <1>1, <1>2, <1>e DEF RegionsFit, Active, Got
    <2>2. CASE ~ (role[n] = "client" /\ calling[n] = "BACK")
      <3>1. UNCHANGED <<own, calling, answered>>
        BY <1>2, <2>2
      <3>2. Kept(n)' = Kept(n) /\ ~ Active(n) /\ Active(n)' = Active(n)
        BY <1>1, <1>2, <2>2, <3>1 DEF Kept, Active, TypeOK
      <3> QED
        BY <1>1, <1>2, <1>e, <3>1, <3>2 DEF NodeFits, RegionsFit
    <2> QED
      BY <2>1, <2>2
  <1>11. RegionsFit(p)'
    BY <1>1, <1>2, <1>s DEF NodeFits, RegionsFit, Kept, Active, SamePlace
  <1>12. SocketFits(n, p)'
    BY <1>1, <1>2, <1>e DEF NodeFits, SocketFits, Unread
  <1>13. SocketFits(p, n)'
    BY <1>1, <1>2, <1>s, <1>e DEF NodeFits, SocketFits, Unread, SamePlace, Undelivered, Sending
  <1>14. RemoteFits(n, p)'
    BY <1>1, <1>2, <1>e DEF NodeFits, RemoteFits, Sending
  <1>15. RemoteFits(p, n)'
    BY <1>1, <1>2, <1>e, Singles DEF NodeFits, RemoteFits, SocketFits, Unread, Fits,
       ServerFits, CallsFit, QueuesFit, Sending, Delivered, Undelivered, Empty, Got, Starting,
       Offering, Requesting, Expecting, Interrupted, Final, Away, Over
  <1>16. Fits(n, p)'
    BY <1>1, <1>2, <1>s, <1>e DEF NodeFits, Fits, ServerFits, SamePlace
  <1>17. Fits(p, n)'
    BY <1>1, <1>2, <1>s, <1>e DEF NodeFits, Fits, ServerFits, CallsFit, QueuesFit, SamePlace,
       Undelivered, Sending, Delivered, Empty, Got, Starting, Offering, Requesting, Expecting,
       Interrupted, Final, Away, Over, TypeOK
  <1> QED
    BY <1>1, <1>3, <1>4, <1>5, <1>6, <1>7, <1>8, <1>9, <1>10, <1>11,
       <1>12, <1>13, <1>14, <1>15, <1>16, <1>17, After DEF NodeFits, Pair

\* n registers a region and writes its address to its peer, who has read all that
\* came before, or is at most one address behind.
LEMMA OfferKeeps ==
    ASSUME SessionInv, NEW n, NEW p, Pair(n, p), Offer(n)
    PROVE  SessionInv'
  <1>1. /\ TypeOK /\ Shape /\ PartsFit /\ NodeFits(n, p) /\ NodeFits(p, n)
        /\ Quiet(n) /\ Quiet(p)
        /\ n \in Node /\ p \in Node /\ n # p /\ Peer(n) = p /\ Peer(p) = n /\ Node = {n, p}
    BY Before DEF Pair
  <1>d. /\ own'[n] \in Seq(Nat) /\ Len(own'[n]) = Len(own[n]) + 1
        /\ Last(own'[n]) = Len(mem[n]) + 1
        /\ Len(own[n]) = 1 => /\ own'[n][1] = own[n][1] /\ own'[n][2] = Len(mem[n]) + 1
                              /\ own[n][1] \in 1 .. Len(mem[n])
        /\ \A i \in 1 .. Len(mem[n]) : mem'[n][i] = mem[n][i]
        /\ role[n] = "client" =>
              /\ calling'[n] = todo[n][1]
              /\ todo'[n] \in Seq(Imm) /\ Len(todo'[n]) = Len(todo[n]) - 1
              /\ \A i \in DOMAIN todo'[n] : i + 1 \in DOMAIN todo[n] /\ todo'[n][i] = todo[n][i + 1]
              /\ 1 \in DOMAIN todo[n] /\ Len(todo[n]) \in Nat
        /\ role[n] = "client" => calling'[n] \in Imm
    <2>1. /\ own[n] \in Seq(Nat) /\ mem[n] \in Seq(Nat) /\ Len(mem[n]) \in Nat
          /\ DOMAIN mem[n] = 1 .. Len(mem[n]) /\ DOMAIN own[n] = 1 .. Len(own[n])
      <3>1. own[n] \in Seq(Nat) /\ mem[n] \in Seq(Nat)
        BY <1>1 DEF NodeFits, RegionsFit, TypeOK
      <3> QED
        BY <3>1
    <2> DEFINE r == Len(mem[n]) + 1
    <2>2. /\ Append(own[n], r) \in Seq(Nat) /\ Len(Append(own[n], r)) = Len(own[n]) + 1
          /\ Last(Append(own[n], r)) = r
          /\ Len(own[n]) = 1 => Append(own[n], r)[1] = own[n][1] /\ Append(own[n], r)[2] = r
      BY <2>1, Pushed
    <2>3. \A i \in 1 .. Len(mem[n]) : Append(mem[n], 0)[i] = mem[n][i]
      BY <2>1
    <2>4. Len(own[n]) = 1 => own[n][1] \in 1 .. Len(mem[n])
      <3>1. Len(own[n]) = 1 => 1 \in DOMAIN own[n]
        BY <2>1
      <3> QED
        BY <1>1, <2>1, <3>1 DEF TypeOK
    <2>5. own'[n] = Append(own[n], r) /\ mem'[n] = Append(mem[n], 0)
      BY <1>1 DEF Offer, Announce, Shape, TypeOK
    <2>6. ASSUME role[n] = "client"
          PROVE  /\ calling'[n] = todo[n][1] /\ calling'[n] \in Imm
                 /\ todo'[n] \in Seq(Imm) /\ Len(todo'[n]) = Len(todo[n]) - 1
                 /\ \A i \in DOMAIN todo'[n] : /\ i + 1 \in DOMAIN todo[n]
                                               /\ todo'[n][i] = todo[n][i + 1]
                 /\ 1 \in DOMAIN todo[n] /\ Len(todo[n]) \in Nat
      <3>1. /\ calling'[n] = Head(todo[n]) /\ todo'[n] = Tail(todo[n])
            /\ todo[n] \in Seq(Imm) /\ todo[n] # << >>
        BY <1>1, <2>6 DEF Offer, BeginCall, NodeFits, CallsFit, TypeOK
      <3> QED
        BY <3>1, Advanced
    <2> HIDE DEF r
    <2> QED
      BY <2>2, <2>3, <2>4, <2>5, <2>6 DEF r
  <1>2. /\ pc[n] = "ready" /\ pc'[n] = "exchange" /\ pc'[p] = pc[p]
        /\ own'[p] = own[p] /\ mem'[p] = mem[p]
        /\ tcp'[n] = tcp[n] /\ tcp'[p] = IF open[p] THEN Append(tcp[p], Last(own'[n])) ELSE tcp[p]
        /\ calling'[p] = calling[p] /\ todo'[p] = todo[p] /\ asked'[p] = asked[p]
        /\ IF role[n] = "client" THEN asked'[n] = asked[n] + 1 /\ calling'[n] \in Imm
           ELSE UNCHANGED <<calling, todo, asked>>
        /\ UNCHANGED <<role, serving, open, remote, qp, queues, sessions, handled, answered>>
    <2>1. /\ pc[n] = "ready" /\ pc'[n] = "exchange" /\ pc'[p] = pc[p]
          /\ own'[p] = own[p] /\ mem'[p] = mem[p]
      BY <1>1 DEF Offer, Announce, Shape, TypeOK
    <2>2. tcp'[n] = tcp[n] /\ tcp'[p] = IF open[p] THEN Append(tcp[p], Len(mem[n]) + 1) ELSE tcp[p]
      BY <1>1 DEF Offer, Announce, Shape
    <2>3. calling'[p] = calling[p] /\ todo'[p] = todo[p] /\ asked'[p] = asked[p]
      BY <1>1 DEF Offer, BeginCall, Shape, TypeOK
    <2>4. /\ UNCHANGED <<role, serving, open, remote, qp, queues, sessions, handled, answered>>
          /\ role[n] = "client" \/ UNCHANGED <<calling, todo, asked>>
          /\ role[n] = "client" => asked'[n] = asked[n] + 1
      BY <1>1 DEF Offer, BeginCall, Shape
    <2> QED
      BY <1>d, <2>1, <2>2, <2>3, <2>4
  <1>s. Still(p) /\ SamePlace(p)
    BY <1>1, <1>2, Standing DEF Still
  <1>e. /\ ~ Undelivered(n)' /\ ~ Delivered(n)' /\ ~ Empty(n)' /\ ~ Got(n)'
        /\ ~ Undelivered(p)
        /\ role[n] = "client" => /\ role[p] = "server" /\ pc[p] \in {"address", "ready", "exchange", "sent"}
                                 /\ Starting(n)' /\ Offering(n)'
        /\ role[n] = "server" => Starting(p) \/ Final(p) \/ Away(p)
    <2>1. ~ Undelivered(n)' /\ ~ Delivered(n)' /\ ~ Empty(n)' /\ ~ Got(n)'
      BY <1>1, <1>2 DEF Quiet,
         Sending, Delivered, Undelivered, Empty, Got
    <2>2. role[n] = "client" => /\ role[p] = "server" /\ pc[p] \in {"address", "ready", "exchange", "sent"}
                                 /\ ~ Undelivered(p)
      BY <1>1, <1>2 DEF NodeFits, Quiet, CallsFit, Fits, ServerFits, TypeOK, PC,
         Sending, Delivered, Undelivered, Empty, Got,
         Starting, Offering, Requesting, Expecting, Interrupted, Final, Away, Over
    <2>3. role[n] = "server" => (Starting(p) \/ Final(p) \/ Away(p)) /\ ~ Undelivered(p)
      BY <1>1, <1>2 DEF NodeFits, Quiet, Fits, ServerFits, TypeOK,
         Sending, Delivered, Undelivered, Empty, Got,
         Starting, Offering, Requesting, Expecting, Interrupted, Final, Away, Over
    <2>4. role[n] = "client" => Starting(n)' /\ Offering(n)'
      BY <1>2 DEF Starting, Offering
    <2> QED
      BY <1>1, <2>1, <2>2, <2>3, <2>4 DEF TypeOK
  <1>3. TypeOK'
    <2>1. pc' \in [Node -> PC]
      BY <1>1 DEF Offer, Announce, TypeOK, PC
    <2>2. todo' \in [Node -> Seq(Imm)]
      BY <1>1, <1>d DEF Offer, BeginCall, TypeOK
    <2>3. calling' \in [Node -> Imm \cup {"none", "BACK"}]
      BY <1>1, <1>d DEF Offer, BeginCall, TypeOK
    <2>4. mem' \in [Node -> Seq(Nat)]
      BY <1>1 DEF Offer, Announce, TypeOK
    <2>5. ASSUME NEW m \in Node, NEW i \in DOMAIN own'[m] PROVE own'[m][i] \in DOMAIN mem'[m]
      <3>0. own[n] \in Seq(Nat) /\ mem[n] \in Seq(Nat) /\ \A j \in DOMAIN own[n] : own[n][j] \in DOMAIN mem[n]
        BY <1>1 DEF NodeFits, RegionsFit, TypeOK
      <3>1. own'[n] = Append(own[n], Len(mem[n]) + 1) /\ mem'[n] = Append(mem[n], 0)
        BY <1>1 DEF Offer, Announce, TypeOK, Shape
      <3>2. \A j \in DOMAIN own'[n] : own'[n][j] \in DOMAIN mem'[n]
        BY <3>0, <3>1, Grown
      <3>3. own'[p] = own[p] /\ mem'[p] = mem[p] /\ \A j \in DOMAIN own[p] : own[p][j] \in DOMAIN mem[p]
        BY <1>1, <1>2 DEF TypeOK
      <3> QED
        BY <1>1, <3>2, <3>3
    <2> QED
      BY <1>1, <1>2, <2>1, <2>2, <2>3, <2>4, <2>5 DEF TypeOK
  <1>4. PartsFit'
    <2>1. \A m \in {n, p} : \A i \in DOMAIN todo'[m] : \E j \in DOMAIN todo[m] : todo'[m][i] = todo[m][j]
      <3>1. CASE role[n] = "client"
        BY <1>1, <1>2, <1>d, <3>1
      <3>2. CASE role[n] # "client"
        BY <1>1, <1>2, <3>2
      <3> QED
        BY <3>1, <3>2
    <2>2. calling'[n] = calling[n] \/ (calling'[n] = todo[n][1] /\ 1 \in DOMAIN todo[n] /\ calling'[n] # "BACK")
      BY <1>2, <1>d DEF Imm
    <2> QED
      BY <1>1, <1>2, <2>1, <2>2 DEF PartsFit, Node
  <1>5. Shape'
    BY <1>1 DEF Offer, Announce, BeginCall, Shape
  <1>6. QueuesFit(n, p)'
    BY <1>1, <1>2, <1>e DEF NodeFits, QueuesFit, Message, Sending
  <1>7. QueuesFit(p, n)'
    BY <1>1, <1>2, <1>e DEF NodeFits, QueuesFit, Message, Sending
  <1>8. CallsFit(n)'
    <2>1. CASE role[n] = "client"
      <3>1. /\ calling[n] = "none" /\ asked[n] \in Nat /\ handled[n] = asked[n] /\ answered[n] = asked[n]
            /\ calling'[n] \notin {"none", "BACK"} /\ asked'[n] = asked[n] + 1
            /\ UNCHANGED <<handled, answered>>
        BY <1>1, <1>2, <2>1 DEF NodeFits, CallsFit, Imm
      <3>2. calling'[n] = "RESET" => todo'[n] = << >>
        <4>1. calling'[n] = "RESET" => Len(todo[n]) = 1
          BY <1>1, <1>d, <2>1 DEF NodeFits, CallsFit
        <4> QED
          BY <1>d, <2>1, <4>1, EmptySeq
      <3>3. ASSUME NEW i \in DOMAIN todo'[n], todo'[n][i] = "RESET" PROVE i = Len(todo'[n])
        <4>1. i + 1 = Len(todo[n])
          BY <1>1, <1>d, <2>1, <3>3 DEF NodeFits, CallsFit
        <4>2. i \in Nat
          BY <1>d, <2>1
        <4> QED
          BY <1>d, <2>1, <4>1, <4>2
      <3> QED
        BY <1>1, <1>2, <1>e, <2>1, <3>1, <3>2, <3>3 DEF CallsFit
    <2>2. CASE role[n] = "server"
      BY <1>1, <1>2, <1>e, <2>2 DEF NodeFits, CallsFit
    <2> QED
      BY <1>1, <2>1, <2>2 DEF TypeOK
  <1>9. CallsFit(p)'
    BY <1>1, <1>2, <1>s DEF NodeFits, CallsFit, SamePlace
  <1>10. RegionsFit(n)'
    <2>1. /\ own[n] \in Seq(Nat) /\ Len(own[n]) = IF Kept(n) THEN 1 ELSE 0
          /\ calling[n] = "BACK" => Kept(n) /\ mem[n][own[n][1]] = asked[n]
      BY <1>1, <1>2 DEF NodeFits, RegionsFit, CallsFit, Kept, Active, TypeOK
    <2>2. Active(n)' /\ (Kept(n)' <=> Kept(n)) /\ (calling'[n] = "BACK" <=> calling[n] = "BACK")
      BY <1>1, <1>2 DEF NodeFits, CallsFit, Kept, Active, Imm, TypeOK
    <2>3. own'[n] \in Seq(Nat) /\ Len(own'[n]) = (IF Kept(n)' THEN 1 ELSE 0) + (IF Active(n)' THEN 1 ELSE 0)
      BY <1>d, <2>1, <2>2
    <2>4. Len(own'[n]) = 2 => own'[n][1] # own'[n][2]
      BY <1>d, <2>1
    <2>5. calling'[n] = "BACK" => mem'[n][own'[n][1]] = asked'[n]
      <3>1. calling[n] = "BACK" => asked'[n] = asked[n]
        BY <1>1, <1>2 DEF NodeFits, CallsFit, TypeOK
      <3>2. calling[n] = "BACK" => Len(own[n]) = 1
        BY <2>1
      <3> QED
        BY <1>d, <2>1, <2>2, <3>1, <3>2
    <2> QED
      BY <2>3, <2>4, <2>5, <1>e DEF RegionsFit
  <1>11. RegionsFit(p)'
    BY <1>1, <1>2, <1>s DEF NodeFits, RegionsFit, Kept, Active, SamePlace
  <1>12. SocketFits(n, p)'
    BY <1>1, <1>2, <1>s, <1>e DEF NodeFits, SocketFits, Unread, SamePlace
  <1>13. SocketFits(p, n)'
    <2>1. pc[p] \notin {"close", "idle", "listen", "stuck", "ended"} => Unread(p, n)' /\ ~ Unread(p, n)
      BY <1>1, <1>2, <1>e DEF NodeFits, QueuesFit, CallsFit, Unread, Starting, Final, Away, Got,
         Undelivered, TypeOK
    <2>2. open[p] = (pc[p] \notin {"idle", "listen"})
      BY <1>1 DEF NodeFits, SocketFits
    <2> DEFINE r == Last(own'[n])
    <2>3. Append(<< >>, r) = <<r>> /\ Append(<<"address">>, r) = <<"address", r>>
      BY Singles
    <2>4. /\ pc[p] = "address" => tcp[p] = <<"address">>
          /\ pc[p] \in {"ready", "exchange", "request", "sent", "receive", "wait"} => tcp[p] = << >>
      BY <1>1, <2>1 DEF NodeFits, SocketFits
    <2>5. tcp'[p] = IF open[p] THEN Append(tcp[p], r) ELSE tcp[p]
      BY <1>2
    <2> HIDE DEF r
    <2>6. /\ pc[p] = "address" => tcp'[p] = <<"address", r>>
          /\ pc[p] \in {"ready", "exchange", "request", "sent", "receive", "wait"} => tcp'[p] = <<r>>
      BY <2>2, <2>3, <2>4, <2>5
    <2> QED
      BY <1>2, <2>1, <2>2, <2>6 DEF SocketFits, r
  <1>14. RemoteFits(n, p)'
    BY <1>1, <1>2, <1>e DEF NodeFits, RemoteFits, Sending
  <1>15. RemoteFits(p, n)'
    <2>1. ~ (role[p] = "server" /\ Delivered(p) /\ serving[p] = "first")
      <3>1. ~ Interrupted(n)
        BY <1>2 DEF Interrupted, Got, Empty
      <3> QED
        BY <1>1, <3>1 DEF NodeFits, Fits, ServerFits
    <2>2. ~ Delivered(p)' \/ Delivered(p)
      BY <1>s DEF SamePlace
    <2> QED
      BY <1>1, <1>2, <1>e, <2>1, <2>2 DEF RemoteFits, Undelivered, Sending, Starting, Final, Away,
         TypeOK
  <1>16. Fits(n, p)'
    BY <1>1, <1>2, <1>s, <1>e DEF NodeFits, Fits, ServerFits, SamePlace
  <1>17. Fits(p, n)'
    BY <1>1, <1>2, <1>s, <1>e DEF NodeFits, Fits, ServerFits, CallsFit, QueuesFit, SamePlace,
       Undelivered, Sending, Delivered, Empty, Got, Starting, Offering, Requesting, Expecting,
       Interrupted, Final, Away, Over, TypeOK
  <1> QED
    BY <1>1, <1>3, <1>4, <1>5, <1>6, <1>7, <1>8, <1>9, <1>10, <1>11,
       <1>12, <1>13, <1>14, <1>15, <1>16, <1>17, After DEF NodeFits, Pair

\* n ends with a write that was lost.
LEMMA FailKeeps ==
    ASSUME SessionInv, NEW n, NEW p, Pair(n, p), PollSend(n), Head(sendCQ[n]) = "ERROR"
    PROVE  SessionInv'
  <1>1. /\ TypeOK /\ Shape /\ PartsFit /\ NodeFits(n, p) /\ NodeFits(p, n)
        /\ Quiet(n) /\ Quiet(p)
        /\ n \in Node /\ p \in Node /\ n # p /\ Peer(n) = p /\ Peer(p) = n /\ Node = {n, p}
    BY Before DEF Pair
  <1>2. /\ pc[n] = "sent" /\ pc'[n] = "ended" /\ pc'[p] = pc[p]
        /\ sendCQ'[n] = << >> /\ sendCQ'[p] = sendCQ[p]
        /\ sendCQ[n] = <<"ERROR">>
        /\ UNCHANGED <<role, todo, calling, serving, socket, remote, own, mem, qp, posted, wire, recvCQ,
                       history>>
    <2>1. Tail(sendCQ[n]) = << >> /\ sendCQ[n] = <<"ERROR">>
      <3>1. QueuesFit(n, p)
        BY <1>1 DEF NodeFits
      <3>2. sendCQ[n] # << >>
        BY <1>1 DEF PollSend
      <3> QED
        BY <3>1, <3>2, Polled
    <2>2. pc' = [pc EXCEPT ![n] = "ended"] /\ UNCHANGED <<serving, own>>
      BY <1>1 DEF PollSend
    <2>3. sendCQ' = [sendCQ EXCEPT ![n] = << >>] /\ pc[n] = "sent"
      BY <2>1 DEF PollSend
    <2>4. UNCHANGED <<role, todo, calling, socket, remote, mem, qp, posted, wire, recvCQ, history>>
      BY DEF PollSend
    <2> QED
      BY <1>1, <2>1, <2>2, <2>3, <2>4 DEF TypeOK, Shape
  <1>s. Still(p) /\ SamePlace(p)
    BY <1>1, <1>2, Standing DEF Still
  <1>e. qp[n] = "ERR" /\ Undelivered(n) /\ Undelivered(n)' /\ ~ Delivered(n)' /\ ~ Empty(n)' /\ ~ Got(n)'
    <2>1. qp[n] = "ERR"
      BY <1>1, <1>2 DEF NodeFits, QueuesFit
    <2> QED
      BY <1>1, <1>2, <2>1, Singles DEF Undelivered, Delivered, Empty, Got
  <1>3. TypeOK'
    <2>1. pc' \in [Node -> PC]
      BY <1>1, <1>2 DEF PollSend, TypeOK, PC
    <2> QED
      BY <1>1, <1>2, <2>1 DEF TypeOK
  <1>4. PartsFit'
    BY <1>1, <1>2 DEF PartsFit, TypeOK, Node
  <1>5. Shape'
    BY <1>1 DEF PollSend, Shape
  <1>6. QueuesFit(n, p)'
    BY <1>1, <1>2, <1>e DEF NodeFits, QueuesFit, Message, Sending
  <1>7. QueuesFit(p, n)'
    BY <1>1, <1>2, <1>e DEF NodeFits, QueuesFit, Message, Sending
  <1>8. CallsFit(n)'
    BY <1>1, <1>2, <1>e DEF NodeFits, CallsFit
  <1>9. CallsFit(p)'
    BY <1>1, <1>2, <1>s DEF NodeFits, CallsFit, SamePlace
  <1>10. RegionsFit(n)'
    BY <1>1, <1>2, <1>e DEF NodeFits, RegionsFit, Kept, Active
  <1>11. RegionsFit(p)'
    BY <1>1, <1>2, <1>s DEF NodeFits, RegionsFit, Kept, Active, SamePlace
  <1>12. SocketFits(n, p)'
    BY <1>1, <1>2, <1>e DEF NodeFits, SocketFits, Unread
  <1>13. SocketFits(p, n)'
    BY <1>1, <1>2, <1>e DEF NodeFits, SocketFits, Unread
  <1>14. RemoteFits(n, p)'
    BY <1>1, <1>2, <1>e DEF NodeFits, RemoteFits, Sending
  <1>15. RemoteFits(p, n)'
    BY <1>1, <1>2, <1>s, <1>e DEF NodeFits, RemoteFits, Sending, SamePlace
  <1>16. Fits(n, p)'
    BY <1>1, <1>2, <1>s, <1>e DEF NodeFits, Fits, ServerFits, SamePlace
  <1>17. Fits(p, n)'
    BY <1>1, <1>2, <1>s, <1>e DEF NodeFits, Fits, ServerFits, CallsFit, QueuesFit, SamePlace,
       Undelivered, Sending, Delivered, Empty, Got, Starting, Offering, Requesting, Expecting,
       Interrupted, Final, Away, Over, TypeOK
  <1> QED
    BY <1>1, <1>3, <1>4, <1>5, <1>6, <1>7, <1>8, <1>9, <1>10, <1>11,
       <1>12, <1>13, <1>14, <1>15, <1>16, <1>17, After DEF NodeFits, Pair

\* A client whose request has arrived expects the answer.
LEMMA SentKeeps ==
    ASSUME SessionInv, NEW n, NEW p, Pair(n, p),
           PollSend(n), Head(sendCQ[n]) # "ERROR", role[n] = "client"
    PROVE  SessionInv'
  <1>1. /\ TypeOK /\ Shape /\ PartsFit /\ NodeFits(n, p) /\ NodeFits(p, n)
        /\ Quiet(n) /\ Quiet(p)
        /\ n \in Node /\ p \in Node /\ n # p /\ Peer(n) = p /\ Peer(p) = n /\ Node = {n, p}
    BY Before DEF Pair
  <1>2. /\ pc[n] = "sent" /\ pc'[n] = "receive" /\ pc'[p] = pc[p]
        /\ sendCQ'[n] = << >> /\ sendCQ'[p] = sendCQ[p]
        /\ role[n] = "client" /\ sendCQ[n] = <<"SUCCESS">>
        /\ UNCHANGED <<role, todo, calling, serving, socket, remote, own, mem, qp, posted, wire, recvCQ,
                       history>>
    <2>1. Tail(sendCQ[n]) = << >> /\ sendCQ[n] = <<"SUCCESS">>
      <3>1. QueuesFit(n, p)
        BY <1>1 DEF NodeFits
      <3>2. sendCQ[n] # << >>
        BY <1>1 DEF PollSend
      <3> QED
        BY <3>1, <3>2, Polled
    <2>2. pc' = [pc EXCEPT ![n] = "receive"] /\ UNCHANGED <<serving, own>>
      BY <1>1 DEF PollSend
    <2>3. sendCQ' = [sendCQ EXCEPT ![n] = << >>] /\ pc[n] = "sent"
      BY <2>1 DEF PollSend
    <2>4. UNCHANGED <<role, todo, calling, socket, remote, mem, qp, posted, wire, recvCQ, history>>
      BY DEF PollSend
    <2> QED
      BY <1>1, <2>1, <2>2, <2>3, <2>4 DEF TypeOK, Shape
  <1>s. Still(p) /\ SamePlace(p)
    BY <1>1, <1>2, Standing DEF Still
  <1>e. /\ Delivered(n) /\ ~ Undelivered(n)' /\ ~ Delivered(n)' /\ Empty(n)' /\ ~ Got(n)'
        /\ (Over(n)' <=> Over(n)) /\ (Expecting(n)' <=> Expecting(n)) /\ ~ Starting(n)'
        /\ calling[n] # "BACK" /\ calling[n] \in Imm
    <2>1. Delivered(n) /\ ~ Undelivered(n)' /\ ~ Delivered(n)' /\ Empty(n)' /\ ~ Got(n)'
      BY <1>1, <1>2, Singles DEF NodeFits, QueuesFit, Sending, Undelivered, Delivered, Empty, Got
    <2>2. calling[n] # "BACK" /\ calling[n] \in Imm
      BY <1>1, <1>2 DEF NodeFits, CallsFit, TypeOK
    <2> QED
      BY <1>1, <1>2, <2>1, <2>2 DEF Got, Starting, Offering, Requesting, Expecting, Interrupted,
         Final, Away, Over
  <1>3. TypeOK'
    <2>1. pc' \in [Node -> PC]
      BY <1>1, <1>2 DEF PollSend, TypeOK, PC
    <2> QED
      BY <1>1, <1>2, <2>1 DEF TypeOK
  <1>4. PartsFit'
    BY <1>1, <1>2 DEF PartsFit, TypeOK, Node
  <1>5. Shape'
    BY <1>1 DEF PollSend, Shape
  <1>6. QueuesFit(n, p)'
    BY <1>1, <1>2, <1>e DEF NodeFits, QueuesFit, Message, Sending
  <1>7. QueuesFit(p, n)'
    BY <1>1, <1>2, <1>e DEF NodeFits, QueuesFit, Message, Sending
  <1>8. CallsFit(n)'
    BY <1>1, <1>2, <1>e DEF NodeFits, CallsFit
  <1>9. CallsFit(p)'
    BY <1>1, <1>2, <1>s DEF NodeFits, CallsFit, SamePlace
  <1>10. RegionsFit(n)'
    BY <1>1, <1>2, <1>e DEF NodeFits, RegionsFit, Kept, Active
  <1>11. RegionsFit(p)'
    BY <1>1, <1>2, <1>s DEF NodeFits, RegionsFit, Kept, Active, SamePlace
  <1>12. SocketFits(n, p)'
    BY <1>1, <1>2, <1>e DEF NodeFits, SocketFits, Unread
  <1>13. SocketFits(p, n)'
    BY <1>1, <1>2, <1>s, <1>e DEF NodeFits, SocketFits, Unread, SamePlace, Undelivered, Sending
  <1>14. RemoteFits(n, p)'
    BY <1>1, <1>2, <1>e DEF NodeFits, RemoteFits, Sending
  <1>15. RemoteFits(p, n)'
    BY <1>1, <1>2, <1>s, <1>e DEF NodeFits, RemoteFits, Sending, SamePlace
  <1>16. Fits(n, p)'
    BY <1>1, <1>2, <1>s, <1>e DEF NodeFits, Fits, ServerFits, SamePlace
  <1>17. Fits(p, n)'
    <2>1. CASE role[p] = "client"
      BY <1>1, <1>2, <1>s, <1>e, <2>1 DEF NodeFits, Fits, SamePlace
    <2>2. CASE role[p] = "server"
      <3>1. ServerFits(p, n)
        BY <1>1, <2>2 DEF NodeFits, Fits
      <3>2. role'[p] = "server"
        BY <1>2, <2>2
      <3>3. /\ Starting(n)' = Starting(n) /\ Offering(n)' = Offering(n)
            /\ Requesting(n)' = Requesting(n) /\ Final(n)' = Final(n)
            /\ Interrupted(n)' = Interrupted(n) /\ Away(n)' = Away(n)
            /\ pc[n] # "exchange" /\ pc'[n] # "exchange"
        <4>1. ~ Undelivered(n) /\ ~ Empty(n) /\ ~ Got(n)
          BY <1>1, <1>2, <1>e, Singles DEF Delivered, Undelivered, Sending, Empty, Got,
             NodeFits, QueuesFit
        <4> QED
          BY <1>2, <1>e, <4>1 DEF Starting, Offering, Requesting, Final, Interrupted, Away
      <3> QED
        BY <1>1, <1>2, <1>s, <1>e, <3>1, <3>2, <3>3 DEF Fits, ServerFits, SamePlace
    <2> QED
      BY <1>1, <2>1, <2>2 DEF TypeOK
  <1> QED
    BY <1>1, <1>3, <1>4, <1>5, <1>6, <1>7, <1>8, <1>9, <1>10, <1>11,
       <1>12, <1>13, <1>14, <1>15, <1>16, <1>17, After DEF NodeFits, Pair

\* Of two answers the first has arrived; the writer is Interrupted until the second.
LEMMA SentFirstKeeps ==
    ASSUME SessionInv, NEW n, NEW p, Pair(n, p),
           PollSend(n), Head(sendCQ[n]) # "ERROR", role[n] = "server", serving[n] = "first"
    PROVE  SessionInv'
  <1>1. /\ TypeOK /\ Shape /\ PartsFit /\ NodeFits(n, p) /\ NodeFits(p, n)
        /\ Quiet(n) /\ Quiet(p)
        /\ n \in Node /\ p \in Node /\ n # p /\ Peer(n) = p /\ Peer(p) = n /\ Node = {n, p}
    BY Before DEF Pair
  <1>2. /\ pc[n] = "sent" /\ pc'[n] = "request" /\ pc'[p] = pc[p]
        /\ sendCQ'[n] = << >> /\ sendCQ'[p] = sendCQ[p]
        /\ role[n] = "server" /\ sendCQ[n] = <<"SUCCESS">>
        /\ serving[n] = "first" /\ serving'[n] = "last" /\ serving'[p] = serving[p]
        /\ UNCHANGED <<role, todo, calling, socket, remote, own, mem, qp, posted, wire, recvCQ,
                       history>>
    <2>1. Tail(sendCQ[n]) = << >> /\ sendCQ[n] = <<"SUCCESS">>
      <3>1. QueuesFit(n, p)
        BY <1>1 DEF NodeFits
      <3>2. sendCQ[n] # << >>
        BY <1>1 DEF PollSend
      <3> QED
        BY <3>1, <3>2, Polled
    <2> QED
      BY <1>1, <2>1 DEF PollSend, TypeOK, Shape
  <1>s. Still(p) /\ SamePlace(p)
    BY <1>1, <1>2, Standing DEF Still
  <1>e. /\ Delivered(n) /\ Undelivered(n)' /\ ~ Delivered(n)' /\ ~ Empty(n)' /\ ~ Got(n)'
        /\ Interrupted(p) /\ n = Home /\ p = Caller
    <2>1. Delivered(n) /\ Undelivered(n)' /\ ~ Delivered(n)' /\ ~ Empty(n)' /\ ~ Got(n)'
      BY <1>1, <1>2, Singles DEF NodeFits, QueuesFit, Sending, Undelivered, Delivered, Empty, Got
    <2>2. Interrupted(p)
      BY <1>1, <1>2, <2>1 DEF NodeFits, Fits, ServerFits
    <2>3. n = Home /\ p = Caller
      BY <1>1, <1>2 DEF PartsFit, Node
    <2> QED
      BY <2>1, <2>2, <2>3
  <1>3. TypeOK'
    <2>1. pc' \in [Node -> PC]
      BY <1>1, <1>2 DEF PollSend, TypeOK, PC
    <2>2. serving' \in [Node -> Imm \cup {"none", "first", "last"}]
      BY <1>1, <1>2 DEF PollSend, TypeOK, PC
    <2> QED
      BY <1>1, <1>2, <2>1, <2>2 DEF TypeOK
  <1>4. PartsFit'
    BY <1>1, <1>2 DEF PartsFit, TypeOK, Node
  <1>5. Shape'
    BY <1>1 DEF PollSend, Shape
  <1>6. QueuesFit(n, p)'
    BY <1>1, <1>2, <1>e DEF NodeFits, QueuesFit, Message, Sending
  <1>7. QueuesFit(p, n)'
    BY <1>1, <1>2, <1>e DEF NodeFits, QueuesFit, Message, Sending
  <1>8. CallsFit(n)'
    BY <1>1, <1>2, <1>e DEF NodeFits, CallsFit
  <1>9. CallsFit(p)'
    BY <1>1, <1>2, <1>s DEF NodeFits, CallsFit, SamePlace
  <1>10. RegionsFit(n)'
    BY <1>1, <1>2, <1>e DEF NodeFits, RegionsFit, Kept, Active
  <1>11. RegionsFit(p)'
    BY <1>1, <1>2, <1>s DEF NodeFits, RegionsFit, Kept, Active, SamePlace
  <1>12. SocketFits(n, p)'
    BY <1>1, <1>2, <1>e, Singles DEF NodeFits, SocketFits, Unread, Fits, ServerFits, CallsFit,
       QueuesFit, Sending, Delivered, Undelivered, Empty, Got, Starting, Offering, Requesting,
       Expecting, Interrupted, Final, Away, Over
  <1>13. SocketFits(p, n)'
    BY <1>1, <1>2, <1>e DEF NodeFits, SocketFits, Unread
  <1>14. RemoteFits(n, p)'
    BY <1>1, <1>2, <1>e DEF NodeFits, RemoteFits, Sending
  <1>15. RemoteFits(p, n)'
    BY <1>1, <1>2, <1>s, <1>e DEF NodeFits, RemoteFits, Sending, SamePlace
  <1>16. Fits(n, p)'
    <2>1. handled[p] = asked[p] /\ Interrupted(p)' 
      BY <1>1, <1>2, <1>s, <1>e DEF NodeFits, CallsFit, Interrupted, SamePlace, Imm
    <2> QED
      BY <1>1, <1>2, <1>e, <2>1 DEF Fits, ServerFits
  <1>17. Fits(p, n)'
    BY <1>1, <1>2, <1>s, <1>e DEF NodeFits, Fits, ServerFits, CallsFit, QueuesFit, SamePlace,
       Undelivered, Sending, Delivered, Empty, Got, Starting, Offering, Requesting, Expecting,
       Interrupted, Final, Away, Over, TypeOK
  <1> QED
    BY <1>1, <1>3, <1>4, <1>5, <1>6, <1>7, <1>8, <1>9, <1>10, <1>11,
       <1>12, <1>13, <1>14, <1>15, <1>16, <1>17, After DEF NodeFits, Pair

\* A server that calls back, or was told RESET, closes: its client is Over.
LEMMA SentLastKeeps ==
    ASSUME SessionInv, NEW n, NEW p, Pair(n, p),
           PollSend(n), Head(sendCQ[n]) # "ERROR", role[n] = "server", serving[n] \in {"last", "RESET"}
    PROVE  SessionInv'
  <1>1. /\ TypeOK /\ Shape /\ PartsFit /\ NodeFits(n, p) /\ NodeFits(p, n)
        /\ Quiet(n) /\ Quiet(p)
        /\ n \in Node /\ p \in Node /\ n # p /\ Peer(n) = p /\ Peer(p) = n /\ Node = {n, p}
    BY Before DEF Pair
  <1>2. /\ pc[n] = "sent" /\ pc'[n] = "close" /\ pc'[p] = pc[p]
        /\ sendCQ'[n] = << >> /\ sendCQ'[p] = sendCQ[p]
        /\ role[n] = "server" /\ sendCQ[n] = <<"SUCCESS">> /\ serving[n] \in {"last", "RESET"}
        /\ UNCHANGED <<role, todo, calling, serving, socket, remote, own, mem, qp, posted, wire, recvCQ,
                       history>>
    <2>1. Tail(sendCQ[n]) = << >> /\ sendCQ[n] = <<"SUCCESS">>
      <3>1. QueuesFit(n, p)
        BY <1>1 DEF NodeFits
      <3>2. sendCQ[n] # << >>
        BY <1>1 DEF PollSend
      <3> QED
        BY <3>1, <3>2, Polled
    <2> QED
      BY <1>1, <2>1 DEF PollSend, TypeOK, Shape
  <1>s. Still(p) /\ SamePlace(p)
    BY <1>1, <1>2, Standing DEF Still
  <1>e. /\ Delivered(n) /\ ~ Undelivered(n)' /\ ~ Delivered(n)' /\ ~ Empty(n)' /\ ~ Got(n)'
        /\ Over(p)
    <2>1. Delivered(n) /\ ~ Undelivered(n)' /\ ~ Delivered(n)' /\ ~ Empty(n)' /\ ~ Got(n)'
      BY <1>1, <1>2, Singles DEF NodeFits, QueuesFit, Sending, Undelivered, Delivered, Empty, Got
    <2>2. Over(p)
      BY <1>1, <1>2, <2>1 DEF NodeFits, Fits, ServerFits
    <2> QED
      BY <2>1, <2>2
  <1>3. TypeOK'
    <2>1. pc' \in [Node -> PC]
      BY <1>1, <1>2 DEF PollSend, TypeOK, PC
    <2> QED
      BY <1>1, <1>2, <2>1 DEF TypeOK
  <1>4. PartsFit'
    BY <1>1, <1>2 DEF PartsFit, TypeOK, Node
  <1>5. Shape'
    BY <1>1 DEF PollSend, Shape
  <1>6. QueuesFit(n, p)'
    BY <1>1, <1>2, <1>e DEF NodeFits, QueuesFit, Message, Sending
  <1>7. QueuesFit(p, n)'
    BY <1>1, <1>2, <1>e DEF NodeFits, QueuesFit, Message, Sending
  <1>8. CallsFit(n)'
    BY <1>1, <1>2, <1>e DEF NodeFits, CallsFit
  <1>9. CallsFit(p)'
    BY <1>1, <1>2, <1>s DEF NodeFits, CallsFit, SamePlace
  <1>10. RegionsFit(n)'
    BY <1>1, <1>2, <1>e DEF NodeFits, RegionsFit, Kept, Active
  <1>11. RegionsFit(p)'
    BY <1>1, <1>2, <1>s DEF NodeFits, RegionsFit, Kept, Active, SamePlace
  <1>12. SocketFits(n, p)'
    BY <1>1, <1>2, <1>e DEF NodeFits, SocketFits, Unread
  <1>13. SocketFits(p, n)'
    BY <1>1, <1>2, <1>e DEF NodeFits, SocketFits, Unread
  <1>14. RemoteFits(n, p)'
    BY <1>1, <1>2, <1>e DEF NodeFits, RemoteFits, Sending
  <1>15. RemoteFits(p, n)'
    BY <1>1, <1>2, <1>s, <1>e DEF NodeFits, RemoteFits, Sending, SamePlace
  <1>16. Fits(n, p)'
    BY <1>1, <1>2, <1>s, <1>e DEF NodeFits, Fits, ServerFits, SamePlace
  <1>17. Fits(p, n)'
    BY <1>1, <1>2, <1>s, <1>e DEF NodeFits, Fits, ServerFits, CallsFit, QueuesFit, SamePlace,
       Undelivered, Sending, Delivered, Empty, Got, Starting, Offering, Requesting, Expecting,
       Interrupted, Final, Away, Over, TypeOK
  <1> QED
    BY <1>1, <1>3, <1>4, <1>5, <1>6, <1>7, <1>8, <1>9, <1>10, <1>11,
       <1>12, <1>13, <1>14, <1>15, <1>16, <1>17, After DEF NodeFits, Pair

\* A server whose answer has arrived is ready for the next request.
LEMMA SentAnswerKeeps ==
    ASSUME SessionInv, NEW n, NEW p, Pair(n, p),
           PollSend(n), Head(sendCQ[n]) # "ERROR", role[n] = "server", serving[n] \notin {"first", "last", "RESET"}
    PROVE  SessionInv'
  <1>1. /\ TypeOK /\ Shape /\ PartsFit /\ NodeFits(n, p) /\ NodeFits(p, n)
        /\ Quiet(n) /\ Quiet(p)
        /\ n \in Node /\ p \in Node /\ n # p /\ Peer(n) = p /\ Peer(p) = n /\ Node = {n, p}
    BY Before DEF Pair
  <1>d. /\ own[n] \in Seq(Nat) /\ Len(own[n]) = (IF Kept(n) THEN 1 ELSE 0) + 1
        /\ own'[n] \in Seq(Nat) /\ Len(own'[n]) = Len(own[n]) - 1
        /\ Len(own[n]) = 2 => own'[n][1] = own[n][1]
        /\ \A i \in DOMAIN own'[n] : i \in DOMAIN own[n] /\ own'[n][i] = own[n][i]
    <2>1. own[n] \in Seq(Nat) /\ Len(own[n]) = (IF Kept(n) THEN 1 ELSE 0) + 1
      <3>1. RegionsFit(n) /\ pc[n] = "sent"
        BY <1>1 DEF PollSend, NodeFits
      <3> QED
        BY <3>1 DEF RegionsFit, Active
    <2>2. own'[n] = Front(own[n])
      BY <1>1 DEF PollSend, Shape
    <2>3. Len(own[n]) = 1 \/ Len(own[n]) = 2
      BY <2>1
    <2> QED
      BY <2>1, <2>2, <2>3, LowerRegion
  <1>2. /\ pc[n] = "sent" /\ pc'[n] = "ready" /\ pc'[p] = pc[p]
        /\ sendCQ'[n] = << >> /\ sendCQ'[p] = sendCQ[p]
        /\ role[n] = "server" /\ sendCQ[n] = <<"SUCCESS">> /\ serving[n] \notin {"first", "last", "RESET"}
        /\ own'[p] = own[p]
        /\ UNCHANGED <<role, todo, calling, serving, socket, remote, mem, qp, posted, wire, recvCQ,
                       history>>
    <2>1. Tail(sendCQ[n]) = << >> /\ sendCQ[n] = <<"SUCCESS">>
      <3>1. QueuesFit(n, p)
        BY <1>1 DEF NodeFits
      <3>2. sendCQ[n] # << >>
        BY <1>1 DEF PollSend
      <3> QED
        BY <3>1, <3>2, Polled
    <2> QED
      BY <1>1, <2>1 DEF PollSend, TypeOK, Shape
  <1>s. Still(p) /\ SamePlace(p)
    BY <1>1, <1>2, Standing DEF Still
  <1>e. /\ Delivered(n) /\ ~ Undelivered(n)' /\ ~ Delivered(n)' /\ ~ Empty(n)' /\ ~ Got(n)'
        /\ Final(p) \/ Offering(p) \/ Away(p)
    <2>1. Delivered(n) /\ ~ Undelivered(n)' /\ ~ Delivered(n)' /\ ~ Empty(n)' /\ ~ Got(n)'
      BY <1>1, <1>2, Singles DEF NodeFits, QueuesFit, Sending, Undelivered, Delivered, Empty, Got
    <2>2. Final(p) \/ Offering(p) \/ Away(p)
      BY <1>1, <1>2, <2>1 DEF NodeFits, Fits, ServerFits
    <2> QED
      BY <2>1, <2>2
  <1>3. TypeOK'
    <2>1. pc' \in [Node -> PC]
      <3>1. pc' = [pc EXCEPT ![n] = "ready"]
        BY <1>1 DEF PollSend
      <3> QED
        BY <1>1, <3>1 DEF TypeOK, PC
    <2>2. \A m \in Node : \A i \in DOMAIN own'[m] : own'[m][i] \in DOMAIN mem[m]
      <3>1. \A i \in DOMAIN own'[n] : own'[n][i] \in DOMAIN mem[n]
        BY <1>1, <1>d DEF TypeOK
      <3> QED
        BY <1>1, <1>2, <3>1 DEF TypeOK
    <2> QED
      BY <1>1, <1>2, <2>1, <2>2 DEF TypeOK
  <1>4. PartsFit'
    BY <1>1, <1>2 DEF PartsFit, TypeOK, Node
  <1>5. Shape'
    BY <1>1 DEF PollSend, Shape
  <1>6. QueuesFit(n, p)'
    BY <1>1, <1>2, <1>e DEF NodeFits, QueuesFit, Message, Sending
  <1>7. QueuesFit(p, n)'
    BY <1>1, <1>2, <1>e DEF NodeFits, QueuesFit, Message, Sending
  <1>8. CallsFit(n)'
    BY <1>1, <1>2, <1>e DEF NodeFits, CallsFit
  <1>9. CallsFit(p)'
    BY <1>1, <1>2, <1>s DEF NodeFits, CallsFit, SamePlace
  <1>10. RegionsFit(n)'
    <2>1. /\ calling[n] = "BACK" => mem[n][own[n][1]] = asked[n]
          /\ calling[n] = "BACK" => Kept(n) /\ Len(own[n]) = 2
          /\ (Kept(n)' <=> Kept(n)) /\ ~ Active(n)'
      BY <1>1, <1>2, <1>d DEF NodeFits, RegionsFit, Kept, Active
    <2> QED
      BY <1>1, <1>2, <1>d, <1>e, <2>1 DEF RegionsFit
  <1>11. RegionsFit(p)'
    BY <1>1, <1>2, <1>s DEF NodeFits, RegionsFit, Kept, Active, SamePlace
  <1>12. SocketFits(n, p)'
    BY <1>1, <1>2, <1>e DEF NodeFits, SocketFits, Unread
  <1>13. SocketFits(p, n)'
    BY <1>1, <1>2, <1>e DEF NodeFits, SocketFits, Unread
  <1>14. RemoteFits(n, p)'
    BY <1>1, <1>2, <1>e DEF NodeFits, RemoteFits, Sending
  <1>15. RemoteFits(p, n)'
    BY <1>1, <1>2, <1>e, Singles DEF NodeFits, RemoteFits, SocketFits, Unread, Fits,
       ServerFits, CallsFit, QueuesFit, Sending, Delivered, Undelivered, Empty, Got, Starting,
       Offering, Requesting, Expecting, Interrupted, Final, Away, Over
  <1>16. Fits(n, p)'
    <2>1. Starting(p) \/ Final(p) \/ Away(p)
      BY <1>e DEF Offering, Starting
    <2> QED
      BY <1>1, <1>2, <1>s, <1>e, <2>1 DEF Fits, ServerFits, SamePlace, TypeOK
  <1>17. Fits(p, n)'
    BY <1>1, <1>2, <1>s, <1>e DEF NodeFits, Fits, ServerFits, CallsFit, QueuesFit, SamePlace,
       Undelivered, Sending, Delivered, Empty, Got, Starting, Offering, Requesting, Expecting,
       Interrupted, Final, Away, Over, TypeOK
  <1> QED
    BY <1>1, <1>3, <1>4, <1>5, <1>6, <1>7, <1>8, <1>9, <1>10, <1>11,
       <1>12, <1>13, <1>14, <1>15, <1>16, <1>17, After DEF NodeFits, Pair

\* A server handles the request its client expects an answer of.
LEMMA TakeRequestKeeps ==
    ASSUME SessionInv, NEW n, NEW p, Pair(n, p), TakeRequest(n)
    PROVE  SessionInv'
  <1>1. /\ TypeOK /\ Shape /\ PartsFit /\ NodeFits(n, p) /\ NodeFits(p, n)
        /\ Quiet(n) /\ Quiet(p)
        /\ n \in Node /\ p \in Node /\ n # p /\ Peer(n) = p /\ Peer(p) = n /\ Node = {n, p}
    BY Before DEF Pair
  <1>2. /\ role[n] = "server" /\ pc[n] = "wait" /\ pc'[n] = "request" /\ pc'[p] = pc[p]
        /\ recvCQ'[n] = << >> /\ recvCQ'[p] = recvCQ[p]
        /\ recvCQ[n] = <<calling[p]>> /\ calling[p] \in Imm
        /\ serving'[p] = serving[p]
        /\ serving'[n] = calling[p] \/ (calling[p] = "WRITE" /\ serving'[n] = "first")
        /\ handled'[p] = asked[p] /\ handled'[n] = handled[n] /\ handled[p] # asked[p]
        /\ Expecting(p) /\ Got(n)
        /\ UNCHANGED <<role, todo, calling, socket, regions, qp, posted, wire, sendCQ,
                       sessions, asked, answered>>
    <2>1. Got(n) /\ role[n] = "server"
      BY DEF TakeRequest, At, Got
    <2>2. Expecting(p) /\ handled[p] # asked[p] /\ recvCQ[n] = <<calling[p]>> /\ mem[n][Last(own[n])] = asked[p]
      BY <1>1, <2>1 DEF NodeFits, Fits, ServerFits
    <2>3. Head(recvCQ[n]) = calling[p] /\ Tail(recvCQ[n]) = << >> /\ calling[p] \in Imm
      <3>1. QueuesFit(n, p) /\ recvCQ[n] # << >>
        BY <1>1, <2>1 DEF NodeFits, Got
      <3>2. Tail(recvCQ[n]) = << >> /\ Head(recvCQ[n]) \in Imm
        BY <3>1, Received
      <3>3. Head(<<calling[p]>>) = calling[p]
        BY Singles
      <3> QED
        BY <2>2, <3>2, <3>3
    <2>4. recvCQ' = [recvCQ EXCEPT ![n] = << >>]
      BY <2>3 DEF TakeRequest
    <2>5. PICK s \in {calling[p]} \cup (IF calling[p] = "WRITE" THEN {"first"} ELSE {}) :
             serving' = [serving EXCEPT ![n] = s]
      BY <2>3 DEF TakeRequest
    <2>6. pc' = [pc EXCEPT ![n] = "request"] /\ handled' = [handled EXCEPT ![p] = asked[p]] /\ pc[n] = "wait"
      BY <1>1, <2>2 DEF TakeRequest, At, Content
    <2>7. UNCHANGED <<role, todo, calling, socket, regions, qp, posted, wire, sendCQ,
                      sessions, asked, answered>>
      BY DEF TakeRequest
    <2>8. s = calling[p] \/ (calling[p] = "WRITE" /\ s = "first")
      BY <2>5
    <2>9. serving'[n] = s /\ serving'[p] = serving[p]
      BY <1>1, <2>5 DEF TypeOK
    <2> QED
      BY <1>1, <2>1, <2>2, <2>3, <2>4, <2>6, <2>7, <2>8, <2>9 DEF TypeOK, Shape
  <1>s. Still(p) /\ SamePlace(p)
    BY <1>1, <1>2, Standing DEF Still
  <1>e. /\ Undelivered(n)' /\ ~ Delivered(n)' /\ ~ Empty(n)' /\ ~ Got(n)'
        /\ ~ Undelivered(p) /\ ~ Got(p) /\ role[p] = "client" /\ serving'[n] # "last"
        /\ calling[p] = IF serving'[n] = "first" THEN "WRITE" ELSE serving'[n]
    <2>1. Undelivered(n)' /\ ~ Delivered(n)' /\ ~ Empty(n)' /\ ~ Got(n)'
      BY <1>1, <1>2, Singles DEF Quiet, Sending, Undelivered, Delivered, Empty, Got
    <2>2. ~ Undelivered(p) /\ ~ Got(p) /\ role[p] = "client"
      <3>1. <<"SUCCESS">> # << >> /\ <<"SUCCESS">> # <<"ERROR">>
        BY Singles
      <3>2. Quiet(p) /\ Expecting(p)
        BY <1>1, <1>2
      <3>3. qp[p] = "ERR" => sendCQ[p] = <<"ERROR">> \/ pc[p] = "ended"
        BY <1>1 DEF NodeFits, QueuesFit
      <3> QED
        BY <3>1, <3>2, <3>3 DEF Expecting, Quiet, Sending, Delivered, Undelivered, Empty, Got
    <2>3. serving'[n] # "last" /\ calling[p] = IF serving'[n] = "first" THEN "WRITE" ELSE serving'[n]
      BY <1>2 DEF Imm
    <2> QED
      BY <2>1, <2>2, <2>3
  <1>3. TypeOK'
    <2>1. pc' \in [Node -> PC]
      BY <1>1 DEF TakeRequest, TypeOK, PC
    <2>2. serving' \in [Node -> Imm \cup {"none", "first", "last"}]
      <3>1. PICK s : serving' = [serving EXCEPT ![n] = s]
        BY DEF TakeRequest
      <3>2. s \in Imm \cup {"first"}
        BY <1>1, <1>2, <3>1 DEF TypeOK
      <3> QED
        BY <1>1, <3>1, <3>2 DEF TypeOK
    <2> QED
      BY <1>1, <1>2, <2>1, <2>2 DEF TypeOK
  <1>4. PartsFit'
    <2>1. serving'[n] \in {"first", "last"} => n = Home
      BY <1>1, <1>2, <1>e DEF PartsFit, Node
    <2> QED
      BY <1>1, <1>2, <2>1 DEF PartsFit, Node
  <1>5. Shape'
    BY <1>1 DEF TakeRequest, Shape
  <1>6. QueuesFit(n, p)'
    BY <1>1, <1>2, <1>e DEF NodeFits, QueuesFit, Message, Sending
  <1>7. QueuesFit(p, n)'
    BY <1>1, <1>2, <1>e DEF NodeFits, QueuesFit, Message, Sending
  <1>8. CallsFit(n)'
    BY <1>1, <1>2, <1>e DEF NodeFits, CallsFit
  <1>9. CallsFit(p)'
    BY <1>1, <1>2, <1>e, Singles DEF NodeFits, CallsFit, QueuesFit, Single, Fits, ServerFits,
       Sending, Delivered, Undelivered, Empty, Got, Starting, Offering, Requesting, Expecting,
       Interrupted, Final, Away, Over
  <1>10. RegionsFit(n)'
    BY <1>1, <1>2, <1>e DEF NodeFits, RegionsFit, Kept, Active
  <1>11. RegionsFit(p)'
    BY <1>1, <1>2, <1>s DEF NodeFits, RegionsFit, Kept, Active, SamePlace
  <1>12. SocketFits(n, p)'
    BY <1>1, <1>2, <1>e DEF NodeFits, SocketFits, Unread
  <1>13. SocketFits(p, n)'
    BY <1>1, <1>2, <1>e, Singles DEF NodeFits, SocketFits, Unread, Fits, ServerFits, CallsFit,
       QueuesFit, Sending, Delivered, Undelivered, Empty, Got, Starting, Offering, Requesting,
       Expecting, Interrupted, Final, Away, Over
  <1>14. RemoteFits(n, p)'
    BY <1>1, <1>2, <1>e DEF NodeFits, RemoteFits, Sending
  <1>15. RemoteFits(p, n)'
    BY <1>1, <1>2, <1>e DEF NodeFits, RemoteFits, Sending
  <1>16. Fits(n, p)'
    BY <1>1, <1>2, <1>s, <1>e DEF Fits, ServerFits, SamePlace
  <1>17. Fits(p, n)'
    BY <1>1, <1>2, <1>e DEF NodeFits, Fits, ServerFits
  <1> QED
    BY <1>1, <1>3, <1>4, <1>5, <1>6, <1>7, <1>8, <1>9, <1>10, <1>11,
       <1>12, <1>13, <1>14, <1>15, <1>16, <1>17, After DEF NodeFits, Pair

\* A client that is called back closes, and keeps the region of its call.
LEMMA TakeLastKeeps ==
    ASSUME SessionInv, NEW n, NEW p, Pair(n, p), TakeAnswer(n), calling[n] = "BACK"
    PROVE  SessionInv'
  <1>1. /\ TypeOK /\ Shape /\ PartsFit /\ NodeFits(n, p) /\ NodeFits(p, n)
        /\ Quiet(n) /\ Quiet(p)
        /\ n \in Node /\ p \in Node /\ n # p /\ Peer(n) = p /\ Peer(p) = n /\ Node = {n, p}
    BY Before DEF Pair
  <1>2. /\ role[n] = "client" /\ pc[n] = "wait" /\ pc'[n] = "close" /\ pc'[p] = pc[p]
        /\ recvCQ[n] # << >> /\ recvCQ'[n] = << >> /\ recvCQ'[p] = recvCQ[p]
        /\ calling[n] = "BACK"
        /\ UNCHANGED <<role, todo, calling, serving, socket, regions, qp, posted, wire, sendCQ,
                       history>>
    <2>1. Tail(recvCQ[n]) = << >>
      <3>1. QueuesFit(n, p) /\ recvCQ[n] # << >>
        BY <1>1 DEF NodeFits, TakeAnswer
      <3> QED
        BY <3>1, Received
    <2>2. recvCQ' = [recvCQ EXCEPT ![n] = << >>] /\ pc' = [pc EXCEPT ![n] = "close"]
      BY <2>1 DEF TakeAnswer
    <2>3. calling' = calling /\ UNCHANGED <<own, answered>>
      <3>1. calling' = [calling EXCEPT ![n] = "BACK"] /\ UNCHANGED <<own, answered>>
        BY DEF TakeAnswer
      <3>2. calling = [calling EXCEPT ![n] = "BACK"]
        BY <1>1 DEF TypeOK
      <3> QED
        BY <3>1, <3>2
    <2>4. /\ UNCHANGED <<role, todo, serving, socket, remote, mem, qp, posted, wire, sendCQ, sessions, asked, handled>>
          /\ role[n] = "client" /\ pc[n] = "wait" /\ recvCQ[n] # << >>
      BY DEF TakeAnswer, At
    <2> QED
      BY <1>1, <2>2, <2>3, <2>4 DEF TypeOK, Shape
  <1>s. Still(p) /\ SamePlace(p)
    BY <1>1, <1>2, Standing DEF Still
  <1>e. /\ ~ Undelivered(n)' /\ ~ Delivered(n)' /\ ~ Empty(n)' /\ ~ Got(n)'
        /\ Over(n) /\ Away(n)' /\ Over(n)' /\ Got(n) /\ ~ Undelivered(n)
        /\ ~ Starting(n) /\ ~ Final(n) /\ ~ Interrupted(n) /\ ~ Expecting(n)
    <2>1. ~ Undelivered(n)' /\ ~ Delivered(n)' /\ ~ Empty(n)' /\ ~ Got(n)'
      BY <1>1, <1>2, Singles DEF Quiet, Sending, Undelivered, Delivered, Empty, Got
    <2>2. Got(n) /\ ~ Undelivered(n) /\ ~ Delivered(n)
      BY <1>1, <1>2, Singles DEF Quiet, Sending, Undelivered, Delivered, Got
    <2> QED
      BY <1>2, <2>1, <2>2 DEF Empty, Got, Starting, Offering, Requesting, Expecting, Interrupted,
         Final, Away, Over
  <1>3. TypeOK'
    <2>1. pc' \in [Node -> PC]
      BY <1>1, <1>2 DEF TakeAnswer, TypeOK, PC
    <2> QED
      BY <1>1, <1>2, <2>1 DEF TypeOK
  <1>4. PartsFit'
    BY <1>1, <1>2 DEF PartsFit, TypeOK, Node
  <1>5. Shape'
    BY <1>1, <1>2 DEF TakeAnswer, Shape
  <1>6. QueuesFit(n, p)'
    BY <1>1, <1>2, <1>e DEF NodeFits, QueuesFit, Message, Sending
  <1>7. QueuesFit(p, n)'
    BY <1>1, <1>2, <1>e DEF NodeFits, QueuesFit, Message, Sending
  <1>8. CallsFit(n)'
    BY <1>1, <1>2, <1>e DEF NodeFits, CallsFit
  <1>9. CallsFit(p)'
    BY <1>1, <1>2, <1>s DEF NodeFits, CallsFit, SamePlace
  <1>10. RegionsFit(n)'
    <2>1. ~ Kept(n) /\ Kept(n)' /\ Active(n) /\ ~ Active(n)'
      <3>1. serving[n] # "last"
        BY <1>1, <1>2 DEF PartsFit, Node
      <3> QED
        BY <1>2, <3>1 DEF Kept, Active
    <2> QED
      BY <1>1, <1>2, <1>e, <2>1 DEF NodeFits, RegionsFit
  <1>11. RegionsFit(p)'
    BY <1>1, <1>2, <1>s DEF NodeFits, RegionsFit, Kept, Active, SamePlace
  <1>12. SocketFits(n, p)'
    BY <1>1, <1>2, <1>e DEF NodeFits, SocketFits, Unread
  <1>13. SocketFits(p, n)'
    BY <1>1, <1>2, <1>e DEF NodeFits, SocketFits, Unread
  <1>14. RemoteFits(n, p)'
    BY <1>1, <1>2, <1>e DEF NodeFits, RemoteFits, Sending
  <1>15. RemoteFits(p, n)'
    BY <1>1, <1>2, <1>s, <1>e DEF NodeFits, RemoteFits, Sending, SamePlace
  <1>16. Fits(n, p)'
    BY <1>1, <1>2, <1>s, <1>e DEF NodeFits, Fits, ServerFits, SamePlace
  <1>17. Fits(p, n)'
    BY <1>1, <1>2, <1>s, <1>e DEF NodeFits, Fits, ServerFits, CallsFit, QueuesFit, SamePlace,
       Undelivered, Sending, Delivered, Empty, Got, Starting, Offering, Requesting, Expecting,
       Interrupted, Final, Away, Over, TypeOK
  <1> QED
    BY <1>1, <1>3, <1>4, <1>5, <1>6, <1>7, <1>8, <1>9, <1>10, <1>11,
       <1>12, <1>13, <1>14, <1>15, <1>16, <1>17, After DEF NodeFits, Pair

\* A writer learns that it is called back.
LEMMA TakeFirstKeeps ==
    ASSUME SessionInv, NEW n, NEW p, Pair(n, p),
           TakeAnswer(n), calling[n] = "WRITE", Head(recvCQ[n]) = "INVALIDATE"
    PROVE  SessionInv'
  <1>1. /\ TypeOK /\ Shape /\ PartsFit /\ NodeFits(n, p) /\ NodeFits(p, n)
        /\ Quiet(n) /\ Quiet(p)
        /\ n \in Node /\ p \in Node /\ n # p /\ Peer(n) = p /\ Peer(p) = n /\ Node = {n, p}
    BY Before DEF Pair
  <1>2. /\ role[n] = "client" /\ pc[n] = "wait" /\ pc'[n] = "receive" /\ pc'[p] = pc[p]
        /\ recvCQ[n] = <<"INVALIDATE">> /\ recvCQ'[n] = << >> /\ recvCQ'[p] = recvCQ[p]
        /\ calling[n] = "WRITE" /\ calling'[n] = "BACK" /\ calling'[p] = calling[p]
        /\ UNCHANGED <<role, todo, serving, socket, regions, qp, posted, wire, sendCQ,
                       history>>
    <2>1. Tail(recvCQ[n]) = << >> /\ recvCQ[n] = <<"INVALIDATE">>
      <3>1. QueuesFit(n, p) /\ recvCQ[n] # << >>
        BY <1>1 DEF NodeFits, TakeAnswer
      <3> QED
        BY <3>1, Received
    <2>2. recvCQ' = [recvCQ EXCEPT ![n] = << >>] /\ pc' = [pc EXCEPT ![n] = "receive"]
      BY <2>1 DEF TakeAnswer
    <2>3. calling' = [calling EXCEPT ![n] = "BACK"] /\ UNCHANGED <<own, answered>>
      BY DEF TakeAnswer
    <2>4. /\ UNCHANGED <<role, todo, serving, socket, remote, mem, qp, posted, wire, sendCQ, sessions, asked, handled>>
          /\ role[n] = "client" /\ pc[n] = "wait"
      BY DEF TakeAnswer, At
    <2> QED
      BY <1>1, <2>1, <2>2, <2>3, <2>4 DEF TypeOK, Shape
  <1>s. Still(p) /\ SamePlace(p)
    BY <1>1, <1>2, Standing DEF Still
  <1>e. /\ ~ Undelivered(n)' /\ ~ Delivered(n)' /\ Empty(n)' /\ ~ Got(n)'
        /\ Interrupted(n) /\ Interrupted(n)' /\ Got(n) /\ ~ Undelivered(n)
        /\ ~ Starting(n) /\ ~ Final(n) /\ ~ Expecting(n) /\ ~ Over(n)
        /\ ~ Kept(n) /\ role[p] = "server"
    <2>1. ~ Undelivered(n)' /\ ~ Delivered(n)' /\ Empty(n)' /\ ~ Got(n)'
      BY <1>1, <1>2, Singles DEF Quiet, Sending, Undelivered, Delivered, Empty, Got
    <2>2. Got(n) /\ ~ Undelivered(n) /\ ~ Delivered(n)
      BY <1>1, <1>2, Singles DEF Quiet, Sending, Undelivered, Delivered, Got
    <2>3. Head(recvCQ[n]) = "INVALIDATE"
      OBVIOUS
    <2>4. serving[n] # "last"
      BY <1>1, <1>2 DEF PartsFit, Node
    <2>5. ~ Over(n)
      BY <1>2, <2>3 DEF Over, Away, Final
    <2>6. role[p] = "server"
      BY <1>1, <1>2, <2>5 DEF NodeFits, Fits, TypeOK
    <2> QED
      BY <1>2, <2>1, <2>2, <2>3, <2>4, <2>5, <2>6 DEF Kept, Empty, Got, Starting, Offering,
         Requesting, Expecting, Interrupted, Final, Away, Over
  <1>3. TypeOK'
    <2>1. pc' \in [Node -> PC]
      BY <1>1, <1>2 DEF TakeAnswer, TypeOK, PC
    <2>2. calling' \in [Node -> Imm \cup {"none", "BACK"}]
      BY <1>1, <1>2 DEF TakeAnswer, TypeOK, PC
    <2> QED
      BY <1>1, <1>2, <2>1, <2>2 DEF TypeOK
  <1>4. PartsFit'
    BY <1>1, <1>2 DEF PartsFit, TypeOK, Node
  <1>5. Shape'
    BY <1>1, <1>2 DEF TakeAnswer, Shape
  <1>6. QueuesFit(n, p)'
    BY <1>1, <1>2, <1>e DEF NodeFits, QueuesFit, Message, Sending
  <1>7. QueuesFit(p, n)'
    BY <1>1, <1>2, <1>e DEF NodeFits, QueuesFit, Message, Sending
  <1>8. CallsFit(n)'
    BY <1>1, <1>2, <1>e DEF NodeFits, CallsFit
  <1>9. CallsFit(p)'
    BY <1>1, <1>2, <1>e DEF NodeFits, CallsFit
  <1>10. RegionsFit(n)'
    <2>1. ~ Kept(n) /\ ~ Kept(n)' /\ Active(n) /\ Active(n)'
      BY <1>1, <1>2, <1>e DEF PartsFit, Node, Kept, Active
    <2>2. Last(own[n]) = own[n][Len(own[n])]
      BY <1>1, <2>1, TopRegion DEF NodeFits
    <2>3. Len(own[n]) = 1 /\ mem[n][Last(own[n])] = asked[n]
      BY <1>1, <1>2, <1>e, <2>1 DEF NodeFits, RegionsFit
    <2> QED
      BY <1>1, <1>2, <1>e, <2>1, <2>2, <2>3 DEF NodeFits, RegionsFit
  <1>11. RegionsFit(p)'
    BY <1>1, <1>2, <1>e DEF NodeFits, RegionsFit, Kept, Active
  <1>12. SocketFits(n, p)'
    BY <1>1, <1>2, <1>s, <1>e DEF NodeFits, SocketFits, Unread, SamePlace, Fits, ServerFits,
       CallsFit, Undelivered, Sending, Delivered, Empty, Got, Starting, Requesting, Final,
       Away, TypeOK
  <1>13. SocketFits(p, n)'
    BY <1>1, <1>2, <1>e DEF NodeFits, SocketFits, Unread
  <1>14. RemoteFits(n, p)'
    BY <1>1, <1>2, <1>e DEF NodeFits, RemoteFits, Sending
  <1>15. RemoteFits(p, n)'
    BY <1>1, <1>2, <1>s, <1>e DEF NodeFits, RemoteFits, Sending, SamePlace
  <1>16. Fits(n, p)'
    BY <1>1, <1>2, <1>e DEF NodeFits, Fits, ServerFits
  <1>17. Fits(p, n)'
    BY <1>1, <1>2, <1>s, <1>e DEF NodeFits, Fits, ServerFits, CallsFit, QueuesFit, SamePlace,
       Undelivered, Sending, Delivered, Empty, Got, Starting, Offering, Requesting, Expecting,
       Interrupted, Final, Away, Over, TypeOK
  <1> QED
    BY <1>1, <1>3, <1>4, <1>5, <1>6, <1>7, <1>8, <1>9, <1>10, <1>11,
       <1>12, <1>13, <1>14, <1>15, <1>16, <1>17, After DEF NodeFits, Pair

\* A call returns and the next one of the session begins.
LEMMA ReturnKeeps ==
    ASSUME SessionInv, NEW n, NEW p, Pair(n, p),
           TakeAnswer(n), calling[n] # "BACK", ~ (calling[n] = "WRITE" /\ Head(recvCQ[n]) = "INVALIDATE"),
           todo[n] # << >>
    PROVE  SessionInv'
  <1>1. /\ TypeOK /\ Shape /\ PartsFit /\ NodeFits(n, p) /\ NodeFits(p, n)
        /\ Quiet(n) /\ Quiet(p)
        /\ n \in Node /\ p \in Node /\ n # p /\ Peer(n) = p /\ Peer(p) = n /\ Node = {n, p}
    BY Before DEF Pair
  <1>d. /\ own[n] \in Seq(Nat) /\ Len(own[n]) = (IF Kept(n) THEN 1 ELSE 0) + 1
        /\ own'[n] \in Seq(Nat) /\ Len(own'[n]) = Len(own[n]) - 1 /\ own'[p] = own[p]
        /\ \A i \in DOMAIN own'[n] : i \in DOMAIN own[n] /\ own'[n][i] = own[n][i]
        /\ answered'[n] = asked[n] /\ answered'[p] = answered[p]
        /\ calling'[n] = "none" /\ calling'[p] = calling[p]
    <2>1. Return(n)
      BY DEF TakeAnswer
    <2>2. RegionsFit(n) /\ Got(n) /\ role[n] = "client"
      BY <1>1 DEF TakeAnswer, At, Got, NodeFits
    <2>3. own[n] \in Seq(Nat) /\ Len(own[n]) = (IF Kept(n) THEN 1 ELSE 0) + 1 /\ mem[n][Last(own[n])] = asked[n]
      BY <2>2 DEF RegionsFit, Active, Got
    <2>4. own'[n] = Front(own[n]) /\ own'[p] = own[p]
      BY <1>1, <2>1 DEF Return, Shape
    <2>5. Len(own[n]) = 1 \/ Len(own[n]) = 2
      BY <2>3
    <2>6. /\ answered'[n] = asked[n] /\ answered'[p] = answered[p]
          /\ calling'[n] = "none" /\ calling'[p] = calling[p]
      <3>1. answered' = [answered EXCEPT ![n] = asked[n]] /\ calling' = [calling EXCEPT ![n] = "none"]
        <4>1. answered' = [answered EXCEPT ![n] = mem[n][Last(own[n])]]
          BY <2>1 DEF Return, Content
        <4>2. calling' = [calling EXCEPT ![n] = "none"]
          BY <2>1 DEF Return
        <4> QED
          BY <2>3, <4>1, <4>2
      <3> QED
        BY <1>1, <3>1 DEF Shape, TypeOK
    <2>7. /\ Front(own[n]) \in Seq(Nat) /\ Len(Front(own[n])) = Len(own[n]) - 1
          /\ \A i \in DOMAIN Front(own[n]) : i \in DOMAIN own[n] /\ Front(own[n])[i] = own[n][i]
      BY <2>3, <2>5, LowerRegion
    <2> QED
      BY <2>3, <2>4, <2>6, <2>7
  <1>2. /\ role[n] = "client" /\ pc[n] = "wait" /\ pc'[n] = "ready" /\ pc'[p] = pc[p] /\ todo[n] # << >>
        /\ recvCQ'[n] = << >> /\ recvCQ'[p] = recvCQ[p]
        /\ calling[n] # "BACK" /\ calling[n] # "none" /\ calling'[n] = "none" /\ calling'[p] = calling[p]
        /\ answered'[n] = asked[n] /\ answered'[p] = answered[p] /\ own'[p] = own[p]
        /\ UNCHANGED <<role, todo, serving, socket, remote, mem, qp, posted, wire, sendCQ,
                       sessions, asked, handled>>
    <2>1. Tail(recvCQ[n]) = << >>
      <3>1. QueuesFit(n, p) /\ recvCQ[n] # << >>
        BY <1>1 DEF NodeFits, TakeAnswer
      <3> QED
        BY <3>1, Received
    <2>2. recvCQ' = [recvCQ EXCEPT ![n] = << >>] /\ pc' = [pc EXCEPT ![n] = "ready"]
      BY <2>1 DEF TakeAnswer
    <2>3. /\ UNCHANGED <<role, todo, serving, socket, remote, mem, qp, posted, wire, sendCQ,
                         sessions, asked, handled>>
          /\ role[n] = "client" /\ pc[n] = "wait"
      BY DEF TakeAnswer, At
    <2>4. calling[n] # "none"
      BY <1>1, <2>3 DEF NodeFits, CallsFit
    <2> QED
      BY <1>1, <1>d, <2>2, <2>3, <2>4 DEF TypeOK, Shape
  <1>s. Still(p) /\ SamePlace(p)
    BY <1>1, <1>2, Standing DEF Still
  <1>e. /\ ~ Undelivered(n)' /\ ~ Delivered(n)' /\ ~ Empty(n)' /\ ~ Got(n)'
        /\ Got(n) /\ ~ Undelivered(n) /\ ~ Over(n) /\ Starting(n)' /\ Offering(n)'
        /\ ~ Starting(n) /\ ~ Interrupted(n) /\ ~ Expecting(n) /\ role[p] = "server" /\ Final(n)
        /\ handled[n] = asked[n]
    <2>1. ~ Undelivered(n)' /\ ~ Delivered(n)' /\ ~ Empty(n)' /\ ~ Got(n)'
      BY <1>1, <1>2, Singles DEF Quiet, Sending, Undelivered, Delivered, Empty, Got
    <2>2. Got(n) /\ ~ Undelivered(n) /\ ~ Delivered(n) /\ recvCQ[n] # << >>
      <3>1. recvCQ[n] # << >>
        BY DEF TakeAnswer
      <3> QED
        BY <1>1, <1>2, <3>1, Singles DEF Quiet, Sending, Undelivered, Delivered, Got
    <2>3. handled[n] = asked[n]
      BY <1>1, <1>2, <2>2 DEF NodeFits, CallsFit
    <2>4. /\ ~ Over(n) /\ Starting(n)' /\ Offering(n)'
          /\ ~ Starting(n) /\ ~ Interrupted(n) /\ ~ Expecting(n) /\ ~ Away(n)
      BY <1>2, <2>2 DEF Empty, Got, Starting, Offering, Requesting, Expecting, Interrupted, Final,
         Away, Over
    <2>5. Final(n)
      <3>1. CASE role[p] = "client"
        BY <1>1, <1>2, <2>4, <3>1 DEF NodeFits, Fits, Over
      <3>2. CASE role[p] = "server"
        <4>1. Final(n) \/ (~ Over(n) /\ ~ Requesting(n))
          BY <1>2, <2>2, <2>4 DEF Over, Requesting
        <4>2. ASSUME ~ Final(n)
              PROVE  /\ pc[p] \notin {"idle", "listen", "address", "ready", "exchange", "close", "stuck"}
                     /\ ~ Empty(p) /\ ~ Got(p) /\ ~ Undelivered(p) /\ ~ Delivered(p)
                     /\ ~ (pc[p] = "ended" /\ qp[p] # "ERR")
          <5>1. ServerFits(p, n)
            BY <1>1, <3>2 DEF NodeFits, Fits
          <5>2. pc[p] # "idle"
            BY <1>1, <3>2 DEF NodeFits, CallsFit
          <5>3. ~ Offering(n) /\ role[n] = "client" /\ pc[n] = "wait" /\ ~ Requesting(n) /\ ~ Over(n)
            BY <1>2, <4>1, <4>2 DEF Offering
          <5>4. /\ pc[p] \notin {"idle", "listen", "address", "ready", "exchange", "close"}
                /\ ~ Empty(p) /\ ~ Got(p)
            BY <2>4, <4>2, <5>1, <5>2, <5>3 DEF ServerFits
          <5>5. ~ Undelivered(p) /\ ~ Delivered(p)
            BY <2>4, <4>2, <5>1, <5>3 DEF ServerFits
          <5>6. pc[p] # "stuck" /\ ~ (pc[p] = "ended" /\ qp[p] # "ERR")
            BY <2>4, <5>1 DEF ServerFits
          <5> QED
            BY <5>4, <5>5, <5>6
        <4>3. pc[p] = "sent" => Undelivered(p) \/ Delivered(p)
          BY <1>1 DEF NodeFits, QueuesFit, Undelivered, Sending, Delivered
        <4> QED
          BY <1>1, <4>2, <4>3 DEF TypeOK, PC, Undelivered, Empty, Got
      <3> QED
        BY <1>1, <3>1, <3>2 DEF TypeOK
    <2>6. role[p] = "server"
      BY <1>1, <1>2, <2>4 DEF NodeFits, Fits, TypeOK
    <2> QED
      BY <2>1, <2>2, <2>3, <2>4, <2>5, <2>6
  <1>3. TypeOK'
    <2>1. pc' \in [Node -> PC]
      BY <1>1 DEF TakeAnswer, TypeOK, PC
    <2>2. calling' \in [Node -> Imm \cup {"none", "BACK"}]
      BY <1>1 DEF TakeAnswer, Return, TypeOK
    <2>3. \A m \in Node : \A i \in DOMAIN own'[m] : own'[m][i] \in DOMAIN mem[m]
      <3>1. \A i \in DOMAIN own'[n] : own'[n][i] \in DOMAIN mem[n]
        BY <1>1, <1>d DEF TypeOK
      <3> QED
        BY <1>1, <1>2, <3>1 DEF TypeOK
    <2> QED
      BY <1>1, <1>2, <2>1, <2>2, <2>3 DEF TypeOK
  <1>4. PartsFit'
    BY <1>1, <1>2 DEF PartsFit, TypeOK, Node
  <1>5. Shape'
    BY <1>1, <1>2 DEF TakeAnswer, Return, Shape
  <1>6. QueuesFit(n, p)'
    BY <1>1, <1>2, <1>e, Singles DEF NodeFits, QueuesFit, Message, Single, Sending, Delivered,
       Undelivered, Empty, Got
  <1>7. QueuesFit(p, n)'
    BY <1>1, <1>2, <1>e DEF NodeFits, QueuesFit, Message, Sending
  <1>8. CallsFit(n)'
    BY <1>1, <1>2, <1>e DEF NodeFits, CallsFit
  <1>9. CallsFit(p)'
    BY <1>1, <1>2, <1>e DEF NodeFits, CallsFit
  <1>10. RegionsFit(n)'
    <2>1. (Kept(n)' <=> Kept(n)) /\ ~ Active(n)'
      BY <1>2 DEF Kept, Active
    <2> QED
      BY <1>1, <1>2, <1>d, <1>e, <2>1 DEF RegionsFit
  <1>11. RegionsFit(p)'
    BY <1>1, <1>2, <1>e DEF NodeFits, RegionsFit, Kept, Active
  <1>12. SocketFits(n, p)'
    BY <1>1, <1>2, <1>e DEF NodeFits, SocketFits, Unread
  <1>13. SocketFits(p, n)'
    BY <1>1, <1>2, <1>e DEF NodeFits, SocketFits, Unread
  <1>14. RemoteFits(n, p)'
    BY <1>1, <1>2, <1>e DEF NodeFits, RemoteFits, Sending
  <1>15. RemoteFits(p, n)'
    BY <1>1, <1>2, <1>e, Singles DEF NodeFits, RemoteFits, SocketFits, Unread, Fits,
       ServerFits, CallsFit, QueuesFit, Sending, Delivered, Undelivered, Empty, Got, Starting,
       Offering, Requesting, Expecting, Interrupted, Final, Away, Over
  <1>16. Fits(n, p)'
    BY <1>1, <1>2, <1>e DEF NodeFits, Fits, ServerFits
  <1>17. Fits(p, n)'
    BY <1>1, <1>2, <1>s, <1>e DEF NodeFits, Fits, ServerFits, CallsFit, QueuesFit, SamePlace,
       Undelivered, Sending, Delivered, Empty, Got, Starting, Offering, Requesting, Expecting,
       Interrupted, Final, Away, Over, TypeOK
  <1> QED
    BY <1>1, <1>3, <1>4, <1>5, <1>6, <1>7, <1>8, <1>9, <1>10, <1>11,
       <1>12, <1>13, <1>14, <1>15, <1>16, <1>17, After DEF NodeFits, Pair

\* The last call of a session returns.
LEMMA ReturnLastKeeps ==
    ASSUME SessionInv, NEW n, NEW p, Pair(n, p),
           TakeAnswer(n), calling[n] # "BACK", ~ (calling[n] = "WRITE" /\ Head(recvCQ[n]) = "INVALIDATE"),
           todo[n] = << >>
    PROVE  SessionInv'
  <1>1. /\ TypeOK /\ Shape /\ PartsFit /\ NodeFits(n, p) /\ NodeFits(p, n)
        /\ Quiet(n) /\ Quiet(p)
        /\ n \in Node /\ p \in Node /\ n # p /\ Peer(n) = p /\ Peer(p) = n /\ Node = {n, p}
    BY Before DEF Pair
  <1>d. /\ own[n] \in Seq(Nat) /\ Len(own[n]) = (IF Kept(n) THEN 1 ELSE 0) + 1
        /\ own'[n] \in Seq(Nat) /\ Len(own'[n]) = Len(own[n]) - 1 /\ own'[p] = own[p]
        /\ \A i \in DOMAIN own'[n] : i \in DOMAIN own[n] /\ own'[n][i] = own[n][i]
        /\ answered'[n] = asked[n] /\ answered'[p] = answered[p]
        /\ calling'[n] = "none" /\ calling'[p] = calling[p]
    <2>1. Return(n)
      BY DEF TakeAnswer
    <2>2. RegionsFit(n) /\ Got(n) /\ role[n] = "client"
      BY <1>1 DEF TakeAnswer, At, Got, NodeFits
    <2>3. own[n] \in Seq(Nat) /\ Len(own[n]) = (IF Kept(n) THEN 1 ELSE 0) + 1 /\ mem[n][Last(own[n])] = asked[n]
      BY <2>2 DEF RegionsFit, Active, Got
    <2>4. own'[n] = Front(own[n]) /\ own'[p] = own[p]
      BY <1>1, <2>1 DEF Return, Shape
    <2>5. Len(own[n]) = 1 \/ Len(own[n]) = 2
      BY <2>3
    <2>6. /\ answered'[n] = asked[n] /\ answered'[p] = answered[p]
          /\ calling'[n] = "none" /\ calling'[p] = calling[p]
      <3>1. answered' = [answered EXCEPT ![n] = asked[n]] /\ calling' = [calling EXCEPT ![n] = "none"]
        <4>1. answered' = [answered EXCEPT ![n] = mem[n][Last(own[n])]]
          BY <2>1 DEF Return, Content
        <4>2. calling' = [calling EXCEPT ![n] = "none"]
          BY <2>1 DEF Return
        <4> QED
          BY <2>3, <4>1, <4>2
      <3> QED
        BY <1>1, <3>1 DEF Shape, TypeOK
    <2>7. /\ Front(own[n]) \in Seq(Nat) /\ Len(Front(own[n])) = Len(own[n]) - 1
          /\ \A i \in DOMAIN Front(own[n]) : i \in DOMAIN own[n] /\ Front(own[n])[i] = own[n][i]
      BY <2>3, <2>5, LowerRegion
    <2> QED
      BY <2>3, <2>4, <2>6, <2>7
  <1>2. /\ role[n] = "client" /\ pc[n] = "wait" /\ pc'[n] = "close" /\ pc'[p] = pc[p] /\ todo[n] = << >>
        /\ recvCQ'[n] = << >> /\ recvCQ'[p] = recvCQ[p]
        /\ calling[n] # "BACK" /\ calling[n] # "none" /\ calling'[n] = "none" /\ calling'[p] = calling[p]
        /\ answered'[n] = asked[n] /\ answered'[p] = answered[p] /\ own'[p] = own[p]
        /\ UNCHANGED <<role, todo, serving, socket, remote, mem, qp, posted, wire, sendCQ,
                       sessions, asked, handled>>
    <2>1. Tail(recvCQ[n]) = << >>
      <3>1. QueuesFit(n, p) /\ recvCQ[n] # << >>
        BY <1>1 DEF NodeFits, TakeAnswer
      <3> QED
        BY <3>1, Received
    <2>2. recvCQ' = [recvCQ EXCEPT ![n] = << >>] /\ pc' = [pc EXCEPT ![n] = "close"]
      BY <2>1 DEF TakeAnswer
    <2>3. /\ UNCHANGED <<role, todo, serving, socket, remote, mem, qp, posted, wire, sendCQ,
                         sessions, asked, handled>>
          /\ role[n] = "client" /\ pc[n] = "wait"
      BY DEF TakeAnswer, At
    <2>4. calling[n] # "none"
      BY <1>1, <2>3 DEF NodeFits, CallsFit
    <2> QED
      BY <1>1, <1>d, <2>2, <2>3, <2>4 DEF TypeOK, Shape
  <1>s. Still(p) /\ SamePlace(p)
    BY <1>1, <1>2, Standing DEF Still
  <1>e. /\ ~ Undelivered(n)' /\ ~ Delivered(n)' /\ ~ Empty(n)' /\ ~ Got(n)'
        /\ Got(n) /\ ~ Undelivered(n) /\ Over(n) /\ Away(n)' /\ Over(n)'
        /\ ~ Starting(n) /\ ~ Interrupted(n) /\ ~ Expecting(n)
        /\ handled[n] = asked[n]
    <2>1. ~ Undelivered(n)' /\ ~ Delivered(n)' /\ ~ Empty(n)' /\ ~ Got(n)'
      BY <1>1, <1>2, Singles DEF Quiet, Sending, Undelivered, Delivered, Empty, Got
    <2>2. Got(n) /\ ~ Undelivered(n) /\ ~ Delivered(n) /\ recvCQ[n] # << >>
      <3>1. recvCQ[n] # << >>
        BY DEF TakeAnswer
      <3> QED
        BY <1>1, <1>2, <3>1, Singles DEF Quiet, Sending, Undelivered, Delivered, Got
    <2>3. handled[n] = asked[n]
      BY <1>1, <1>2, <2>2 DEF NodeFits, CallsFit
    <2>4. /\ Final(n) => Over(n) /\ Away(n)' /\ Over(n)'
          /\ ~ Starting(n) /\ ~ Interrupted(n) /\ ~ Expecting(n) /\ ~ Away(n)
      BY <1>2, <2>2 DEF Empty, Got, Starting, Offering, Requesting, Expecting, Interrupted, Final,
         Away, Over
    <2>5. Final(n)
      <3>1. CASE role[p] = "client"
        BY <1>1, <1>2, <2>4, <3>1 DEF NodeFits, Fits, Over
      <3>2. CASE role[p] = "server"
        <4>1. Final(n) \/ (~ Over(n) /\ ~ Requesting(n))
          BY <1>2, <2>2, <2>4 DEF Over, Requesting
        <4>2. ASSUME ~ Final(n)
              PROVE  /\ pc[p] \notin {"idle", "listen", "address", "ready", "exchange", "close", "stuck"}
                     /\ ~ Empty(p) /\ ~ Got(p) /\ ~ Undelivered(p) /\ ~ Delivered(p)
                     /\ ~ (pc[p] = "ended" /\ qp[p] # "ERR")
          <5>1. ServerFits(p, n)
            BY <1>1, <3>2 DEF NodeFits, Fits
          <5>2. pc[p] # "idle"
            BY <1>1, <3>2 DEF NodeFits, CallsFit
          <5>3. ~ Offering(n) /\ role[n] = "client" /\ pc[n] = "wait" /\ ~ Requesting(n) /\ ~ Over(n)
            BY <1>2, <4>1, <4>2 DEF Offering
          <5>4. /\ pc[p] \notin {"idle", "listen", "address", "ready", "exchange", "close"}
                /\ ~ Empty(p) /\ ~ Got(p)
            BY <2>4, <4>2, <5>1, <5>2, <5>3 DEF ServerFits
          <5>5. ~ Undelivered(p) /\ ~ Delivered(p)
            BY <2>4, <4>2, <5>1, <5>3 DEF ServerFits
          <5>6. pc[p] # "stuck" /\ ~ (pc[p] = "ended" /\ qp[p] # "ERR")
            BY <2>4, <5>1 DEF ServerFits
          <5> QED
            BY <5>4, <5>5, <5>6
        <4>3. pc[p] = "sent" => Undelivered(p) \/ Delivered(p)
          BY <1>1 DEF NodeFits, QueuesFit, Undelivered, Sending, Delivered
        <4> QED
          BY <1>1, <4>2, <4>3 DEF TypeOK, PC, Undelivered, Empty, Got
      <3> QED
        BY <1>1, <3>1, <3>2 DEF TypeOK
    <2>6. Over(n)
      BY <2>4, <2>5
    <2> QED
      BY <2>1, <2>2, <2>3, <2>4, <2>5, <2>6
  <1>3. TypeOK'
    <2>1. pc' \in [Node -> PC]
      BY <1>1 DEF TakeAnswer, TypeOK, PC
    <2>2. calling' \in [Node -> Imm \cup {"none", "BACK"}]
      BY <1>1 DEF TakeAnswer, Return, TypeOK
    <2>3. \A m \in Node : \A i \in DOMAIN own'[m] : own'[m][i] \in DOMAIN mem[m]
      <3>1. \A i \in DOMAIN own'[n] : own'[n][i] \in DOMAIN mem[n]
        BY <1>1, <1>d DEF TypeOK
      <3> QED
        BY <1>1, <1>2, <3>1 DEF TypeOK
    <2> QED
      BY <1>1, <1>2, <2>1, <2>2, <2>3 DEF TypeOK
  <1>4. PartsFit'
    BY <1>1, <1>2 DEF PartsFit, TypeOK, Node
  <1>5. Shape'
    BY <1>1, <1>2 DEF TakeAnswer, Return, Shape
  <1>6. QueuesFit(n, p)'
    BY <1>1, <1>2, <1>e, Singles DEF NodeFits, QueuesFit, Message, Single, Sending, Delivered,
       Undelivered, Empty, Got
  <1>7. QueuesFit(p, n)'
    BY <1>1, <1>2, <1>e DEF NodeFits, QueuesFit, Message, Sending
  <1>8. CallsFit(n)'
    BY <1>1, <1>2, <1>e DEF NodeFits, CallsFit
  <1>9. CallsFit(p)'
    BY <1>1, <1>2, <1>s DEF NodeFits, CallsFit, SamePlace
  <1>10. RegionsFit(n)'
    <2>1. (Kept(n)' <=> Kept(n)) /\ ~ Active(n)'
      BY <1>2 DEF Kept, Active
    <2> QED
      BY <1>1, <1>2, <1>d, <1>e, <2>1 DEF RegionsFit
  <1>11. RegionsFit(p)'
    BY <1>1, <1>2, <1>s DEF NodeFits, RegionsFit, Kept, Active, SamePlace
  <1>12. SocketFits(n, p)'
    BY <1>1, <1>2, <1>e DEF NodeFits, SocketFits, Unread
  <1>13. SocketFits(p, n)'
    BY <1>1, <1>2, <1>e DEF NodeFits, SocketFits, Unread
  <1>14. RemoteFits(n, p)'
    BY <1>1, <1>2, <1>e DEF NodeFits, RemoteFits, Sending
  <1>15. RemoteFits(p, n)'
    <2>1. CASE role[p] = "server"
      <3>1. ~ Empty(p) /\ ~ Got(p) /\ ~ Undelivered(p) /\ ~ (Delivered(p) /\ serving[p] = "first")
        BY <1>1, <1>2, <1>e, <2>1 DEF NodeFits, Fits, ServerFits, Requesting
      <3> QED
        BY <1>1, <1>2, <1>s, <2>1, <3>1 DEF RemoteFits, SamePlace, Undelivered, Sending,
           Delivered, Empty, Got
    <2>2. CASE role[p] = "client"
      <3>1. Over(p)
        BY <1>1, <1>2, <2>2 DEF NodeFits, Fits
      <3> QED
        BY <1>1, <1>2, <2>2, <3>1 DEF RemoteFits, Sending, Over, Away, Final, Got
    <2> QED
      BY <1>1, <2>1, <2>2 DEF TypeOK
  <1>16. Fits(n, p)'
    BY <1>1, <1>2, <1>s, <1>e DEF NodeFits, Fits, ServerFits, SamePlace
  <1>17. Fits(p, n)'
    BY <1>1, <1>2, <1>s, <1>e DEF NodeFits, Fits, ServerFits, CallsFit, QueuesFit, SamePlace,
       Undelivered, Sending, Delivered, Empty, Got, Starting, Offering, Requesting, Expecting,
       Interrupted, Final, Away, Over, TypeOK
  <1> QED
    BY <1>1, <1>3, <1>4, <1>5, <1>6, <1>7, <1>8, <1>9, <1>10, <1>11,
       <1>12, <1>13, <1>14, <1>15, <1>16, <1>17, After DEF NodeFits, Pair

\* Of the two regions a node may have, the one of the session that ends is given
\* up; the one of a call or a handler that is interrupted is kept.
LEMMA CloseKeeps ==
    ASSUME SessionInv, NEW n, NEW p, Pair(n, p), Close(n)
    PROVE  SessionInv'
  <1>1. /\ TypeOK /\ Shape /\ PartsFit /\ NodeFits(n, p) /\ NodeFits(p, n)
        /\ Quiet(n) /\ Quiet(p)
        /\ n \in Node /\ p \in Node /\ n # p /\ Peer(n) = p /\ Peer(p) = n /\ Node = {n, p}
    BY Before DEF Pair
  <1>d. /\ pc[n] = "close" /\ calling[n] \in {"none", "BACK"}
        /\ role[n] = "server" => serving[n] \in {"last", "RESET"} /\ Over(p)
        /\ ~ (calling[n] = "BACK" /\ serving[n] = "last")
        /\ serving[n] = "last" => n = Home
        /\ own[n] \in Seq(Nat) /\ Len(own[n]) = (IF Kept(n) THEN 1 ELSE 0) + (IF role[n] = "server" THEN 1 ELSE 0)
        /\ Kept(n) <=> \/ calling[n] = "BACK"
                       \/ serving[n] = "last" /\ role[n] = "client"
        /\ role[n] = "client" /\ role[p] = "client" => Over(p)
        /\ qp[n] # "ERR" /\ sendCQ[n] = << >> /\ recvCQ[n] = << >>
    <2>1. pc[n] = "close"
      BY DEF Close
    <2>2. calling[n] \in {"none", "BACK"}
      BY <1>1, <2>1 DEF NodeFits, CallsFit, TypeOK
    <2>3. role[n] = "server" => serving[n] \in {"last", "RESET"} /\ Over(p)
      BY <1>1, <2>1 DEF NodeFits, Fits, ServerFits
    <2>4. ~ (calling[n] = "BACK" /\ serving[n] = "last") /\ (serving[n] = "last" => n = Home)
      BY <1>1 DEF PartsFit, Node
    <2>5. Kept(n) <=> \/ calling[n] = "BACK"
                      \/ serving[n] = "last" /\ role[n] = "client"
      BY <1>1, <2>1 DEF Kept
    <2>6. Active(n) <=> role[n] = "server"
      BY <2>1 DEF Active
    <2>7. own[n] \in Seq(Nat) /\ Len(own[n]) = (IF Kept(n) THEN 1 ELSE 0) + (IF role[n] = "server" THEN 1 ELSE 0)
      BY <1>1, <2>6 DEF NodeFits, RegionsFit
    <2>8. role[n] = "client" /\ role[p] = "client" => Over(p)
      BY <1>1 DEF NodeFits, Fits
    <2>9. qp[n] # "ERR" /\ sendCQ[n] = << >> /\ recvCQ[n] = << >>
      BY <1>1, <2>1 DEF Quiet
    <2> QED
      BY <2>1, <2>2, <2>3, <2>4, <2>5, <2>7, <2>8, <2>9
  <1>r. /\ role'[n] = (IF calling[n] = "BACK" \/ serving[n] = "last"
                       THEN (IF role[n] = "client" THEN "server" ELSE "client")
                       ELSE role[n])
        /\ role'[p] = role[p]
        /\ pc' = [pc EXCEPT ![n] = IF role'[n] = "client" THEN "idle" ELSE "listen"]
        /\ role' \in [Node -> {"client", "server"}]
    <2>1. role[n] = "client" \/ role[n] = "server"
      BY <1>1 DEF TypeOK
    <2> DEFINE turns == calling[n] = "BACK" \/ serving[n] = "last"
               next == IF turns = (role[n] = "client") THEN "server" ELSE "client"
    <2>2. /\ role' = [role EXCEPT ![n] = next]
          /\ pc' = [pc EXCEPT ![n] = IF next = "client" THEN "idle" ELSE "listen"]
      BY DEF Close
    <2>3. next = IF turns THEN (IF role[n] = "client" THEN "server" ELSE "client") ELSE role[n]
      BY <2>1
    <2>4. next \in {"client", "server"}
      OBVIOUS
    <2> HIDE DEF next
    <2>5. role'[n] = next /\ role'[p] = role[p] /\ role' \in [Node -> {"client", "server"}]
      BY <1>1, <2>2, <2>4 DEF TypeOK
    <2> QED
      BY <2>2, <2>3, <2>5
  <1>o. /\ own'[n] \in Seq(Nat) /\ own'[p] = own[p]
        /\ Len(own'[n]) = IF Kept(n)' THEN 1 ELSE 0
        /\ calling[n] = "BACK" => own'[n][1] = own[n][1]
        /\ \A i \in DOMAIN own'[n] : i \in DOMAIN own[n] /\ own'[n][i] = own[n][i]
    <2>1. calling' = calling /\ serving' = serving /\ pc'[n] \in {"idle", "listen"}
      <3>1. pc'[n] = IF role'[n] = "client" THEN "idle" ELSE "listen"
        BY <1>1, <1>r DEF TypeOK
      <3> QED
        BY <3>1 DEF Close
    <2>2. Kept(n)' <=> \/ calling[n] = "BACK"
                       \/ serving[n] = "last" /\ role'[n] = "client"
      <3>1. pc'[n] = "idle" \/ role'[n] = "server"
        BY <1>1, <1>r DEF TypeOK
      <3> QED
        BY <2>1, <3>1 DEF Kept
    <2>3. own'[p] = own[p]
      BY <1>1 DEF Close, Shape
    <2>4. CASE (role[n] = "server") # (serving[n] = "last")
      <3>1. own'[n] = Front(own[n])
        BY <1>1, <2>4 DEF Close, Shape
      <3>2. Len(own[n]) = (IF Kept(n)' THEN 1 ELSE 0) + 1
        BY <1>1, <1>d, <1>r, <2>2, <2>4 DEF TypeOK
      <3>3. Len(own[n]) = 1 \/ Len(own[n]) = 2
        BY <3>2
      <3>4. /\ Front(own[n]) \in Seq(Nat) /\ Len(Front(own[n])) = Len(own[n]) - 1
            /\ Len(own[n]) = 2 => Front(own[n])[1] = own[n][1]
            /\ \A i \in DOMAIN Front(own[n]) : i \in DOMAIN own[n] /\ Front(own[n])[i] = own[n][i]
        BY <1>d, <3>3, LowerRegion
      <3>5. calling[n] = "BACK" => Len(own[n]) = 2
        BY <2>2, <3>2
      <3> QED
        BY <2>3, <3>1, <3>2, <3>4, <3>5
    <2>5. CASE (role[n] = "server") = (serving[n] = "last")
      <3>1. own'[n] = own[n]
        BY <1>1, <2>5 DEF Close, Shape
      <3>2. Len(own[n]) = IF Kept(n)' THEN 1 ELSE 0
        BY <1>1, <1>d, <1>r, <2>2, <2>5 DEF TypeOK
      <3> QED
        BY <1>d, <2>3, <3>1, <3>2
    <2> QED
      BY <2>4, <2>5
  <1>2. /\ pc[n] = "close" /\ pc'[n] \in {"idle", "listen"} /\ pc'[p] = pc[p]
        /\ (pc'[n] = "idle" /\ role'[n] = "client") \/ (pc'[n] = "listen" /\ role'[n] = "server")
        /\ role'[p] = role[p] /\ own'[p] = own[p]
        /\ qp'[n] = "RESET" /\ qp'[p] = qp[p] /\ wire'[n] = << >> /\ wire'[p] = wire[p]
        /\ open'[n] = FALSE /\ open'[p] = open[p] /\ tcp'[n] = << >> /\ tcp'[p] = tcp[p]
        /\ todo'[p] = todo[p]
        /\ todo'[n] = todo[n] \/ (n = Home /\ todo'[n] = <<"INVALIDATE", "RESET">>)
        /\ UNCHANGED <<calling, serving, remote, mem, posted, sendCQ, recvCQ, history>>
    <2>1. /\ pc'[n] = (IF role'[n] = "client" THEN "idle" ELSE "listen") /\ pc'[p] = pc[p]
          /\ role'[n] = "client" \/ role'[n] = "server"
      BY <1>1, <1>r DEF TypeOK
    <2>2. /\ qp' = [qp EXCEPT ![n] = "RESET"] /\ wire' = [wire EXCEPT ![n] = << >>]
          /\ open' = [open EXCEPT ![n] = FALSE] /\ tcp' = [tcp EXCEPT ![n] = << >>]
          /\ UNCHANGED <<calling, serving, remote, mem, posted, sendCQ, recvCQ, history>>
      BY DEF Close
    <2>3. \/ todo' = todo
          \/ serving[n] = "last" /\ todo' = [todo EXCEPT ![n] = <<"INVALIDATE", "RESET">>]
      BY DEF Close, At
    <2>4. /\ qp'[n] = "RESET" /\ qp'[p] = qp[p] /\ wire'[n] = << >> /\ wire'[p] = wire[p]
          /\ open'[n] = FALSE /\ open'[p] = open[p] /\ tcp'[n] = << >> /\ tcp'[p] = tcp[p]
      BY <1>1, <2>2 DEF TypeOK, Shape
    <2>5. /\ todo'[p] = todo[p]
          /\ todo'[n] = todo[n] \/ (n = Home /\ todo'[n] = <<"INVALIDATE", "RESET">>)
      BY <1>1, <1>d, <2>3 DEF TypeOK
    <2> QED
      BY <1>d, <1>r, <1>o, <2>1, <2>2, <2>4, <2>5
  <1>s. Still(p) /\ SamePlace(p)
    BY <1>1, <1>2, Standing DEF Still
  <1>e. /\ ~ Undelivered(n)' /\ ~ Delivered(n)' /\ ~ Empty(n)' /\ ~ Got(n)'
        /\ Away(n)' /\ Over(n)' /\ ~ Undelivered(n) /\ ~ Delivered(n) /\ ~ Empty(n) /\ ~ Got(n) /\ ~ Active(n)'
        /\ role[p] = "client" => Over(p)
    <2>1. ~ Undelivered(n) /\ ~ Delivered(n) /\ ~ Empty(n) /\ ~ Got(n)
      BY <1>d DEF Undelivered, Sending, Delivered, Empty, Got
    <2>2. ~ Undelivered(n)' /\ ~ Delivered(n)' /\ ~ Empty(n)' /\ ~ Got(n)' /\ ~ Active(n)'
      BY <1>2 DEF Undelivered, Sending, Delivered, Empty, Got, Active
    <2>3. Away(n)' /\ Over(n)'
      BY <1>2 DEF Away, Over
    <2>4. role[p] = "client" => Over(p)
      BY <1>1, <1>d DEF TypeOK
    <2> QED
      BY <2>1, <2>2, <2>3, <2>4
  <1>3. TypeOK'
    <2>1. pc' \in [Node -> PC]
      <3>1. pc' = [pc EXCEPT ![n] = pc'[n]]
        BY <1>1, <1>r, <1>2 DEF TypeOK
      <3> QED
        BY <1>1, <1>2, <3>1 DEF TypeOK, PC
    <2>2. todo' \in [Node -> Seq(Imm)]
      <3>1. <<"INVALIDATE", "RESET">> \in Seq(Imm)
        BY DEF Imm
      <3>2. \E s \in Seq(Imm) : todo' = [todo EXCEPT ![n] = s]
        BY <1>1, <3>1 DEF Close, TypeOK
      <3> QED
        BY <1>1, <3>2 DEF TypeOK
    <2>3. qp' \in [Node -> {"RESET", "RTS", "ERR"}] /\ open' \in [Node -> BOOLEAN]
      BY <1>1 DEF Close, TypeOK
    <2>4. \A m \in Node : \A i \in DOMAIN own'[m] : own'[m][i] \in DOMAIN mem[m]
      <3>1. \A i \in DOMAIN own'[n] : own'[n][i] \in DOMAIN mem[n]
        BY <1>1, <1>o DEF TypeOK
      <3> QED
        BY <1>1, <1>2, <3>1 DEF TypeOK
    <2> QED
      BY <1>1, <1>2, <1>r, <2>1, <2>2, <2>3, <2>4 DEF TypeOK
  <1>4. PartsFit'
    <2>1. \A i \in DOMAIN <<"INVALIDATE", "RESET">> : <<"INVALIDATE", "RESET">>[i] # "WRITE"
      OBVIOUS
    <2> QED
      BY <1>1, <1>2, <2>1 DEF PartsFit, Node
  <1>5. Shape'
    BY <1>1 DEF Close, Shape
  <1>6. QueuesFit(n, p)'
    BY <1>1, <1>2, <1>e, Singles DEF NodeFits, QueuesFit, Message, Single, Sending,
       Undelivered, Delivered
  <1>7. QueuesFit(p, n)'
    BY <1>1, <1>2, <1>e DEF NodeFits, QueuesFit, Message, Sending
  <1>8. CallsFit(n)'
    <2>1. /\ asked[n] \in Nat /\ handled[n] \in Nat /\ answered[n] \in Nat
          /\ calling[n] = "none" => handled[n] = asked[n] /\ answered[n] = asked[n]
          /\ calling[n] # "none" => asked[n] = answered[n] + 1 /\ handled[n] \in {answered[n], asked[n]}
          /\ calling[n] = "BACK" => handled[n] = asked[n]
      BY <1>1 DEF NodeFits, CallsFit
    <2>2. \A i \in DOMAIN todo'[n] : todo'[n][i] = "RESET" => i = Len(todo'[n])
      <3>1. \A i \in DOMAIN <<"INVALIDATE", "RESET">> :
               <<"INVALIDATE", "RESET">>[i] = "RESET" => i = Len(<<"INVALIDATE", "RESET">>)
        OBVIOUS
      <3>2. \A i \in DOMAIN todo[n] : todo[n][i] = "RESET" => i = Len(todo[n])
        BY <1>1 DEF NodeFits, CallsFit
      <3> QED
        BY <1>2, <3>1, <3>2
    <2> QED
      BY <1>2, <1>d, <1>e, <2>1, <2>2 DEF CallsFit
  <1>9. CallsFit(p)'
    BY <1>1, <1>2, <1>s DEF NodeFits, CallsFit, SamePlace
  <1>10. RegionsFit(n)'
    BY <1>1, <1>2, <1>o, <1>e DEF NodeFits, RegionsFit
  <1>11. RegionsFit(p)'
    BY <1>1, <1>2, <1>s DEF NodeFits, RegionsFit, Kept, Active, SamePlace
  <1>12. SocketFits(n, p)'
    BY <1>1, <1>2, <1>e DEF NodeFits, SocketFits, Unread
  <1>13. SocketFits(p, n)'
    BY <1>1, <1>2, <1>e DEF NodeFits, SocketFits, Unread
  <1>14. RemoteFits(n, p)'
    BY <1>1, <1>2, <1>e DEF NodeFits, RemoteFits, Sending
  <1>15. RemoteFits(p, n)'
    <2>1. CASE role[p] = "server"
      <3>1. ~ Empty(p) /\ ~ Got(p) /\ ~ Undelivered(p) /\ ~ (Delivered(p) /\ serving[p] = "first")
        <4>1. ServerFits(p, n)
          BY <1>1, <2>1 DEF NodeFits, Fits
        <4> QED
          BY <1>1, <1>2, <1>e, <4>1 DEF ServerFits, Requesting, Expecting, Interrupted
      <3> QED
        BY <1>1, <1>2, <1>s, <2>1, <3>1 DEF RemoteFits, SamePlace, Undelivered, Sending,
           Delivered, Empty, Got
    <2>2. CASE role[p] = "client"
      BY <1>1, <1>2, <1>e, <2>2 DEF RemoteFits, Sending, Over, Away, Final, Got
    <2> QED
      BY <1>1, <2>1, <2>2 DEF TypeOK
  <1>16. Fits(n, p)'
    <2>1. role'[p] = "client" => Over(p)'
      BY <1>2, <1>e, <1>s DEF SamePlace
    <2>2. role'[p] = "client" \/ role'[p] = "server"
      BY <1>1, <1>2 DEF TypeOK
    <2>3. CASE role'[n] = "server"
      <3>1. pc'[n] = "listen"
        BY <1>2, <2>3
      <3> QED
        BY <1>e, <2>1, <2>2, <2>3, <3>1 DEF Fits, ServerFits
    <2>4. CASE role'[n] = "client"
      BY <2>1, <2>4 DEF Fits
    <2> QED
      BY <1>2, <2>3, <2>4
  <1>17. Fits(p, n)'
    BY <1>1, <1>2, <1>s, <1>e DEF NodeFits, Fits, ServerFits, CallsFit, QueuesFit, SamePlace,
       Undelivered, Sending, Delivered, Empty, Got, Starting, Offering, Requesting, Expecting,
       Interrupted, Final, Away, Over, TypeOK
  <1> QED
    BY <1>1, <1>3, <1>4, <1>5, <1>6, <1>7, <1>8, <1>9, <1>10, <1>11,
       <1>12, <1>13, <1>14, <1>15, <1>16, <1>17, After DEF NodeFits, Pair

\* A write that is lost leaves both where they are, but for the queue pair.
LEMMA LoseKeeps ==
    ASSUME SessionInv, NEW n, NEW p, Pair(n, p),
           Deliver(n), ~ (posted[p] > 0 /\ Contains(own[p], Head(wire[n]).region))
    PROVE  SessionInv'
  <1>1. /\ TypeOK /\ Shape /\ PartsFit /\ NodeFits(n, p) /\ NodeFits(p, n)
        /\ Quiet(n) /\ Quiet(p)
        /\ n \in Node /\ p \in Node /\ n # p /\ Peer(n) = p /\ Peer(p) = n /\ Node = {n, p}
    BY Before DEF Pair
  <1>2. /\ pc[n] = "sent" /\ sendCQ[n] = << >> /\ sendCQ'[n] = <<"ERROR">> /\ sendCQ'[p] = sendCQ[p]
        /\ wire[n] = <<Message(n, p)>> /\ wire'[n] = << >> /\ wire'[p] = wire[p]
        /\ qp[n] = "RTS" /\ qp'[n] = "ERR" /\ qp'[p] = qp[p]
        /\ UNCHANGED <<control, socket, regions, posted, recvCQ, history>>
    <2>1. Sending(n) /\ wire[n] = <<Message(n, p)>>
      BY <1>1 DEF Deliver, NodeFits, QueuesFit
    <2>2. Head(wire[n]) = Message(n, p) /\ Tail(wire[n]) = << >>
      <3>1. Head(<<Message(n, p)>>) = Message(n, p) /\ Tail(<<Message(n, p)>>) = << >>
        BY Singles
      <3> QED
        BY <2>1, <3>1
    <2>3. /\ sendCQ' = [sendCQ EXCEPT ![n] = Append(@, "ERROR")] /\ qp' = [qp EXCEPT ![n] = "ERR"]
          /\ wire' = [wire EXCEPT ![n] = Tail(@)] /\ qp[n] = "RTS"
          /\ UNCHANGED <<control, socket, remote, own, history, posted, mem, recvCQ>>
      BY <1>1 DEF Deliver
    <2>4. sendCQ[n] = << >> /\ Append(<< >>, "ERROR") = <<"ERROR">>
      BY <2>1, Singles DEF Sending
    <2> QED
      BY <1>1, <2>1, <2>2, <2>3, <2>4 DEF Sending, TypeOK, Shape
  <1>s. Still(p) /\ SamePlace(p)
    BY <1>1, <1>2, Standing DEF Still
  <1>e. /\ Undelivered(n) /\ Undelivered(n)' /\ ~ Delivered(n)' /\ ~ Empty(n)' /\ ~ Got(n)'
        /\ ~ Delivered(n) /\ ~ Empty(n) /\ ~ Got(n) /\ SamePlace(n)
    <2>1. Undelivered(n) /\ Undelivered(n)' /\ ~ Delivered(n)' /\ ~ Empty(n)' /\ ~ Got(n)'
      <3>1. <<"SUCCESS">> # <<"ERROR">>
        BY Singles
      <3> QED
        BY <1>2, <3>1 DEF Undelivered, Sending, Delivered, Empty, Got
    <2>2. ~ Delivered(n) /\ ~ Empty(n) /\ ~ Got(n)
      <3>1. <<"SUCCESS">> # << >>
        BY Singles
      <3> QED
        BY <1>2, <3>1 DEF Delivered, Empty, Got
    <2>3. SamePlace(n)
      BY <1>2, <2>1, <2>2 DEF SamePlace, Starting, Offering, Requesting, Expecting, Interrupted,
         Final, Away, Over
    <2> QED
      BY <2>1, <2>2, <2>3
  <1>3. TypeOK'
    <2>1. qp' \in [Node -> {"RESET", "RTS", "ERR"}]
      BY <1>1, <1>2 DEF Deliver, TypeOK
    <2> QED
      BY <1>1, <1>2, <2>1 DEF TypeOK
  <1>4. PartsFit'
    BY <1>1, <1>2 DEF PartsFit, TypeOK, Node
  <1>5. Shape'
    BY <1>1 DEF Deliver, Shape
  <1>6. QueuesFit(n, p)'
    BY <1>1, <1>2, <1>e DEF NodeFits, QueuesFit, Message, Sending
  <1>7. QueuesFit(p, n)'
    BY <1>1, <1>2, <1>e DEF NodeFits, QueuesFit, Message, Sending
  <1>8. CallsFit(n)'
    BY <1>1, <1>2, <1>e DEF NodeFits, CallsFit
  <1>9. CallsFit(p)'
    BY <1>1, <1>2, <1>s DEF NodeFits, CallsFit, SamePlace
  <1>10. RegionsFit(n)'
    BY <1>1, <1>2, <1>e DEF NodeFits, RegionsFit, Kept, Active
  <1>11. RegionsFit(p)'
    BY <1>1, <1>2, <1>s DEF NodeFits, RegionsFit, Kept, Active, SamePlace
  <1>12. SocketFits(n, p)'
    BY <1>1, <1>2, <1>e DEF NodeFits, SocketFits, Unread
  <1>13. SocketFits(p, n)'
    BY <1>1, <1>2, <1>e DEF NodeFits, SocketFits, Unread
  <1>14. RemoteFits(n, p)'
    BY <1>1, <1>2, <1>e DEF NodeFits, RemoteFits, Sending
  <1>15. RemoteFits(p, n)'
    BY <1>1, <1>2, <1>s, <1>e DEF NodeFits, RemoteFits, Sending, SamePlace
  <1>16. Fits(n, p)'
    BY <1>1, <1>2, <1>s, <1>e DEF NodeFits, Fits, ServerFits, SamePlace
  <1>17. Fits(p, n)'
    BY <1>1, <1>2, <1>s, <1>e DEF NodeFits, Fits, ServerFits, SamePlace
  <1> QED
    BY <1>1, <1>3, <1>4, <1>5, <1>6, <1>7, <1>8, <1>9, <1>10, <1>11,
       <1>12, <1>13, <1>14, <1>15, <1>16, <1>17, After DEF NodeFits, Pair

\* A write lands in the region its peer waits for, and nowhere else.
LEMMA ArriveKeeps ==
    ASSUME SessionInv, NEW n, NEW p, Pair(n, p),
           Deliver(n), posted[p] > 0 /\ Contains(own[p], Head(wire[n]).region)
    PROVE  SessionInv'
  <1>1. /\ TypeOK /\ Shape /\ PartsFit /\ NodeFits(n, p) /\ NodeFits(p, n)
        /\ Quiet(n) /\ Quiet(p)
        /\ n \in Node /\ p \in Node /\ n # p /\ Peer(n) = p /\ Peer(p) = n /\ Node = {n, p}
    BY Before DEF Pair
  <1>2. /\ pc[n] = "sent" /\ sendCQ[n] = << >> /\ sendCQ'[n] = <<"SUCCESS">> /\ sendCQ'[p] = sendCQ[p]
        /\ wire[n] = <<Message(n, p)>> /\ wire'[n] = << >> /\ wire'[p] = wire[p]
        /\ pc[p] = "wait" /\ recvCQ[p] = << >> /\ recvCQ'[p] = <<Message(n, p).imm>> /\ recvCQ'[n] = recvCQ[n]
        /\ posted[p] = 1 /\ posted'[p] = 0 /\ posted'[n] = posted[n]
        /\ remote[n] = Last(own[p]) /\ Last(own[p]) \in DOMAIN mem[p]
        /\ qp[n] = "RTS"
        /\ mem'[n] = mem[n] /\ mem'[p] = [mem[p] EXCEPT ![Last(own[p])] = Message(n, p).call]
        /\ UNCHANGED <<control, socket, remote, own, qp, history>>
    <2>1. Sending(n) /\ wire[n] = <<Message(n, p)>>
      BY <1>1 DEF Deliver, NodeFits, QueuesFit
    <2>2. Head(wire[n]) = Message(n, p) /\ Tail(wire[n]) = << >>
      <3>1. Head(<<Message(n, p)>>) = Message(n, p) /\ Tail(<<Message(n, p)>>) = << >>
        BY Singles
      <3> QED
        BY <2>1, <3>1
    <2>3. /\ sendCQ' = [sendCQ EXCEPT ![n] = Append(@, "SUCCESS")] /\ qp' = qp /\ qp[n] = "RTS"
          /\ wire' = [wire EXCEPT ![n] = Tail(@)] /\ posted' = [posted EXCEPT ![p] = @ - 1]
          /\ recvCQ' = [recvCQ EXCEPT ![p] = Append(@, Message(n, p).imm)]
          /\ mem' = [mem EXCEPT ![p][Message(n, p).region] = Message(n, p).call]
          /\ UNCHANGED <<control, socket, remote, own, history>>
      BY <1>1, <2>2 DEF Deliver
    <2>4. sendCQ[n] = << >> /\ Append(<< >>, "SUCCESS") = <<"SUCCESS">>
      BY <2>1, Singles DEF Sending
    <2>5. pc[p] = "wait" /\ recvCQ[p] = << >> /\ posted[p] = 1
      BY <1>1 DEF NodeFits, QueuesFit
    <2>6. Append(<< >>, Message(n, p).imm) = <<Message(n, p).imm>>
      BY Singles
    <2>7. Message(n, p).region = Last(own[p]) /\ remote[n] = Last(own[p])
      BY <1>1, <2>1 DEF NodeFits, RemoteFits, Message
    <2>8. Last(own[p]) \in DOMAIN mem[p]
      BY <1>1, <2>5, TopRegion DEF NodeFits, Active
    <2>9. mem'[n] = mem[n] /\ mem'[p] = [mem[p] EXCEPT ![Last(own[p])] = Message(n, p).call]
      BY <1>1, <2>3, <2>7 DEF TypeOK
    <2>10. /\ sendCQ'[n] = <<"SUCCESS">> /\ sendCQ'[p] = sendCQ[p] /\ wire'[n] = << >> /\ wire'[p] = wire[p]
           /\ recvCQ'[p] = <<Message(n, p).imm>> /\ recvCQ'[n] = recvCQ[n]
           /\ posted'[p] = 0 /\ posted'[n] = posted[n]
      BY <1>1, <2>2, <2>3, <2>4, <2>5, <2>6 DEF TypeOK, Shape
    <2> QED
      BY <2>1, <2>3, <2>4, <2>5, <2>7, <2>8, <2>9, <2>10 DEF Sending
  <1>e. /\ Undelivered(n) /\ ~ Delivered(n) /\ ~ Undelivered(n)' /\ Delivered(n)' /\ ~ Empty(n)' /\ ~ Got(n)'
        /\ Empty(p) /\ ~ Got(p) /\ ~ Undelivered(p) /\ ~ Delivered(p) /\ ~ Undelivered(p)'
        /\ ~ Delivered(p)' /\ ~ Empty(p)' /\ Got(p)'
    <2>1. Undelivered(n) /\ ~ Delivered(n) /\ ~ Undelivered(n)' /\ Delivered(n)' /\ ~ Empty(n)' /\ ~ Got(n)'
      <3>1. <<"SUCCESS">> # << >>
        BY Singles
      <3>2. qp'[n] = "RTS" /\ pc'[n] = "sent"
        BY <1>2
      <3> QED
        BY <1>2, <3>1, <3>2 DEF Undelivered, Sending, Delivered, Empty, Got
    <2>2. /\ Empty(p) /\ ~ Got(p) /\ ~ Undelivered(p) /\ ~ Delivered(p) /\ ~ Undelivered(p)'
          /\ ~ Delivered(p)' /\ ~ Empty(p)' /\ Got(p)'
      <3>1. <<Message(n, p).imm>> # << >>
        BY Singles
      <3>2. qp[p] # "ERR" /\ pc[p] = "wait" /\ pc'[p] = "wait" /\ qp'[p] = qp[p]
        BY <1>1, <1>2 DEF Quiet
      <3> QED
        BY <1>2, <3>1, <3>2 DEF Undelivered, Sending, Delivered, Empty, Got
    <2> QED
      BY <2>1, <2>2
  <1>w. mem'[p][Last(own[p])] = Message(n, p).call /\ Head(recvCQ'[p]) = Message(n, p).imm
    <2>1. Head(<<Message(n, p).imm>>) = Message(n, p).imm
      BY Singles
    <2> QED
      BY <1>2, <2>1
  <1>f. ASSUME role[n] = "client"
        PROVE  /\ role[p] = "server" /\ calling[n] \in Imm /\ handled[n] # asked[n] /\ Requesting(n)
               /\ recvCQ'[p] = <<calling[n]>> /\ mem'[p][Last(own[p])] = asked[n] /\ asked[n] \in Nat
    <2>1. Requesting(n) /\ ~ Over(n)
      BY <1>2, <1>e, <1>f DEF Requesting, Over, Away, Got, Final
    <2>2. role[p] = "server"
      BY <1>1, <1>f, <2>1 DEF NodeFits, Fits, TypeOK
    <2>3. calling[n] \in Imm /\ handled[n] # asked[n] /\ asked[n] \in Nat
      BY <1>1, <1>2, <1>e, <1>f DEF NodeFits, CallsFit, TypeOK
    <2> QED
      BY <1>2, <1>w, <1>f, <2>1, <2>2, <2>3 DEF Message
  <1>g. ASSUME role[n] = "server"
        PROVE  /\ role[p] = "client" /\ handled[p] = asked[p] /\ asked[p] \in Nat
               /\ mem'[p][Last(own[p])] = asked[p]
               /\ IF serving[n] = "last" THEN calling[p] = "BACK"
                  ELSE /\ calling[p] # "BACK"
                       /\ calling[p] = IF serving[n] = "first" THEN "WRITE" ELSE serving[n]
               /\ Head(recvCQ'[p]) = IF serving[n] = "first" THEN "INVALIDATE"
                                     ELSE IF serving[n] = "RESET" THEN "RESET" ELSE "DEFAULT"
               /\ recvCQ'[p] = <<Head(recvCQ'[p])>> /\ Head(recvCQ'[p]) \in Imm
    <2>1. /\ handled[p] = asked[p]
          /\ IF serving[n] = "last" THEN Interrupted(p)
             ELSE Expecting(p) /\ calling[p] = IF serving[n] = "first" THEN "WRITE" ELSE serving[n]
      BY <1>1, <1>e, <1>g DEF NodeFits, Fits, ServerFits
    <2>2. /\ role[p] = "client"
          /\ IF serving[n] = "last" THEN calling[p] = "BACK" ELSE calling[p] # "BACK"
      BY <1>e, <2>1 DEF Interrupted, Expecting
    <2>3. /\ Message(n, p).call = handled[p]
          /\ Message(n, p).imm = IF serving[n] = "first" THEN "INVALIDATE"
                                 ELSE IF serving[n] = "RESET" THEN "RESET" ELSE "DEFAULT"
      BY <1>g DEF Message
    <2>4. asked[p] \in Nat
      BY <1>1 DEF NodeFits, CallsFit
    <2>5. recvCQ'[p] = <<Message(n, p).imm>>
      BY <1>2
    <2> QED
      BY <1>w, <2>1, <2>2, <2>3, <2>4, <2>5 DEF Imm
  <1>3. TypeOK'
    <2>1. posted' \in [Node -> Nat]
      BY <1>1, <1>2 DEF Deliver, TypeOK
    <2>2. mem' \in [Node -> Seq(Nat)] /\ DOMAIN mem'[p] = DOMAIN mem[p]
      <3>1. Message(n, p).call \in Nat
        BY <1>1 DEF Message, NodeFits, CallsFit
      <3>2. mem[p] \in Seq(Nat)
        BY <1>1 DEF TypeOK
      <3>3. /\ [mem[p] EXCEPT ![Last(own[p])] = Message(n, p).call] \in Seq(Nat)
            /\ DOMAIN [mem[p] EXCEPT ![Last(own[p])] = Message(n, p).call] = DOMAIN mem[p]
        BY <1>2, <3>1, <3>2
      <3>4. \E s \in Seq(Nat) : mem' = [mem EXCEPT ![p] = s] /\ DOMAIN s = DOMAIN mem[p]
        <4>1. mem' = [mem EXCEPT ![p] = mem'[p]]
          BY <1>1, <1>2 DEF Deliver, TypeOK
        <4> QED
          BY <1>2, <3>3, <4>1
      <3> QED
        BY <1>1, <3>4 DEF TypeOK
    <2>3. \A m \in Node : \A i \in DOMAIN own[m] : own[m][i] \in DOMAIN mem'[m]
      BY <1>1, <1>2, <2>2 DEF TypeOK
    <2> QED
      BY <1>1, <1>2, <2>1, <2>2, <2>3 DEF TypeOK
  <1>4. PartsFit'
    BY <1>1, <1>2 DEF PartsFit, TypeOK, Node
  <1>5. Shape'
    BY <1>1 DEF Deliver, Shape
  <1>6. QueuesFit(n, p)'
    BY <1>1, <1>2, <1>e DEF NodeFits, QueuesFit, Message, Sending
  <1>7. QueuesFit(p, n)'
    <2>1. recvCQ'[p] = <<Message(n, p).imm>> /\ Message(n, p).imm \in Imm
      BY <1>1, <1>2, <1>w, <1>f, <1>g DEF TypeOK, Message
    <2>2. <<Message(n, p).imm>> # << >> /\ \A x \in Imm : <<x>> \in Single(Imm)
      BY Singles DEF Single
    <2>3. recvCQ'[p] \in Single(Imm) \cup {<< >>} /\ recvCQ'[p] # << >>
      BY <2>1, <2>2
    <2>4. ~ Sending(p) /\ ~ Sending(p)'
      BY <1>2 DEF Sending
    <2> QED
      BY <1>1, <1>2, <2>3, <2>4 DEF NodeFits, QueuesFit
  <1>8. CallsFit(n)'
    BY <1>1, <1>2, <1>e DEF NodeFits, CallsFit
  <1>9. CallsFit(p)'
    <2>1. role[p] = "client" => handled[p] = asked[p]
      BY <1>1, <1>f, <1>g DEF TypeOK
    <2> QED
      BY <1>1, <1>2, <1>e, <2>1 DEF NodeFits, CallsFit, Got, Empty
  <1>10. RegionsFit(n)'
    BY <1>1, <1>2, <1>e DEF NodeFits, RegionsFit, Kept, Active
  <1>11. RegionsFit(p)'
    <2>1. (Kept(p)' <=> Kept(p)) /\ (Active(p)' <=> Active(p)) /\ Active(p)
      BY <1>2 DEF Kept, Active
    <2>2. Last(own[p]) = own[p][Len(own[p])] /\ (Len(own[p]) = 1 \/ Len(own[p]) = 2)
      BY <1>1, <2>1, TopRegion DEF NodeFits
    <2>3. role[p] = "client" => mem'[p][Last(own[p])] = asked[p]
      BY <1>1, <1>f, <1>g DEF TypeOK
    <2>4. ASSUME calling[p] = "BACK" PROVE mem'[p][own[p][1]] = asked[p]
      <3>1. CASE role[p] = "server"
        <4>1. Len(own[p]) = 2 /\ own[p][1] # own[p][2] /\ mem[p][own[p][1]] = asked[p]
          BY <1>1, <2>1, <2>4, <3>1 DEF NodeFits, RegionsFit, Kept
        <4>2. Last(own[p]) = own[p][2]
          BY <2>2, <4>1
        <4> QED
          BY <1>2, <4>1, <4>2
      <3>2. CASE role[p] = "client"
        <4>1. ~ Kept(p)
          BY <1>1, <1>2, <2>4, <3>2 DEF PartsFit, Kept, Node
        <4>2. Len(own[p]) = 1
          BY <1>1, <2>1, <4>1 DEF NodeFits, RegionsFit
        <4> QED
          BY <2>2, <2>3, <3>2, <4>2
      <3> QED
        BY <1>1, <3>1, <3>2 DEF TypeOK
    <2> QED
      BY <1>1, <1>2, <2>1, <2>3, <2>4 DEF NodeFits, RegionsFit
  <1>12. SocketFits(n, p)'
    BY <1>1, <1>2, <1>e DEF NodeFits, SocketFits, Unread
  <1>13. SocketFits(p, n)'
    BY <1>1, <1>2, <1>e DEF NodeFits, SocketFits, Unread
  <1>14. RemoteFits(n, p)'
    BY <1>1, <1>2, <1>e DEF NodeFits, RemoteFits, Sending
  <1>15. RemoteFits(p, n)'
    BY <1>1, <1>2, <1>e DEF NodeFits, RemoteFits, Sending
  <1>16. Fits(n, p)'
    <2>1. CASE role[n] = "client"
      BY <1>2, <1>f, <2>1 DEF Fits
    <2>2. CASE role[n] = "server"
      <3>1. /\ Delivered(n)' /\ pc'[n] = "sent" /\ role'[p] = "client" /\ calling'[p] = calling[p]
            /\ todo'[p] = todo[p]
        BY <1>2, <1>e, <1>g, <2>2
      <3>2. calling[p] = "RESET" => todo[p] = << >>
        BY <1>1 DEF NodeFits, CallsFit
      <3>3. serving[n] = "first" => Interrupted(p)'
        BY <1>e, <1>g, <2>2, <3>1 DEF Interrupted
      <3>4. serving[n] \in {"last", "RESET"} => Over(p)'
        BY <1>e, <1>g, <2>2, <3>1, <3>2 DEF Over, Final
      <3>5. serving[n] \notin {"first", "last", "RESET"} => Final(p)'
        BY <1>e, <1>g, <2>2, <3>1 DEF Final
      <3> QED
        BY <1>2, <1>e, <2>2, <3>1, <3>3, <3>4, <3>5 DEF Fits, ServerFits
    <2> QED
      BY <1>1, <2>1, <2>2 DEF TypeOK
  <1>17. Fits(p, n)'
    <2>1. CASE role[n] = "client"
      <3>1. Expecting(n)'
        BY <1>2, <1>e, <1>f, <2>1 DEF Expecting, Imm
      <3> QED
        BY <1>2, <1>e, <1>f, <2>1, <3>1 DEF Fits, ServerFits
    <2>2. CASE role[n] = "server"
      BY <1>2, <1>g, <2>2 DEF Fits
    <2> QED
      BY <1>1, <2>1, <2>2 DEF TypeOK
  <1> QED
    BY <1>1, <1>3, <1>4, <1>5, <1>6, <1>7, <1>8, <1>9, <1>10, <1>11,
       <1>12, <1>13, <1>14, <1>15, <1>16, <1>17, After DEF NodeFits, Pair

\* A client that is idle begins a session.
LEMMA BeginKeeps ==
    ASSUME SessionInv, NEW n, NEW p, Pair(n, p), Begin, n = Caller
    PROVE  SessionInv'
  <1>1. /\ TypeOK /\ Shape /\ PartsFit /\ NodeFits(n, p) /\ NodeFits(p, n)
        /\ Quiet(n) /\ Quiet(p)
        /\ n \in Node /\ p \in Node /\ n # p /\ Peer(n) = p /\ Peer(p) = n /\ Node = {n, p}
    BY Before DEF Pair
  <1>2. /\ role[n] = "client" /\ pc[n] = "idle" /\ todo'[p] = todo[p] /\ n = Caller
        /\ todo'[n] \in Seq(Imm) /\ \A i \in DOMAIN todo'[n] : todo'[n][i] = "RESET" => i = Len(todo'[n])
        /\ UNCHANGED <<role, pc, calling, serving, socket, regions, qp, queues, asked, handled, answered>>
    <2>1. PICK s \in Programs : todo' = [todo EXCEPT ![n] = s]
      BY DEF Begin
    <2>2. s \in Seq(Imm) /\ \A i \in DOMAIN s : s[i] = "RESET" => i = Len(s)
      BY TransportAssumption
    <2>3. todo'[n] = s /\ todo'[p] = todo[p]
      BY <1>1, <2>1 DEF TypeOK
    <2> QED
      BY <2>2, <2>3 DEF Begin, At
  <1>s. Still(p) /\ SamePlace(p)
    BY <1>1, <1>2, Standing DEF Still
  <1>e. /\ ~ Undelivered(n)' /\ ~ Delivered(n)' /\ ~ Empty(n)' /\ ~ Got(n)'
        /\ ~ Undelivered(n) /\ ~ Delivered(n) /\ ~ Empty(n) /\ ~ Got(n) /\ Away(n) /\ Away(n)' /\ SamePlace(n)
    <2>1. /\ ~ Undelivered(n)' /\ ~ Delivered(n)' /\ ~ Empty(n)' /\ ~ Got(n)'
          /\ ~ Undelivered(n) /\ ~ Delivered(n) /\ ~ Empty(n) /\ ~ Got(n)
      BY <1>1, <1>2 DEF Quiet, Undelivered, Sending, Delivered, Empty, Got
    <2>2. Away(n) /\ Away(n)'
      BY <1>2 DEF Away
    <2>3. SamePlace(n)
      BY <1>2, <2>1, <2>2 DEF SamePlace, Starting, Offering, Requesting, Expecting, Interrupted,
         Final, Away, Over
    <2> QED
      BY <2>1, <2>2, <2>3
  <1>3. TypeOK'
    <2>1. todo' \in [Node -> Seq(Imm)] /\ sessions' \in 0 .. MaxSessions
      <3>1. \E s \in Seq(Imm) : todo' = [todo EXCEPT ![n] = s]
        BY TransportAssumption DEF Begin
      <3>2. todo' \in [Node -> Seq(Imm)]
        BY <1>1, <3>1 DEF TypeOK
      <3>3. sessions' = sessions + 1 /\ sessions < MaxSessions /\ sessions \in 0 .. MaxSessions
        BY <1>1 DEF Begin, TypeOK
      <3> QED
        BY <3>2, <3>3, TransportAssumption
    <2> QED
      BY <1>1, <1>2, <2>1 DEF TypeOK
  <1>4. PartsFit'
    BY <1>1, <1>2, TransportAssumption DEF PartsFit, TypeOK, Node
  <1>5. Shape'
    BY <1>1 DEF Begin, Shape
  <1>6. QueuesFit(n, p)'
    BY <1>1, <1>2, <1>e DEF NodeFits, QueuesFit, Message, Sending
  <1>7. QueuesFit(p, n)'
    BY <1>1, <1>2, <1>e DEF NodeFits, QueuesFit, Message, Sending
  <1>8. CallsFit(n)'
    BY <1>1, <1>2, <1>e DEF NodeFits, CallsFit
  <1>9. CallsFit(p)'
    BY <1>1, <1>2, <1>s DEF NodeFits, CallsFit, SamePlace
  <1>10. RegionsFit(n)'
    BY <1>1, <1>2, <1>e DEF NodeFits, RegionsFit, Kept, Active
  <1>11. RegionsFit(p)'
    BY <1>1, <1>2, <1>s DEF NodeFits, RegionsFit, Kept, Active, SamePlace
  <1>12. SocketFits(n, p)'
    BY <1>1, <1>2, <1>e DEF NodeFits, SocketFits, Unread
  <1>13. SocketFits(p, n)'
    BY <1>1, <1>2, <1>e DEF NodeFits, SocketFits, Unread
  <1>14. RemoteFits(n, p)'
    BY <1>1, <1>2, <1>e DEF NodeFits, RemoteFits, Sending
  <1>15. RemoteFits(p, n)'
    BY <1>1, <1>2, <1>s, <1>e DEF NodeFits, RemoteFits, Sending, SamePlace
  <1>16. Fits(n, p)'
    BY <1>1, <1>2, <1>s, <1>e DEF NodeFits, Fits, ServerFits, SamePlace
  <1>17. Fits(p, n)'
    BY <1>1, <1>2, <1>s, <1>e DEF NodeFits, Fits, ServerFits, SamePlace
  <1> QED
    BY <1>1, <1>3, <1>4, <1>5, <1>6, <1>7, <1>8, <1>9, <1>10, <1>11,
       <1>12, <1>13, <1>14, <1>15, <1>16, <1>17, After DEF NodeFits, Pair

-----------------------------------------------------------------------------
\* Every step of a node or of the network keeps the invariant.
LEMMA StepKeeps == ASSUME SessionInv, [Next]_vars PROVE SessionInv'
  <1>1. ASSUME NEW n \in Node, NEW p, Pair(n, p), NodeStep(n) PROVE SessionInv'
    <2>1. CASE PollSend(n)
      <3>1. role[n] = "client" \/ role[n] = "server"
        BY <1>1 DEF SessionInv, TypeOK
      <3> QED
        BY <1>1, <2>1, <3>1, FailKeeps, SentKeeps, SentFirstKeeps, SentLastKeeps, SentAnswerKeeps
    <2>2. CASE TakeAnswer(n)
      BY <1>1, <2>2, TakeLastKeeps, TakeFirstKeeps, ReturnKeeps, ReturnLastKeeps
    <2>3. CASE Connect(n)
      BY <1>1, <2>3, ConnectKeeps
    <2>4. CASE ConnectQueuePair(n)
      BY <1>1, <2>4, ConnectQueuePairKeeps
    <2>5. CASE Offer(n)
      BY <1>1, <2>5, OfferKeeps
    <2>6. CASE ReadRegion(n)
      BY <1>1, <2>6, ReadRegionKeeps
    <2>7. CASE EndOfStream(n)
      BY <1>1, <2>7, EndOfStreamKeeps
    <2>8. CASE Post(n)
      BY <1>1, <2>8, PostKeeps
    <2>9. CASE PostReceive(n)
      BY <1>1, <2>9, PostReceiveKeeps
    <2>10. CASE TakeRequest(n)
      BY <1>1, <2>10, TakeRequestKeeps
    <2>11. CASE Close(n)
      BY <1>1, <2>11, CloseKeeps
    <2> QED
      BY <1>1, <2>1, <2>2, <2>3, <2>4, <2>5, <2>6, <2>7, <2>8, <2>9, <2>10, <2>11 DEF NodeStep
  <1>2. ASSUME NEW n \in Node, NEW p, Pair(n, p), Deliver(n) PROVE SessionInv'
    BY <1>2, LoseKeeps, ArriveKeeps
  <1>3. ASSUME Begin PROVE SessionInv'
    BY <1>3, Pairs, BeginKeeps DEF Node
  <1>4. ASSUME UNCHANGED vars PROVE SessionInv'
    <2>1. \A n \in Node : Still(n)
      BY <1>4 DEF vars, Still
    <2>2. \A n \in Node : SamePlace(n)
      BY <2>1, Standing
    <2>3. TypeOK' /\ Shape' /\ PartsFit'
      BY <1>4 DEF vars, SessionInv, TypeOK, Shape, PartsFit
    <2>4. ASSUME NEW n \in Node PROVE NodeFits(n, Peer(n))'
      <3>1. SamePlace(n) /\ SamePlace(Peer(n)) /\ Peer(n) \in Node /\ NodeFits(n, Peer(n))
        BY <2>2, Pairs DEF Pair, SessionInv
      <3>2. QueuesFit(n, Peer(n))' /\ CallsFit(n)' /\ RegionsFit(n)'
        BY <1>4, <3>1 DEF vars, NodeFits, QueuesFit, Message, CallsFit, RegionsFit, SamePlace,
           Sending, Kept, Active
      <3>3. SocketFits(n, Peer(n))' /\ RemoteFits(n, Peer(n))'
        BY <1>4, <3>1 DEF vars, NodeFits, SocketFits, RemoteFits, Unread, SamePlace, Sending
      <3>4. Fits(n, Peer(n))'
        BY <1>4, <3>1 DEF vars, NodeFits, Fits, ServerFits, SamePlace
      <3> QED
        BY <3>2, <3>3, <3>4 DEF NodeFits
    <2> QED
      BY <2>3, <2>4 DEF SessionInv
  <1> QED
    BY <1>1, <1>2, <1>3, <1>4, Pairs DEF Next

LEMMA Beginning == Init => SessionInv
  <1> SUFFICES ASSUME Init PROVE SessionInv
    OBVIOUS
  <1>1. Home # Caller
    BY TransportAssumption
  <1>2. TypeOK
    BY <1>1, TransportAssumption DEF Init, TypeOK, PC, Imm, Node
  <1>3. Shape
    BY DEF Init, Shape
  <1>4. PartsFit
    BY DEF Init, PartsFit, Node
  <1>5. ASSUME NEW n \in Node PROVE NodeFits(n, Peer(n))
    <2>1. /\ Peer(n) \in Node /\ Peer(n) # n
          /\ pc[n] = (IF n = Home THEN "listen" ELSE "idle")
          /\ pc[Peer(n)] = (IF n = Home THEN "idle" ELSE "listen")
          /\ role[n] = IF n = Home THEN "server" ELSE "client"
          /\ role[Peer(n)] = IF n = Home THEN "client" ELSE "server"
      BY <1>1 DEF Init, Peer, Node
    <2>2. /\ todo[n] = << >> /\ calling[n] = "none" /\ serving[n] = "none" /\ tcp[n] = << >>
          /\ open[n] = FALSE /\ own[n] = << >> /\ mem[n] = << >> /\ qp[n] = "RESET"
          /\ posted[n] = 0 /\ wire[n] = << >> /\ sendCQ[n] = << >> /\ recvCQ[n] = << >>
          /\ asked[n] = 0 /\ handled[n] = 0 /\ answered[n] = 0
      BY DEF Init
    <2>3. QueuesFit(n, Peer(n))
      BY <2>1, <2>2, Singles DEF QueuesFit, Sending
    <2>4. CallsFit(n)
      BY <2>1, <2>2 DEF CallsFit, Got, Undelivered, Sending
    <2>5. RegionsFit(n)
      BY <2>1, <2>2 DEF RegionsFit, Kept, Active, Got
    <2>6. SocketFits(n, Peer(n)) /\ RemoteFits(n, Peer(n))
      BY <2>1, <2>2 DEF SocketFits, RemoteFits, Sending
    <2>7. Fits(n, Peer(n))
      BY <2>1, <2>2 DEF Fits, ServerFits, Over, Away, Empty, Got, Undelivered, Delivered, Sending
    <2> QED
      BY <2>3, <2>4, <2>5, <2>6, <2>7 DEF NodeFits
  <1> QED
    BY <1>2, <1>3, <1>4, <1>5 DEF SessionInv

\* Whatever has happened, the two nodes are in places that fit each other.
THEOREM SessionInvariant == Spec => []SessionInv
  <1>1. SessionInv /\ [Next]_vars => SessionInv'
    BY StepKeeps
  <1> QED
    BY <1>1, Beginning, PTL DEF Spec

\* Types are kept, a session begins with empty queues, and a write under way
\* meets a connected queue pair and a registered region.
THEOREM TransportInvariant == Spec => []TransportInv
  <1>1. SessionInv => TransportInv
    <2> SUFFICES ASSUME SessionInv PROVE TransportInv
      OBVIOUS
    <2>1. ASSUME NEW n \in Node, pc[n] \in {"idle", "listen", "address"}
          PROVE  posted[n] = 0 /\ wire[n] = << >> /\ sendCQ[n] = << >> /\ recvCQ[n] = << >>
      BY <2>1, Quietness DEF SessionInv, NodeFits, QueuesFit, Quiet, Sending
    <2>2. ASSUME NEW n \in Node, wire[n] # << >>
          PROVE  qp[Peer(n)] = "RTS" /\ Contains(own[Peer(n)], Head(wire[n]).region)
      <3> DEFINE p == Peer(n)
      <3>1. Pair(n, p)
        BY Pairs
      <3> HIDE DEF p
      <3>2. /\ TypeOK /\ NodeFits(n, p) /\ NodeFits(p, n) /\ Quiet(p)
            /\ n \in Node /\ p \in Node
        BY <3>1, Before DEF Pair
      <3>3. Sending(n) /\ wire[n] = <<Message(n, p)>>
        BY <2>2, <3>2 DEF NodeFits, QueuesFit, p
      <3>4. Head(wire[n]).region = remote[n] /\ remote[n] = Last(own[p])
        <4>1. Head(<<Message(n, p)>>) = Message(n, p)
          BY Singles
        <4> QED
          BY <3>2, <3>3, <4>1 DEF NodeFits, RemoteFits, Message
      <3>5. pc[p] \in {"exchange", "sent", "receive", "wait"} /\ qp[p] # "ERR"
        <4>1. CASE role[n] = "server"
          <5>1. Expecting(p) \/ Interrupted(p)
            BY <3>2, <3>3, <4>1 DEF NodeFits, Fits, ServerFits, Undelivered
          <5>2. <<"SUCCESS">> # <<"ERROR">>
            BY Singles
          <5>3. qp[p] = "ERR" => sendCQ[p] = <<"ERROR">> \/ pc[p] = "ended"
            BY <3>2 DEF NodeFits, QueuesFit
          <5> QED
            BY <3>2, <5>1, <5>2, <5>3 DEF Expecting, Interrupted, Delivered, Empty, Got, Quiet
        <4>2. CASE role[n] = "client"
          <5>1. ~ Over(n) /\ ~ Final(n) /\ ~ Away(n) /\ ~ Starting(n) /\ ~ Offering(n)
            BY <3>3 DEF Sending, Over, Final, Away, Got, Starting, Offering
          <5>2. ~ Expecting(n) /\ ~ Interrupted(n)
            <6>1. <<"SUCCESS">> # << >>
              BY Singles
            <6> QED
              BY <3>3, <6>1 DEF Sending, Expecting, Interrupted, Delivered, Empty, Got
          <5>3. role[p] = "server"
            BY <3>2, <4>2, <5>1 DEF NodeFits, Fits, TypeOK
          <5>4. ServerFits(p, n) /\ pc[p] # "idle"
            <6>1. ServerFits(p, n)
              BY <3>2, <5>3 DEF NodeFits, Fits
            <6>2. pc[p] # "idle"
              BY <3>2, <5>3 DEF NodeFits, CallsFit
            <6> QED
              BY <6>1, <6>2
          <5>5. ~ Undelivered(p) /\ pc[p] \notin {"listen", "address", "ready", "close", "stuck"}
            BY <4>2, <5>1, <5>2, <5>4 DEF ServerFits
          <5>6. pc[p] # "ended" \/ qp[p] = "ERR"
            BY <5>1, <5>4 DEF ServerFits
          <5> QED
            BY <3>2, <5>4, <5>5, <5>6 DEF Undelivered, TypeOK, PC
        <4> QED
          BY <3>2, <4>1, <4>2 DEF TypeOK
      <3>6. Active(p) /\ qp[p] = "RTS"
        BY <3>2, <3>5 DEF Active, NodeFits, QueuesFit, TypeOK
      <3>7. Contains(own[p], Last(own[p]))
        BY <3>2, <3>6, TopRegion DEF NodeFits
      <3> QED
        BY <3>4, <3>7, <3>6 DEF p
    <2> QED
      BY <2>1, <2>2 DEF SessionInv, TransportInv, QueuesStartEmpty, WritesLand
  <1> QED
    BY <1>1, SessionInvariant, PTL

\* A failure leaves a call unhandled, or handled and not returned.
THEOREM FailuresAreClean == Spec => []FailureIsClean
  <1>1. SessionInv => FailureIsClean
    <2> SUFFICES ASSUME SessionInv, NEW n \in Node, pc[n] = "ended", qp[n] = "ERR"
                 PROVE  IF role[n] = "client" THEN handled[n] # asked[n]
                        ELSE /\ handled[Peer(n)] = asked[Peer(n)]
                             /\ answered[Peer(n)] # asked[Peer(n)]
      BY DEF FailureIsClean
    <2> DEFINE p == Peer(n)
    <2>1. TypeOK /\ NodeFits(n, p) /\ NodeFits(p, n) /\ n \in Node
      <3>1. Pair(n, p)
        BY Pairs
      <3> QED
        BY <3>1, Before
    <2> HIDE DEF p
    <2>2. Undelivered(n)
      BY DEF Undelivered
    <2>3. CASE role[n] = "client"
      BY <2>1, <2>2, <2>3 DEF NodeFits, CallsFit
    <2>4. CASE role[n] = "server"
      <3>1. handled[p] = asked[p] /\ (Expecting(p) \/ Interrupted(p))
        BY <2>1, <2>2, <2>4 DEF NodeFits, Fits, ServerFits
      <3>2. calling[p] # "none"
        <4>1. role[p] = "client" /\ pc[p] \in {"sent", "receive", "wait"}
          BY <3>1 DEF Expecting, Interrupted, Delivered, Empty, Got
        <4> QED
          BY <2>1, <4>1 DEF NodeFits, CallsFit
      <3>3. answered[p] # asked[p]
        BY <2>1, <3>2 DEF NodeFits, CallsFit
      <3> QED
        BY <2>4, <3>1, <3>3 DEF p
    <2> QED
      BY <2>1, <2>3, <2>4 DEF TypeOK
  <1> QED
    BY <1>1, SessionInvariant, PTL

-----------------------------------------------------------------------------
\* What is lost stays lost: only a queue pair that has not failed is connected
\* again, or reset.
LEMMA Unchanging ==
    ASSUME TypeOK, NEW n \in Node, NEW q, qp[n] # "ERR", q # "ERR", qp' = [qp EXCEPT ![n] = q]
    PROVE  TooLate' <=> TooLate
  BY DEF TypeOK, TooLate

\* What a step is to the calls.
LEMMA CallStep ==
    ASSUME SessionInv, NEW n, NEW p, Pair(n, p), NodeStep(n) \/ Deliver(n)
    PROVE  [Call!CallNext]_(Call!callVars)
  <1>1. /\ TypeOK /\ Shape /\ NodeFits(n, p) /\ NodeFits(p, n) /\ Quiet(n)
        /\ n \in Node /\ p \in Node /\ Peer(n) = p
    BY Before DEF Pair
  <1>2. ASSUME UNCHANGED <<asked, handled, answered>>, TooLate' <=> TooLate
        PROVE  UNCHANGED Call!callVars
    BY <1>2 DEF Call!callVars, TooLate
  <1>3. ASSUME UNCHANGED <<asked, handled, answered, qp>> PROVE UNCHANGED Call!callVars
    BY <1>2, <1>3 DEF TooLate
  <1>4. ASSUME answered' = [answered EXCEPT ![n] = asked[n]], UNCHANGED <<asked, handled>>,
               TooLate' <=> TooLate, handled[n] = asked[n], calling[n] # "none"
        PROVE  Call!CallNext
    <2>1. answered[n] # asked[n]
      BY <1>1, <1>4 DEF NodeFits, CallsFit
    <2>2. Call!Answer(n)
      BY <1>4, <2>1 DEF Call!Answer, TooLate
    <2> QED
      BY <1>1, <2>2 DEF Call!CallNext
  <1>5. CASE ConnectQueuePair(n)
    <2>1. qp[n] # "ERR" /\ qp' = [qp EXCEPT ![n] = "RTS"] /\ UNCHANGED <<asked, handled>>
      BY <1>1, <1>5 DEF ConnectQueuePair, Quiet
    <2>2. TooLate' <=> TooLate
      BY <1>1, <2>1, Unchanging
    <2>3. CASE ~ (role[n] = "client" /\ calling[n] = "BACK")
      <3>1. UNCHANGED answered
        BY <1>5, <2>3 DEF ConnectQueuePair
      <3> QED
        BY <1>2, <2>1, <2>2, <3>1
    <2>4. CASE role[n] = "client" /\ calling[n] = "BACK"
      <3>1. answered' = [answered EXCEPT ![n] = mem[n][Last(own[n])]]
        BY <1>5, <2>4 DEF ConnectQueuePair, Return, Content
      <3>2. mem[n][Last(own[n])] = asked[n]
        <4>1. pc[n] = "address" /\ serving[n] # "last"
          BY <1>1, <1>5, <2>4 DEF ConnectQueuePair, SessionInv, PartsFit, Node
        <4>2. own[n] \in Seq(Nat) /\ Len(own[n]) = 1 /\ mem[n][own[n][1]] = asked[n]
          BY <1>1, <2>4, <4>1 DEF NodeFits, RegionsFit, Kept, Active
        <4> QED
          BY <4>2 DEF Last
      <3>3. handled[n] = asked[n]
        BY <1>1, <2>4 DEF NodeFits, CallsFit
      <3> QED
        BY <1>4, <2>1, <2>2, <2>4, <3>1, <3>2, <3>3
    <2> QED
      BY <2>3, <2>4
  <1>6. CASE Offer(n)
    <2>1. UNCHANGED <<handled, answered, qp>> /\ pc[n] = "ready"
      BY <1>6 DEF Offer
    <2>2. CASE role[n] = "client"
      <3>1. asked' = [asked EXCEPT ![n] = @ + 1]
        BY <1>6, <2>2 DEF Offer, BeginCall
      <3>2. answered[n] = asked[n]
        BY <1>1, <2>1, <2>2 DEF NodeFits, CallsFit
      <3>3. Call!Ask(n)
        BY <2>1, <3>1, <3>2 DEF Call!Ask, TooLate
      <3> QED
        BY <1>1, <3>3 DEF Call!CallNext
    <2>3. CASE role[n] # "client"
      <3>1. asked' = asked
        BY <1>6, <2>3 DEF Offer, BeginCall
      <3> QED
        BY <1>3, <2>1, <3>1
    <2> QED
      BY <2>2, <2>3
  <1>7. CASE TakeRequest(n)
    <2>1. Got(n) /\ role[n] = "server"
      BY <1>7 DEF TakeRequest, At, Got
    <2>2. handled[p] # asked[p] /\ mem[n][Last(own[n])] = asked[p]
      BY <1>1, <2>1 DEF NodeFits, Fits, ServerFits
    <2>3. handled' = [handled EXCEPT ![p] = asked[p]] /\ UNCHANGED <<asked, answered, qp>>
      BY <1>1, <1>7, <2>2 DEF TakeRequest, Content
    <2>4. Call!Handle(p)
      BY <2>2, <2>3 DEF Call!Handle, TooLate
    <2> QED
      BY <1>1, <2>4 DEF Call!CallNext
  <1>8. CASE TakeAnswer(n)
    <2>1. Got(n) /\ role[n] = "client" /\ UNCHANGED <<asked, handled, qp>>
      BY <1>8 DEF TakeAnswer, At, Got
    <2>2. TooLate' <=> TooLate
      BY <2>1 DEF TooLate
    <2>3. handled[n] = asked[n] /\ mem[n][Last(own[n])] = asked[n] /\ calling[n] # "none"
      BY <1>1, <2>1 DEF NodeFits, CallsFit, RegionsFit, Got
    <2>4. answered' = answered \/ answered' = [answered EXCEPT ![n] = mem[n][Last(own[n])]]
      BY <1>8 DEF TakeAnswer, Return, Content
    <2> QED
      BY <1>2, <1>4, <2>1, <2>2, <2>3, <2>4
  <1>9. CASE Close(n)
    <2>1. qp[n] # "ERR" /\ qp' = [qp EXCEPT ![n] = "RESET"] /\ UNCHANGED <<asked, handled, answered>>
      BY <1>1, <1>9 DEF Close, Quiet
    <2>2. TooLate' <=> TooLate
      BY <1>1, <2>1, Unchanging
    <2> QED
      BY <1>2, <2>1, <2>2
  <1>10. CASE Deliver(n)
    <2>1. UNCHANGED <<asked, handled, answered>>
      BY <1>10 DEF Deliver
    <2>2. CASE qp' = [qp EXCEPT ![n] = "ERR"]
      <3>1. TooLate'
        BY <1>1, <2>2 DEF TypeOK, TooLate
      <3>2. CASE TooLate
        BY <1>2, <2>1, <3>1, <3>2
      <3>3. CASE ~ TooLate
        <4>1. Call!Fail
          BY <2>1, <3>1, <3>3 DEF Call!Fail
        <4> QED
          BY <4>1 DEF Call!CallNext
      <3> QED
        BY <3>2, <3>3
    <2>3. CASE qp' = qp
      BY <1>3, <2>1, <2>3
    <2> QED
      BY <1>10, <2>2, <2>3 DEF Deliver
  <1>11. CASE Connect(n) \/ ReadRegion(n) \/ EndOfStream(n) \/ Post(n) \/ PollSend(n) \/ PostReceive(n)
    <2>1. UNCHANGED <<asked, handled, answered, qp>>
      BY <1>11 DEF Connect, ReadRegion, EndOfStream, Post, PollSend, PostReceive
    <2> QED
      BY <1>3, <2>1
  <1> QED
    BY <1>5, <1>6, <1>7, <1>8, <1>9, <1>10, <1>11 DEF NodeStep

\* Calls are handled at most once and in order, and return with what was
\* answered to them and to no other.
THEOREM EveryCallIsAnsweredOnce == Spec => Call!CallSpec
  <1>1. Init => Call!CallInit
    <2>1. Init => ~ TooLate
      BY DEF Init, TooLate
    <2>2. Init => asked = [n \in Node |-> 0] /\ handled = asked /\ answered = asked
      BY DEF Init
    <2> QED
      BY <2>1, <2>2 DEF Call!CallInit
  <1>2. SessionInv /\ [Next]_vars => [Call!CallNext]_(Call!callVars)
    <2>1. ASSUME UNCHANGED <<asked, handled, answered, qp>> PROVE UNCHANGED Call!callVars
      BY <2>1 DEF Call!callVars, TooLate
    <2>2. ASSUME Begin \/ UNCHANGED vars PROVE UNCHANGED Call!callVars
      <3>1. UNCHANGED <<asked, handled, answered, qp>>
        BY <2>2 DEF Begin, vars
      <3> QED
        BY <2>1, <3>1
    <2> QED
      BY <2>2, CallStep, Pairs DEF Next
  <1> QED
    BY <1>1, <1>2, SessionInvariant, PTL DEF Spec, Call!CallSpec

=============================================================================
