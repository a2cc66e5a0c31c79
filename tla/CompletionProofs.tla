--------------------------- MODULE CompletionProofs ---------------------------
(***************************************************************************)
(* Proofs about CompletionQueuePair, for any number of threads and queues: *)
(* no queue loses or doubles its event, and no wake-up is lost.            *)
(***************************************************************************)
EXTENDS Completion, SequenceFacts, FiniteSetTheorems

\* The part of the types that the proofs rest on.
ChannelOK ==
    /\ channel \in Seq(Queue) /\ armed \in [Queue -> BOOLEAN]
    /\ cq \in [Queue -> Seq(Status)]
    /\ pc \in [Thread -> {"idle", "asleep", "woken", "growing", "grown", "polling"}]
    /\ event \in [Thread -> Queue]

WakeInv == ChannelOK /\ OneEventPerQueue /\ NothingUnannounced

LEMMA InitWake == Init => WakeInv
  BY RangeOfEmpty DEF Init, WakeInv, ChannelOK, OneEventPerQueue, OneEvent, NothingUnannounced,
     Waking, IsInjective

\* Steps that move nobody into or out of the steps from an event to the arming,
\* and leave queues, channel and arming alone.
LEMMA QuietWake ==
    ASSUME WakeInv, UNCHANGED <<cq, armed, channel, event>>,
           \A q \in Queue : Waking(q)' = Waking(q),
           pc' \in [Thread -> {"idle", "asleep", "woken", "growing", "grown", "polling"}],
           life = "ended" => life' = "ended",
           \A t \in Thread : pc[t] = "polling" /\ cq[event[t]] # << >> => pc'[t] = "polling"
    PROVE  WakeInv'
  <1>1. OneEventPerQueue'
    BY DEF WakeInv, OneEventPerQueue, OneEvent
  <1>2. NothingUnannounced'
    BY DEF WakeInv, NothingUnannounced, ChannelOK
  <1> QED
    BY <1>1, <1>2 DEF WakeInv, ChannelOK

\* A queue from which a completion is taken has at worst fewer to announce.
LEMMA TakenWake ==
    ASSUME WakeInv, UNCHANGED <<armed, channel, event, pc>>, NEW q \in Queue,
           cq' = [cq EXCEPT ![q] = Tail(@)], cq[q] # << >>, life = "open"
    PROVE  WakeInv'
  <1>1. cq' \in [Queue -> Seq(Status)] /\ \A r \in Queue : cq'[r] # << >> => cq[r] # << >>
    BY DEF WakeInv, ChannelOK
  <1>2. OneEventPerQueue'
    BY DEF WakeInv, OneEventPerQueue, OneEvent, Waking
  <1>3. NothingUnannounced'
    BY <1>1 DEF WakeInv, NothingUnannounced
  <1> QED
    BY <1>1, <1>2, <1>3 DEF WakeInv, ChannelOK

\* A completion raises the event of an armed queue.
LEMMA CompleteWake ==
    ASSUME WakeInv, NEW q \in Queue, NEW status \in Status, Complete(q, status)
    PROVE  WakeInv'
  <1>1. /\ cq' = [cq EXCEPT ![q] = Append(@, status)]
        /\ armed' = [armed EXCEPT ![q] = FALSE] /\ UNCHANGED <<pc, event, life>>
        /\ channel' = IF armed[q] THEN Append(channel, q) ELSE channel
    BY DEF Complete
  <1>2. ChannelOK'
    BY <1>1 DEF WakeInv, ChannelOK
  <1>3. \A r \in Queue : Waking(r)' = Waking(r)
    BY <1>1 DEF Waking
  <1>4. /\ ~ armed'[q]
        /\ \A r \in Queue : r # q => armed'[r] = armed[r] /\ cq'[r] = cq[r]
    BY <1>1 DEF WakeInv, ChannelOK
  <1>5. NothingUnannounced'
    BY <1>1, <1>4 DEF WakeInv, NothingUnannounced
  <1>6. OneEventPerQueue'
    <2>1. CASE armed[q]
      <3>1. channel' = Append(channel, q) /\ q \notin Range(channel) /\ Waking(q) = {}
        BY <2>1, <1>1 DEF WakeInv, OneEventPerQueue, OneEvent
      <3>2. Range(channel') = Range(channel) \cup {q}
        BY <3>1, RangeOfAppend DEF WakeInv, ChannelOK
      <3>3. IsInjective(channel')
        BY <3>1, AppendOfNew DEF WakeInv, ChannelOK, OneEventPerQueue
      <3>4. OneEvent(q)'
        BY <3>1, <3>2, <1>3, <1>4 DEF OneEvent
      <3>5. ASSUME NEW r \in Queue, r # q PROVE OneEvent(r)'
        <4>1. armed'[r] = armed[r] /\ (r \in Range(channel'))  = (r \in Range(channel))
          BY <3>2, <3>5, <1>4
        <4>2. Waking(r)' = Waking(r)
          BY <1>3
        <4>3. OneEvent(r)
          BY DEF WakeInv, OneEventPerQueue
        <4> QED
          BY <4>1, <4>2, <4>3 DEF OneEvent
      <3> QED
        BY <3>3, <3>4, <3>5 DEF OneEventPerQueue
    <2>2. CASE ~ armed[q]
      <3>1. channel' = channel
        BY <2>2, <1>1
      <3>2. ASSUME NEW r \in Queue PROVE OneEvent(r)'
        <4>1. armed'[r] <=> armed[r]
          BY <2>2, <1>4
        <4>2. Waking(r)' = Waking(r)
          BY <1>3
        <4>3. OneEvent(r)
          BY DEF WakeInv, OneEventPerQueue
        <4> QED
          BY <3>1, <4>1, <4>2, <4>3 DEF OneEvent
      <3> QED
        BY <3>1, <3>2 DEF WakeInv, OneEventPerQueue
    <2> QED
      BY <2>1, <2>2
  <1> QED
    BY <1>2, <1>5, <1>6 DEF WakeInv

\* The thread that takes an event is the only one about to arm its queue.
LEMMA GetEventWake ==
    ASSUME WakeInv, NEW t \in Thread, GetEvent(t)
    PROVE  WakeInv'
  <1> PICK q \in Queue : q = Head(channel)
    BY DEF GetEvent, Moves, WakeInv, ChannelOK
  <1>1. /\ pc[t] = "asleep" /\ pc' = [pc EXCEPT ![t] = "woken"]
        /\ channel # << >> /\ event' = [event EXCEPT ![t] = q]
        /\ channel' = Tail(channel) /\ UNCHANGED <<cq, armed, life>>
    BY DEF GetEvent, Moves
  <1>2. channel \in Seq(Queue) /\ IsInjective(channel)
    BY DEF WakeInv, ChannelOK, OneEventPerQueue
  <1>3. Range(channel) = {q} \cup Range(channel') /\ IsInjective(channel') /\ q \in Queue
    BY <1>1, <1>2, RangeOfTail, RestIsOthers
  <1>4. q \notin Range(channel')
    BY <1>1, <1>2, RestIsOthers DEF Range
  <1>5. ChannelOK'
    BY <1>1, <1>3, <1>2 DEF WakeInv, ChannelOK
  <1>6. ~ armed[q] /\ Waking(q) = {}
    BY <1>3 DEF WakeInv, OneEventPerQueue, OneEvent
  <1>7. \A u \in Thread : /\ pc'[u] = (IF u = t THEN "woken" ELSE pc[u])
                          /\ event'[u] = (IF u = t THEN q ELSE event[u])
    BY <1>1 DEF WakeInv, ChannelOK
  <1>8. \A r \in Queue : Waking(r)' = IF r = q THEN {t} ELSE Waking(r)
    BY <1>6, <1>7, <1>1 DEF Waking
  <1>9. OneEventPerQueue'
    <2>1. OneEvent(q)'
      BY <1>1, <1>4, <1>6, <1>8, <1>3 DEF OneEvent
    <2>2. ASSUME NEW r \in Queue, r # q PROVE OneEvent(r)'
      <3>1. OneEvent(r) /\ Waking(r)' = Waking(r) /\ armed' = armed
        BY <2>2, <1>1, <1>8 DEF WakeInv, OneEventPerQueue
      <3>2. (r \in Range(channel')) = (r \in Range(channel))
        BY <2>2, <1>3
      <3> QED
        BY <3>1, <3>2 DEF OneEvent
    <2> QED
      BY <1>3, <2>1, <2>2 DEF OneEventPerQueue
  <1>10. NothingUnannounced'
    BY <1>1, <1>7 DEF WakeInv, NothingUnannounced
  <1> QED
    BY <1>5, <1>9, <1>10 DEF WakeInv

\* Arming a queue leaves the thread that did it polling it.
LEMMA ArmWake ==
    ASSUME WakeInv, NEW t \in Thread, Arm(t)
    PROVE  WakeInv'
  <1> DEFINE q == event[t]
  <1>1. /\ pc[t] = "grown" /\ pc' = [pc EXCEPT ![t] = "polling"]
        /\ armed' = [armed EXCEPT ![q] = TRUE] /\ UNCHANGED <<cq, channel, event, life>>
    BY DEF Arm, Moves
  <1>2. q \in Queue /\ t \in Waking(q)
    BY <1>1 DEF WakeInv, ChannelOK, Waking
  <1>3. ChannelOK'
    BY <1>1 DEF WakeInv, ChannelOK
  <1>4. /\ \A u \in Thread : pc'[u] = IF u = t THEN "polling" ELSE pc[u]
        /\ \A r \in Queue : armed'[r] = IF r = q THEN TRUE ELSE armed[r]
    BY <1>1 DEF WakeInv, ChannelOK
  <1>5. Waking(q) = {t} /\ ~ armed[q] /\ q \notin Range(channel)
    <2>1. \A u \in Waking(q) : u = t
      BY <1>2 DEF WakeInv, OneEventPerQueue, OneEvent
    <2>2. Waking(q) # {}
      BY <1>2
    <2> QED
      BY <2>1, <2>2, <1>2 DEF WakeInv, OneEventPerQueue, OneEvent
  <1>6. \A r \in Queue : Waking(r)' = IF r = q THEN {} ELSE Waking(r)
    BY <1>1, <1>4, <1>5 DEF Waking
  <1>7. OneEventPerQueue'
    <2>1. OneEvent(q)'
      BY <1>1, <1>4, <1>5, <1>6, <1>2 DEF OneEvent
    <2>2. ASSUME NEW r \in Queue, r # q PROVE OneEvent(r)'
      <3>1. OneEvent(r) /\ Waking(r)' = Waking(r) /\ channel' = channel
        BY <2>2, <1>1, <1>6 DEF WakeInv, OneEventPerQueue
      <3>2. armed'[r] = armed[r]
        BY <2>2, <1>4
      <3> QED
        BY <3>1, <3>2 DEF OneEvent
    <2> QED
      BY <1>1, <2>1, <2>2 DEF WakeInv, OneEventPerQueue
  <1>8. NothingUnannounced'
    BY <1>1, <1>4 DEF WakeInv, NothingUnannounced
  <1> QED
    BY <1>3, <1>7, <1>8 DEF WakeInv

LEMMA WakeStep == ASSUME WakeInv, [Next]_vars PROVE WakeInv'
  <1> USE DEF WakeInv
  <1>1. ASSUME NEW t \in Thread, Wait(t) PROVE WakeInv'
    BY <1>1, QuietWake DEF Wait, Moves, ChannelOK, Waking
  <1>2. ASSUME NEW t \in Thread, Grow(t) PROVE WakeInv'
    BY <1>2, QuietWake DEF Grow, Moves, ChannelOK, Waking
  <1>3. ASSUME NEW t \in Thread, Grown(t) PROVE WakeInv'
    BY <1>3, QuietWake DEF Grown, Moves, ChannelOK, Waking
  <1>4. ASSUME NEW t \in Thread, Return(t) PROVE WakeInv'
    BY <1>4, QuietWake DEF Return, Moves, ChannelOK, Waking
  <1>5. ASSUME NEW t \in Thread, PollEvent(t) PROVE WakeInv'
    BY <1>5, TakenWake DEF PollEvent, ChannelOK
  <1>6. ASSUME NEW t \in Thread, NEW q \in Queue, NEW expected \in BOOLEAN,
               Poll(t, q, expected)
        PROVE  WakeInv'
    BY <1>6, TakenWake DEF Poll
  <1>7. ASSUME NEW t \in Thread, NEW q \in Queue, PollWorkCompletion(t, q) PROVE WakeInv'
    BY <1>6, <1>7 DEF PollWorkCompletion
  <1>8. CASE Ack \/ Destroy
    BY <1>8, QuietWake DEF Ack, Destroy, ChannelOK, Waking
  <1>9. CASE UNCHANGED vars
    BY <1>9, QuietWake DEF vars, ChannelOK, Waking
  <1> QED
    BY <1>1, <1>2, <1>3, <1>4, <1>5, <1>6, <1>7, <1>8, <1>9,
       CompleteWake, GetEventWake, ArmWake DEF Next, WaitStep

\* waitForCompletion takes an event, arms the queue and polls it, in this order:
\* so each queue has one event, wherever it is.
THEOREM EventsAreUnique == Spec => []OneEventPerQueue
  <1>1. WakeInv => OneEventPerQueue
    BY DEF WakeInv
  <1> QED
    BY <1>1, InitWake, WakeStep, PTL DEF Spec

\* No completion is left in a queue of which nobody will hear.
THEOREM NoWakeUpIsLost == Spec => []NothingUnannounced
  <1>1. WakeInv => NothingUnannounced
    BY DEF WakeInv
  <1> QED
    BY <1>1, InitWake, WakeStep, PTL DEF Spec

-----------------------------------------------------------------------------
\* The threads between taking an event of q and noting it in eventsToAck.
Noting(q) == {t \in Waking(q) : pc[t] # "grown"}

\* The vector never lists an event that was not taken; nor does what a thread
\* is about to make of it, which is why no unsigned count runs below zero.
NotedAreTaken ==
    /\ \A q \in Queue : /\ eventsToAck[q] <= unacked[q]
                        /\ Noting(q) # {} => eventsToAck[q] < unacked[q]
    /\ \A t \in Thread : pc[t] = "growing" => \A q \in Queue :
           /\ grown[t][q] <= unacked[q]
           /\ q # event[t] /\ Noting(q) # {} => grown[t][q] < unacked[q]

\* A thread that is alone notes every event.
AloneNotesAll(u) ==
    /\ \A q \in Queue : unacked[q] = eventsToAck[q] + (IF Noting(q) = {} THEN 0 ELSE 1)
    /\ pc[u] = "growing" => grown[u] = [eventsToAck EXCEPT ![event[u]] = @ + 1]

AckInv ==
    /\ TypeOK
    /\ \A t \in Thread : pc[t] # "idle" => t \in users
    /\ life = "open" =>
           NotedAreTaken /\ \A u \in Thread : users = {u} => AloneNotesAll(u)

LEMMA InitAck == Init => AckInv
  <1> SUFFICES ASSUME Init PROVE AckInv
    OBVIOUS
  <1>1. \A q \in Queue : Noting(q) = {}
    BY DEF Init, Noting, Waking
  <1> QED
    BY <1>1, CompletionAssumption
       DEF Init, AckInv, TypeOK, NotedAreTaken, AloneNotesAll

\* Steps that neither take nor note an event.
LEMMA QuietAck ==
    ASSUME AckInv, TypeOK', UNCHANGED <<users, eventsToAck, grown, unacked, event>>,
           \A t \in Thread : pc'[t] # "idle" => t \in users,
           \A q \in Queue : Noting(q)' = Noting(q),
           \A t \in Thread : pc'[t] = "growing" => pc[t] = "growing",
           life' = "open" => life = "open"
    PROVE  AckInv'
  BY DEF AckInv, NotedAreTaken, AloneNotesAll

\* An event that is taken adds one to what is to be acknowledged.
LEMMA GetEventAck ==
    ASSUME AckInv, WakeInv, NEW t \in Thread, GetEvent(t)
    PROVE  AckInv'
  <1> PICK q \in Queue : q = Head(channel)
    BY DEF GetEvent, Moves, WakeInv, ChannelOK
  <1>1. /\ life = "open" /\ pc[t] = "asleep" /\ pc' = [pc EXCEPT ![t] = "woken"]
        /\ channel # << >> /\ event' = [event EXCEPT ![t] = q] /\ channel' = Tail(channel)
        /\ unacked' = [unacked EXCEPT ![q] = @ + 1]
        /\ UNCHANGED <<users, cq, armed, eventsToAck, grown, arrived, life>>
    BY DEF GetEvent, Moves
  <1>2. TypeOK'
    <2>1. channel' \in Seq(Queue)
      BY <1>1 DEF AckInv, TypeOK
    <2>2. unacked' \in [Queue -> Nat]
      <3>1. unacked \in [Queue -> Nat]
        BY DEF AckInv, TypeOK
      <3>2. unacked[q] + 1 \in Nat
        BY <3>1
      <3>3. unacked' = [unacked EXCEPT ![q] = @ + 1]
        BY <1>1
      <3> QED
        BY <3>1, <3>2, <3>3
    <2>3. event' \in [Thread -> Queue]
      <3>1. event \in [Thread -> Queue]
        BY DEF AckInv, TypeOK
      <3> QED
        BY <3>1, <1>1
    <2> QED
      BY <1>1, <2>1, <2>2, <2>3 DEF AckInv, TypeOK
  <1>3. \A u \in Thread : /\ pc'[u] = (IF u = t THEN "woken" ELSE pc[u])
                          /\ event'[u] = (IF u = t THEN q ELSE event[u])
    BY <1>1 DEF AckInv, TypeOK
  <1>4. \A r \in Queue : unacked'[r] = IF r = q THEN unacked[r] + 1 ELSE unacked[r]
    BY <1>1 DEF AckInv, TypeOK
  <1>5. Waking(q) = {}
    <2>1. Range(channel) = {q} \cup Range(Tail(channel))
      BY <1>1, RangeOfTail DEF AckInv, TypeOK
    <2> QED
      BY <2>1 DEF WakeInv, OneEventPerQueue, OneEvent
  <1>6. Noting(q) = {} /\ Noting(q)' = {t} /\ \A r \in Queue \ {q} : Noting(r)' = Noting(r)
    BY <1>1, <1>3, <1>5 DEF Noting, Waking
  <1>7. \A u \in Thread : pc'[u] # "idle" => u \in users
    BY <1>1, <1>3 DEF AckInv
  <1>8. NotedAreTaken'
    <2>1. ASSUME NEW r \in Queue
          PROVE  eventsToAck[r] <= unacked'[r] /\ (Noting(r)' # {} => eventsToAck[r] < unacked'[r])
      <3>1. /\ eventsToAck[r] <= unacked[r] /\ (Noting(r) # {} => eventsToAck[r] < unacked[r])
            /\ eventsToAck[r] \in Nat /\ unacked[r] \in Nat
        BY <1>1 DEF AckInv, TypeOK, NotedAreTaken
      <3> QED
        BY <3>1, <1>4, <1>6
    <2>2. ASSUME NEW u \in Thread, pc'[u] = "growing", NEW r \in Queue
          PROVE  /\ grown[u][r] <= unacked'[r]
                 /\ r # event'[u] /\ Noting(r)' # {} => grown[u][r] < unacked'[r]
      <3>1. u # t /\ pc[u] = "growing" /\ event'[u] = event[u]
        BY <2>2, <1>3
      <3>2. /\ grown[u][r] <= unacked[r] /\ grown[u][r] \in Nat /\ unacked[r] \in Nat
            /\ r # event[u] /\ Noting(r) # {} => grown[u][r] < unacked[r]
        BY <3>1, <1>1 DEF AckInv, TypeOK, NotedAreTaken
      <3> QED
        BY <3>1, <3>2, <1>4, <1>6
    <2> QED
      BY <2>1, <2>2, <1>1 DEF NotedAreTaken
  <1>9. ASSUME NEW u \in Thread, users' = {u} PROVE AloneNotesAll(u)'
    <2>1. AloneNotesAll(u) /\ u = t
      BY <1>9, <1>1, <1>3, <1>7 DEF AckInv
    <2>2. ASSUME NEW r \in Queue
          PROVE  unacked'[r] = eventsToAck[r] + (IF Noting(r)' = {} THEN 0 ELSE 1)
      <3>1. /\ unacked[r] = eventsToAck[r] + (IF Noting(r) = {} THEN 0 ELSE 1)
            /\ eventsToAck[r] \in Nat
        BY <2>1 DEF AckInv, TypeOK, AloneNotesAll
      <3> QED
        BY <3>1, <1>4, <1>6
    <2> QED
      BY <2>1, <2>2, <1>1, <1>3 DEF AloneNotesAll
  <1> QED
    BY <1>1, <1>2, <1>7, <1>8, <1>9 DEF AckInv

\* push_back begins with what the vector lists.
LEMMA GrowAck ==
    ASSUME AckInv, NEW t \in Thread, Grow(t)
    PROVE  AckInv'
  <1>1. /\ life = "open" /\ pc[t] = "woken" /\ pc' = [pc EXCEPT ![t] = "growing"]
        /\ grown' = [grown EXCEPT ![t] = [eventsToAck EXCEPT ![event[t]] = @ + 1]]
        /\ UNCHANGED <<users, cq, armed, channel, event, eventsToAck, unacked, arrived, life>>
    BY DEF Grow, Moves
  <1>2. TypeOK'
    BY <1>1 DEF AckInv, TypeOK
  <1>3. \A u \in Thread : pc'[u] = IF u = t THEN "growing" ELSE pc[u]
    BY <1>1 DEF AckInv, TypeOK
  <1>4. \A r \in Queue : Noting(r)' = Noting(r)
    BY <1>1, <1>3 DEF Noting, Waking
  <1>5. event[t] \in Queue /\ Noting(event[t]) # {}
    BY <1>1 DEF AckInv, TypeOK, Noting, Waking
  <1>6. /\ grown'[t] = [eventsToAck EXCEPT ![event[t]] = @ + 1]
        /\ \A u \in Thread \ {t} : grown'[u] = grown[u]
    BY <1>1 DEF AckInv, TypeOK
  <1>7. NotedAreTaken'
    <2>1. ASSUME NEW u \in Thread, pc'[u] = "growing", NEW r \in Queue
          PROVE  /\ grown'[u][r] <= unacked[r]
                 /\ r # event[u] /\ Noting(r) # {} => grown'[u][r] < unacked[r]
      <3>1. CASE u = t
        BY <3>1, <1>1, <1>5, <1>6 DEF AckInv, TypeOK, NotedAreTaken
      <3>2. CASE u # t
        BY <3>2, <2>1, <1>1, <1>3, <1>6 DEF AckInv, NotedAreTaken
      <3> QED
        BY <3>1, <3>2
    <2> QED
      BY <2>1, <1>1, <1>4 DEF AckInv, NotedAreTaken
  <1>8. ASSUME NEW u \in Thread, users' = {u} PROVE AloneNotesAll(u)'
    <2>1. AloneNotesAll(u) /\ u = t
      BY <1>8, <1>1 DEF AckInv
    <2> QED
      BY <2>1, <1>1, <1>4, <1>6 DEF AloneNotesAll
  <1>9. \A u \in Thread : pc'[u] # "idle" => u \in users
    BY <1>1, <1>3 DEF AckInv
  <1> QED
    BY <1>1, <1>2, <1>7, <1>8, <1>9 DEF AckInv

\* push_back ends: the event is noted, and what others noted since is gone.
LEMMA GrownAck ==
    ASSUME AckInv, WakeInv, NEW t \in Thread, Grown(t)
    PROVE  AckInv'
  <1>1. /\ life = "open" /\ pc[t] = "growing" /\ pc' = [pc EXCEPT ![t] = "grown"]
        /\ eventsToAck' = grown[t] /\ life' \in {"open", "ended"}
        /\ UNCHANGED <<users, cq, armed, channel, event, grown, unacked, arrived>>
    BY DEF Grown, Moves
  <1> PICK q \in Queue : q = event[t]
    BY DEF AckInv, TypeOK
  <1>2. TypeOK'
    BY <1>1 DEF AckInv, TypeOK
  <1>3. \A u \in Thread : pc'[u] = IF u = t THEN "grown" ELSE pc[u]
    BY <1>1 DEF AckInv, TypeOK
  <1>4. q \in Queue /\ t \in Noting(q) /\ t \in Waking(q)
    BY <1>1 DEF AckInv, TypeOK, Noting, Waking
  <1>5. Noting(q) = {t}
    <2>1. \A u \in Waking(q) : u = t
      BY <1>4 DEF WakeInv, OneEventPerQueue, OneEvent
    <2> QED
      BY <1>4, <2>1 DEF Noting
  <1>6. Noting(q)' = {} /\ \A r \in Queue : r # q => Noting(r)' = Noting(r)
    <2>1. \A r \in Queue : Noting(r)' = Noting(r) \ {t}
      BY <1>1, <1>3 DEF Noting, Waking
    <2>2. \A r \in Queue : r # q => t \notin Noting(r)
      BY DEF Noting, Waking
    <2> QED
      BY <2>1, <2>2, <1>4, <1>5
  <1>7. \A u \in Thread : pc'[u] # "idle" => u \in users
    BY <1>1, <1>3 DEF AckInv
  <1>8. NotedAreTaken'
    <2>1. \A r \in Queue : /\ grown[t][r] <= unacked[r]
                           /\ r # event[t] /\ Noting(r) # {} => grown[t][r] < unacked[r]
      BY <1>1 DEF AckInv, NotedAreTaken
    <2>2. \A r \in Queue : Noting(r)' # {} => r # q /\ Noting(r) # {}
      BY <1>6
    <2>3. \A u \in Thread : pc'[u] = "growing" => pc[u] = "growing"
      BY <1>3
    <2> QED
      BY <2>1, <2>2, <2>3, <1>1 DEF AckInv, NotedAreTaken
  <1>9. ASSUME NEW u \in Thread, users' = {u} PROVE AloneNotesAll(u)'
    <2>1. AloneNotesAll(u) /\ u = t
      BY <1>9, <1>1 DEF AckInv
    <2>2. grown[t] = [eventsToAck EXCEPT ![q] = @ + 1]
      BY <2>1, <1>1 DEF AloneNotesAll
    <2>3. ASSUME NEW r \in Queue
          PROVE  unacked[r] = grown[t][r] + (IF Noting(r)' = {} THEN 0 ELSE 1)
      <3>1. /\ eventsToAck[r] \in Nat
            /\ grown[t][r] = IF r = q THEN eventsToAck[r] + 1 ELSE eventsToAck[r]
        BY <2>2, <1>4 DEF AckInv, TypeOK
      <3>2. unacked[r] = eventsToAck[r] + (IF Noting(r) = {} THEN 0 ELSE 1)
        BY <2>1 DEF AloneNotesAll
      <3> QED
        BY <3>1, <3>2, <1>5, <1>6
    <2>4. pc'[u] # "growing"
      BY <2>1, <1>3
    <2> QED
      BY <2>3, <2>4, <1>1 DEF AloneNotesAll
  <1> QED
    BY <1>1, <1>2, <1>7, <1>8, <1>9 DEF AckInv

LEMMA AckStep == ASSUME AckInv, WakeInv, [Next]_vars PROVE AckInv'
  <1>1. ASSUME NEW q \in Queue, NEW status \in Status, Complete(q, status) PROVE AckInv'
    <2>1. TypeOK'
      BY <1>1, CompletionAssumption DEF Complete, AckInv, TypeOK
    <2> QED
      BY <1>1, <2>1, QuietAck DEF Complete, AckInv, Noting, Waking
  <1>2. ASSUME NEW t \in Thread, Wait(t) PROVE AckInv'
    <2>1. TypeOK' /\ \A u \in Thread : pc'[u] = IF u = t THEN "asleep" ELSE pc[u]
      BY <1>2 DEF Wait, Moves, AckInv, TypeOK
    <2>2. \A q \in Queue : Noting(q)' = Noting(q)
      BY <1>2, <2>1 DEF Wait, Moves, Noting, Waking
    <2> QED
      BY <1>2, <2>1, <2>2, QuietAck DEF Wait, Moves, AckInv
  <1>3. ASSUME NEW t \in Thread, Arm(t) PROVE AckInv'
    <2>1. TypeOK' /\ \A u \in Thread : pc'[u] = IF u = t THEN "polling" ELSE pc[u]
      BY <1>3 DEF Arm, Moves, AckInv, TypeOK
    <2>2. \A q \in Queue : Noting(q)' = Noting(q)
      BY <1>3, <2>1 DEF Arm, Moves, Noting, Waking
    <2>3. \A u \in Thread : pc'[u] # "idle" => u \in users
      BY <1>3, <2>1 DEF Arm, Moves, AckInv
    <2> QED
      BY <1>3, <2>1, <2>2, <2>3, QuietAck DEF Arm, Moves
  <1>4. ASSUME NEW t \in Thread, Return(t) PROVE AckInv'
    <2>1. TypeOK' /\ \A u \in Thread : pc'[u] = IF u = t THEN "idle" ELSE pc[u]
      BY <1>4 DEF Return, Moves, AckInv, TypeOK
    <2>2. \A q \in Queue : Noting(q)' = Noting(q)
      BY <1>4, <2>1 DEF Return, Moves, Noting, Waking
    <2> QED
      BY <1>4, <2>1, <2>2, QuietAck DEF Return, Moves, AckInv
  <1>5. ASSUME NEW t \in Thread, PollEvent(t) PROVE AckInv'
    <2>1. TypeOK'
      BY <1>5 DEF PollEvent, AckInv, TypeOK
    <2> QED
      BY <1>5, <2>1, QuietAck DEF PollEvent, AckInv, Noting, Waking
  <1>6. ASSUME NEW t \in Thread, NEW q \in Queue, NEW expected \in BOOLEAN,
               Poll(t, q, expected)
        PROVE  AckInv'
    <2>1. TypeOK'
      BY <1>6 DEF Poll, AckInv, TypeOK
    <2> QED
      BY <1>6, <2>1, QuietAck DEF Poll, AckInv, Noting, Waking
  <1>7. ASSUME NEW t \in Thread, NEW q \in Queue, PollWorkCompletion(t, q) PROVE AckInv'
    BY <1>6, <1>7 DEF PollWorkCompletion
  <1>8. CASE Ack
    <2>1. \A q \in Queue : eventsToAck[q] <= unacked[q]
      BY <1>8 DEF Ack, AckInv, NotedAreTaken
    <2>2. unacked' \in [Queue -> Nat]
      BY <1>8, <2>1 DEF Ack, AckInv, TypeOK
    <2> QED
      BY <1>8, <2>2 DEF Ack, AckInv, TypeOK
  <1>9. CASE Destroy
    BY <1>9 DEF Destroy, AckInv, TypeOK
  <1>10. CASE UNCHANGED vars
    <2>1. TypeOK'
      BY <1>10 DEF vars, AckInv, TypeOK
    <2> QED
      BY <1>10, <2>1, QuietAck DEF vars, AckInv, Noting, Waking
  <1> QED
    BY <1>1, <1>2, <1>3, <1>4, <1>5, <1>6, <1>7, <1>8, <1>9, <1>10,
       GetEventAck, GrowAck, GrownAck DEF Next, WaitStep

\* Of the threads that wake for a queue at most one has not noted its event.
LEMMA AllRemembered == AckInv /\ WakeInv => EventsRemembered
  <1> SUFFICES ASSUME AckInv, WakeInv PROVE EventsRemembered
    OBVIOUS
  <1>1. ASSUME Cardinality(users) = 1, life = "open", NEW q \in Queue
        PROVE  unacked[q] = eventsToAck[q] + Cardinality(Noting(q))
    <2>1. IsFiniteSet(users) /\ users \subseteq Thread
      BY CompletionAssumption, FS_Subset DEF AckInv, TypeOK
    <2>2. PICK u \in Thread : users = {u}
      BY <1>1, <2>1, FS_Singleton
    <2>3. Noting(q) = {} \/ Noting(q) = {u}
      BY <2>2 DEF AckInv, Noting, Waking
    <2>4. Cardinality(Noting(q)) = IF Noting(q) = {} THEN 0 ELSE 1
      BY <2>3, FS_EmptySet, FS_Singleton
    <2> QED
      BY <2>2, <2>4, <1>1 DEF AckInv, AloneNotesAll
  <1> QED
    BY <1>1 DEF EventsRemembered, Noting, AckInv

\* If one thread waits, the destructor acknowledges every event that was taken
\* from the channel, and none twice: whatever the polling operations took of its
\* completions, all that eventsToAck lacks is an event about to be noted.
THEOREM EveryEventIsRemembered == Spec => []EventsRemembered
  <1>1. Init => AckInv /\ WakeInv
    BY InitAck, InitWake
  <1>2. AckInv /\ WakeInv /\ [Next]_vars => (AckInv /\ WakeInv)'
    BY AckStep, WakeStep
  <1> QED
    BY <1>1, <1>2, AllRemembered, PTL DEF Spec

=============================================================================
