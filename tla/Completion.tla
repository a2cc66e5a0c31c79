------------------------------ MODULE Completion ------------------------------
(***************************************************************************)
(* CompletionQueuePair: two completion queues that report to one event     *)
(* channel.  waitForCompletion sleeps on the channel, asks for the next    *)
(* event of the queue that woke it and polls that queue until it is empty; *)
(* the other operations poll a queue and leave its event in the channel.   *)
(*                                                                         *)
(* What the channel adapter and the library do with a queue is external: a *)
(* queue raises one event when a completion arrives after it was armed,    *)
(* and its destruction waits until every event that was taken from the     *)
(* channel is acknowledged.                                                *)
(***************************************************************************)
EXTENDS Integers, Sequences, FiniteSets, Functions

CONSTANTS
    Thread,
    Queue,     \* its completion queues
    Size,      \* CQ_SIZE, the completions a queue holds
    Arrivals   \* a bound on the completions that arrive at all

ASSUME CompletionAssumption ==
    IsFiniteSet(Thread) /\ Size \in Nat /\ Arrivals \in Nat

VARIABLES
    users,        \* the threads that use the pair, from beginning to end
    cq,           \* cq[q]: the status of each completion in q
    armed,        \* armed[q]: q will raise an event
    channel,      \* the queues whose events have not been taken
    pc,           \* where a thread is in waitForCompletion
    event,        \* event[t]: the queue that woke t
    eventsToAck,  \* how often the vector of that name lists each queue
    grown,        \* grown[t]: what the vector is once t has appended to it
    unacked,      \* unacked[q]: events of q taken and not acknowledged
    arrived,
    life          \* of the pair; "ended" after an exception nobody catches

vars == <<users, cq, armed, channel, pc, event, eventsToAck, grown, unacked, arrived, life>>

\* One failure stands for all; its completion says nothing else.
Status == {"SUCCESS", "WR_FLUSH_ERR"}

IsSuccessful(status) == status = "SUCCESS"

\* The threads between taking an event of q and arming q again.
Waking(q) == {t \in Thread : pc[t] \in {"woken", "growing", "grown"} /\ event[t] = q}

TypeOK ==
    /\ users \subseteq Thread
    /\ cq \in [Queue -> Seq(Status)] /\ armed \in [Queue -> BOOLEAN]
    /\ channel \in Seq(Queue)
    /\ pc \in [Thread -> {"idle", "asleep", "woken", "growing", "grown", "polling"}]
    /\ event \in [Thread -> Queue]
    /\ eventsToAck \in [Queue -> Nat] /\ grown \in [Thread -> [Queue -> Nat]]
    /\ unacked \in [Queue -> Nat]
    /\ arrived \in 0 .. Arrivals
    /\ life \in {"open", "closing", "closed", "ended"}

\* The constructor has asked both queues for an event.
Init ==
    /\ users \in SUBSET Thread \ {{}}
    /\ cq = [q \in Queue |-> << >>] /\ armed = [q \in Queue |-> TRUE]
    /\ channel = << >>
    /\ pc = [t \in Thread |-> "idle"] /\ event \in [Thread -> Queue]
    /\ eventsToAck = [q \in Queue |-> 0] /\ unacked = [q \in Queue |-> 0]
    /\ grown = [t \in Thread |-> eventsToAck]
    /\ arrived = 0 /\ life = "open"

-----------------------------------------------------------------------------
\* A work request completes.
Complete(q, status) ==
    /\ life = "open" /\ arrived < Arrivals /\ Len(cq[q]) < Size
    /\ arrived' = arrived + 1
    /\ cq' = [cq EXCEPT ![q] = Append(@, status)]
    /\ armed' = [armed EXCEPT ![q] = FALSE]
    /\ channel' = IF armed[q] THEN Append(channel, q) ELSE channel
    /\ UNCHANGED <<users, pc, event, eventsToAck, grown, unacked, life>>

Moves(t, from, to) == life = "open" /\ pc[t] = from /\ pc' = [pc EXCEPT ![t] = to]

Wait(t) ==
    /\ t \in users
    /\ Moves(t, "idle", "asleep")
    /\ UNCHANGED <<users, cq, armed, channel, event, eventsToAck, grown, unacked, arrived, life>>

\* getEvent
GetEvent(t) ==
    /\ Moves(t, "asleep", "woken")
    /\ channel # << >>
    /\ event' = [event EXCEPT ![t] = Head(channel)]
    /\ channel' = Tail(channel)
    /\ unacked' = [unacked EXCEPT ![Head(channel)] = @ + 1]
    /\ UNCHANGED <<users, cq, armed, eventsToAck, grown, arrived, life>>

\* Mutant: the event is not noted when the vector lists its queue.
GrowOnce(t) ==
    /\ Moves(t, "woken", "growing")
    /\ grown' = [grown EXCEPT ![t] = [eventsToAck EXCEPT ![event[t]] = 1]]
    /\ UNCHANGED <<users, cq, armed, channel, event, eventsToAck, unacked, arrived, life>>

\* push_back, in two steps: no lock is held, although there is one for it.
Grow(t) ==
    /\ Moves(t, "woken", "growing")
    /\ grown' = [grown EXCEPT ![t] = [eventsToAck EXCEPT ![event[t]] = @ + 1]]
    /\ UNCHANGED <<users, cq, armed, channel, event, eventsToAck, unacked, arrived, life>>

\* With two threads in it, one entry is lost, or an array is freed twice.
Grown(t) ==
    /\ Moves(t, "growing", "grown")
    /\ eventsToAck' = grown[t]
    /\ \/ UNCHANGED life
       \/ (\E u \in Thread \ {t} : pc[u] = "growing") /\ life' = "ended"
    /\ UNCHANGED <<users, cq, armed, channel, event, grown, unacked, arrived>>

\* Mutant: nothing asks for the next event.
ArmNot(t) ==
    /\ Moves(t, "grown", "polling")
    /\ UNCHANGED <<users, cq, armed, channel, event, eventsToAck, grown, unacked, arrived, life>>

\* requestNotify
Arm(t) ==
    /\ Moves(t, "grown", "polling")
    /\ armed' = [armed EXCEPT ![event[t]] = TRUE]
    /\ UNCHANGED <<users, cq, channel, event, eventsToAck, grown, unacked, arrived, life>>

\* Mutant: waitForCompletion polls one completion.
PollEventOnce(t) ==
    LET q == event[t] IN
    /\ life = "open" /\ pc[t] = "polling" /\ cq[q] # << >>
    /\ cq' = [cq EXCEPT ![q] = Tail(@)]
    /\ life' = IF IsSuccessful(Head(cq[q])) THEN "open" ELSE "ended"
    /\ pc' = [pc EXCEPT ![t] = "idle"]
    /\ UNCHANGED <<users, armed, channel, event, eventsToAck, grown, unacked, arrived>>

\* Mutant: waitForCompletion polls the queue that raised no event.
PollEventOther(t) ==
    /\ life = "open" /\ pc[t] = "polling" /\ cq[event[t]] # << >>
    /\ \E q \in Queue \ {event[t]} :
          /\ cq[q] # << >>
          /\ cq' = [cq EXCEPT ![q] = Tail(@)]
          /\ life' = IF IsSuccessful(Head(cq[q])) THEN "open" ELSE "ended"
    /\ UNCHANGED <<users, armed, channel, pc, event, eventsToAck, grown, unacked, arrived>>

\* The loop of waitForCompletion; a failure is an exception.
PollEvent(t) ==
    LET q == event[t] IN
    /\ life = "open" /\ pc[t] = "polling" /\ cq[q] # << >>
    /\ cq' = [cq EXCEPT ![q] = Tail(@)]
    /\ life' = IF IsSuccessful(Head(cq[q])) THEN "open" ELSE "ended"
    /\ UNCHANGED <<users, armed, channel, pc, event, eventsToAck, grown, unacked, arrived>>

Return(t) ==
    /\ Moves(t, "polling", "idle")
    /\ cq[event[t]] = << >>
    /\ UNCHANGED <<users, cq, armed, channel, event, eventsToAck, grown, unacked, arrived, life>>

\* The polling operations, which a completion of another kind than the caller
\* names ends as well,
Poll(t, q, expected) ==
    /\ t \in users
    /\ life = "open" /\ pc[t] = "idle" /\ cq[q] # << >>
    /\ cq' = [cq EXCEPT ![q] = Tail(@)]
    /\ life' = IF IsSuccessful(Head(cq[q])) /\ expected THEN "open" ELSE "ended"
    /\ UNCHANGED <<users, armed, channel, pc, event, eventsToAck, grown, unacked, arrived>>

\* and those whose caller looks at the completion.
PollWorkCompletion(t, q) == Poll(t, q, TRUE)

\* Mutant: one acknowledgement for each queue.
AckOnce ==
    /\ life = "open" /\ \A t \in Thread : pc[t] = "idle"
    /\ unacked' = [q \in Queue |-> IF eventsToAck[q] > 0 THEN unacked[q] - 1 ELSE unacked[q]]
    /\ life' = "closing"
    /\ UNCHANGED <<users, cq, armed, channel, pc, event, eventsToAck, grown, arrived>>

\* The destructor, when no thread uses the pair,
Ack ==
    /\ life = "open" /\ \A t \in Thread : pc[t] = "idle"
    /\ unacked' = [q \in Queue |-> unacked[q] - eventsToAck[q]]
    /\ life' = "closing"
    /\ UNCHANGED <<users, cq, armed, channel, pc, event, eventsToAck, grown, arrived>>

\* and those of its queues.
Destroy ==
    /\ life = "closing" /\ \A q \in Queue : unacked[q] = 0
    /\ life' = "closed"
    /\ UNCHANGED <<users, cq, armed, channel, pc, event, eventsToAck, grown, unacked, arrived>>

WaitStep(t) ==
    Wait(t) \/ GetEvent(t) \/ Grow(t) \/ Grown(t) \/ Arm(t) \/ PollEvent(t) \/ Return(t)

Next ==
    \/ \E q \in Queue, status \in Status : Complete(q, status)
    \/ \E t \in Thread : WaitStep(t)
    \/ \E t \in Thread, q \in Queue :
          PollWorkCompletion(t, q) \/ \E expected \in BOOLEAN : Poll(t, q, expected)
    \/ Ack \/ Destroy

Spec == Init /\ [][Next]_vars

\* Threads that come back to wait, and a destructor that goes on.
FairSpec == Spec /\ WF_vars(Destroy) /\ \A t \in Thread : WF_vars(WaitStep(t))

-----------------------------------------------------------------------------
OneEvent(q) ==
    /\ armed[q] => q \notin Range(channel)
    /\ armed[q] \/ q \in Range(channel) => Waking(q) = {}
    /\ ~ armed[q] => q \in Range(channel) \/ Waking(q) # {}
    /\ \A t, u \in Waking(q) : t = u

\* A queue is armed, or its one event is in the channel, or one thread is about
\* to arm it: whatever threads do, no queue is armed for nobody or forgotten.
OneEventPerQueue == IsInjective(channel) /\ \A q \in Queue : OneEvent(q)

\* No wake-up is lost: a completion that is in a queue has raised an event, or a
\* thread is polling the queue and will not stop before it has seen it.
NothingUnannounced ==
    \A q \in Queue :
        armed[q] /\ cq[q] # << >> =>
            life = "ended" \/ \E t \in Thread : pc[t] = "polling" /\ event[t] = q

\* Every event that was taken from the channel is known to the destructor, if
\* one thread waits: of two, one may overwrite what the other has noted.
EventsRemembered ==
    /\ TypeOK
    /\ Cardinality(users) = 1 /\ life = "open" => \A q \in Queue :
           unacked[q] = eventsToAck[q] + Cardinality({t \in Waking(q) : pc[t] # "grown"})

\* The destructor then returns: no queue waits for an acknowledgement in vain.
DestructorReturns == Cardinality(users) = 1 /\ life = "closing" ~> life = "closed"

\* If the threads always come back to wait, every completion is polled.
EveryCompletionIsPolled ==
    \A q \in Queue : cq[q] # << >> ~> cq[q] = << >> \/ life # "open"

=============================================================================
