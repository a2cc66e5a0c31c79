--------------------------- MODULE AllocationProofs ---------------------------
(***************************************************************************)
(* Proofs about the home node's memory, for any clients, addresses and     *)
(* number of buffers: the copies that were read are tracked from the miss  *)
(* to the invalidation, whatever programs do, and programs that take turns *)
(* and are listened to lose the home node only to its leak.                *)
(***************************************************************************)
EXTENDS Allocation, SequenceFacts

\* Every step keeps the types.
LEMMA TypeStep == ASSUME TypeOK, AllocationAssumption, [Next]_vars PROVE TypeOK'
  <1> USE DEF TypeOK, State, Waits, Enter, Op, memoryVars, clientVars, homeVars
  <1>1. ASSUME NEW n \in Client, Malloc(n) PROVE TypeOK'
    <2>1. /\ UNCHANGED <<polite, copy, call, at, left>> /\ leaked' \in 0 .. Memory
          /\ waits' \in [Client -> Waits] /\ job' = "reset"
      BY <1>1, AllocationAssumption DEF Malloc, Serves, Answered
    <2> PICK a \in Addr \ live, s \in {"UNSHARED", "negative", "large"} :
          /\ live' = live \cup {a} /\ ver' = [ver EXCEPT ![a] = @ + 1]
          /\ \E old \in {dir[a].sharers, << >>} :
                 dir' = [dir EXCEPT ![a] = [iscached |-> s, sharers |-> old]]
      BY <1>1 DEF Malloc
    <2> PICK old \in {dir[a].sharers, << >>} :
            dir' = [dir EXCEPT ![a] = [iscached |-> s, sharers |-> old]]
      OBVIOUS
    <2>2. [iscached |-> s, sharers |-> old] \in [iscached : State, sharers : Seq(Client)]
      <3>1. dir[a] \in [iscached : State, sharers : Seq(Client)]
        OBVIOUS
      <3>2. dir[a].sharers \in Seq(Client) /\ << >> \in Seq(Client)
        BY <3>1
      <3>3. old \in Seq(Client)
        BY <3>2
      <3> QED
        BY <3>3
    <2>3. live' \subseteq Addr /\ ver' \in [Addr -> Nat]
      OBVIOUS
    <2>4. dir' \in [Addr -> [iscached : State, sharers : Seq(Client)]]
      BY <2>2
    <2> QED
      BY <2>1, <2>3, <2>4
  <1>2. ASSUME NEW n \in Client, Begin(n) PROVE TypeOK'
    <2>1. PICK c \in Calls : call' = [call EXCEPT ![n] = c]
      BY <1>2 DEF Begin
    <2>2. /\ UNCHANGED <<polite, live, ver, dir, copy, job, at, left, leaked>>
          /\ waits' = [waits EXCEPT ![n] = "call"]
      BY <1>2 DEF Begin
    <2> QED
      BY <2>1, <2>2
  <1>3. ASSUME NEW n \in Client, Return(n) \/ Refused(n) PROVE TypeOK'
    BY <1>3 DEF Return, Refused
  <1>4. ASSUME NEW n \in Client, Listen(n) \/ LockAsked(n) PROVE TypeOK'
    BY <1>4 DEF Listen, LockAsked, Spent
  <1>5. ASSUME NEW n \in Client, Fail(n) PROVE TypeOK'
    <2>1. /\ copy' = [copy EXCEPT ![n] = [a \in Addr |-> None]]
          /\ waits' = [waits EXCEPT ![n] = "gone"]
          /\ UNCHANGED <<polite, live, ver, dir, call, job, at, left, leaked>>
      BY <1>5 DEF Fail
    <2>2. None \in [ver : Nat, by : {"none", "read", "write"}]
      BY DEF None
    <2>3. copy' \in [Client -> [Addr -> [ver : Nat, by : {"none", "read", "write"}]]]
      BY <2>1, <2>2
    <2>4. waits' \in [Client -> Waits]
      BY <2>1
    <2> QED
      BY <2>1, <2>3, <2>4
  <1>6. ASSUME NEW n \in Client, Close(n) \/ Reconnect(n) \/ Foreign(n) PROVE TypeOK'
    <2>1. /\ UNCHANGED <<polite, live, ver, dir, copy, call, at, left>>
          /\ leaked' \in 0 .. Memory /\ job' \in {"none", "dead"}
      BY <1>6, AllocationAssumption DEF Close, Reconnect, Foreign, Serves, Ends
    <2>2. waits' \in [Client -> Waits]
      BY <1>6 DEF Close, Reconnect, Foreign, Ends
    <2> QED
      BY <2>1, <2>2
  <1>7. ASSUME NEW n \in Client, FreeReturns(n) PROVE TypeOK'
    BY <1>7 DEF FreeReturns, Answered
  <1>8. ASSUME NEW n \in Client, NEW a \in Addr, ReadHit(n, a) PROVE TypeOK'
    BY <1>8 DEF ReadHit
  <1>9. ASSUME NEW n \in Client, NEW a \in Addr, ReadMiss(n, a) PROVE TypeOK'
    BY <1>9, AllocationAssumption DEF ReadMiss, Serves, Answered
  <1>10. ASSUME NEW n \in Client, NEW a \in Addr, ReadNull(n, a) PROVE TypeOK'
    BY <1>10, AllocationAssumption DEF ReadNull, Serves, Ends
  <1>11. ASSUME NEW n \in Client, NEW a \in Addr, Write(n, a) PROVE TypeOK'
    <2>1. /\ ver' = [ver EXCEPT ![a] = @ + 1]
          /\ copy' = [copy EXCEPT ![n][a] = [ver |-> ver[a] + 1, by |-> "write"]]
          /\ dir' = [dir EXCEPT ![a] = [iscached |-> "EXCLUS", sharers |-> << >>]]
          /\ UNCHANGED <<polite, live, call>> /\ leaked' \in 0 .. Memory
      BY <1>11, AllocationAssumption DEF Write, Serves
    <2>2. /\ ver' \in [Addr -> Nat]
          /\ dir' \in [Addr -> [iscached : State, sharers : Seq(Client)]]
          /\ copy' \in [Client -> [Addr -> [ver : Nat, by : {"none", "read", "write"}]]]
      BY <2>1
    <2>3. dir[a].sharers \in Seq(Client)
      OBVIOUS
    <2>4. /\ waits' \in [Client -> Waits] /\ job' \in {"write", "reset"}
          /\ at' \in Addr /\ left' \in Seq(Client)
      BY <1>11, <2>3 DEF Write, Answered
    <2> QED
      BY <2>1, <2>2, <2>4
  <1>12. ASSUME NEW n \in Client, NEW a \in Addr, Free(n, a) PROVE TypeOK'
    BY <1>12, AllocationAssumption DEF Free, Serves
  <1>13. CASE Invalidate
    <2>1. /\ left' = Tail(left) /\ left # << >> /\ Head(left) \in Client
          /\ copy' = [copy EXCEPT ![Head(left)][at] = None]
          /\ UNCHANGED <<polite, live, ver, dir, call, job, at, leaked>>
      BY <1>13 DEF Invalidate, Broadcasts
    <2>2. waits' \in [Client -> Waits]
      BY <1>13, <2>1 DEF Invalidate, Spent
    <2>3. left' \in Seq(Client)
      BY <2>1
    <2>4. copy' \in [Client -> [Addr -> [ver : Nat, by : {"none", "read", "write"}]]]
      BY <2>1 DEF None
    <2> QED
      BY <2>1, <2>2, <2>3, <2>4
  <1>14. CASE RunOut \/ Unheard \/ EndBroadcast
    BY <1>14 DEF RunOut, Unheard, EndBroadcast
  <1>15. CASE UNCHANGED vars
    BY <1>15 DEF vars
  <1> QED
    BY <1>1, <1>2, <1>3, <1>4, <1>5, <1>6, <1>7, <1>8, <1>9, <1>10, <1>11, <1>12, <1>13,
       <1>14, <1>15 DEF Next, HomeStep, CallStep, ProgramStep

\* Programs respect lifetimes, from the call to Home's answer: what a call is
\* about is live, a free has its address for itself, and Home frees what the
\* client that waits for it has asked it to.
LifeInv ==
    /\ \A n \in Client : waits[n] \in {"no", "listen"} => call[n] = NoCall
    /\ \A n \in Client : waits[n] = "call" /\ call[n].addr # NoAddr => call[n].addr \in live
    /\ \A m, n \in Client :
          m # n /\ call[m].addr = call[n].addr /\ call[n].addr # NoAddr =>
              \/ waits[m] \in {"done", "gone"} \/ waits[n] \in {"done", "gone"}
              \/ call[n].op # "FREE"
    /\ \A n \in Client : waits[n] = "answer" =>
          job = "dead" \/ (job = "free" /\ call[n] = Op("FREE", at))

\* A step of n with its call, in which n neither begins one nor resumes one it
\* has done with, and Home goes on only when nobody else waits for its answer.
LEMMA LifeKept ==
    ASSUME TypeOK, LifeInv, NEW n \in Client, live \subseteq live',
           \A m \in Client : m # n => waits'[m] = waits[m] /\ call'[m] = call[m],
           waits'[n] \in {"no", "listen"} => call'[n] = NoCall,
           waits'[n] = "call" => waits[n] = "call",
           \/ call'[n] = NoCall
           \/ /\ call'[n] = call[n]
              /\ waits[n] \in {"done", "gone"} => waits'[n] \in {"done", "gone"},
           waits'[n] = "answer" => job' = "dead" \/ (job' = "free" /\ call'[n] = Op("FREE", at')),
           \A m \in Client : m # n /\ waits[m] = "answer" =>
               job' = "dead" \/ UNCHANGED <<job, at>>
    PROVE  LifeInv'
  <1>1. ASSUME NEW k \in Client PROVE waits'[k] \in {"no", "listen"} => call'[k] = NoCall
    BY DEF LifeInv
  <1>2. ASSUME NEW k \in Client, waits'[k] = "call", call'[k].addr # NoAddr
        PROVE  call'[k].addr \in live'
    BY <1>2 DEF LifeInv, NoCall, Op
  <1>3. ASSUME NEW k \in Client, NEW l \in Client, k # l, call'[k].addr = call'[l].addr,
               call'[l].addr # NoAddr,
               waits'[k] \notin {"done", "gone"}, waits'[l] \notin {"done", "gone"}
        PROVE  call'[l].op # "FREE"
    <2>1. /\ call'[k] = call[k] /\ waits[k] \notin {"done", "gone"}
          /\ call'[l] = call[l] /\ waits[l] \notin {"done", "gone"}
      BY <1>3 DEF NoCall, Op
    <2> QED
      BY <1>3, <2>1 DEF LifeInv
  <1>4. ASSUME NEW k \in Client, waits'[k] = "answer"
        PROVE  job' = "dead" \/ (job' = "free" /\ call'[k] = Op("FREE", at'))
    BY <1>4 DEF LifeInv
  <1> QED
    BY <1>1, <1>2, <1>3, <1>4 DEF LifeInv, Op, NoCall

LEMMA LifeStep == ASSUME TypeOK, LifeInv, [Next]_vars PROVE LifeInv'
  <1> USE DEF memoryVars, clientVars, homeVars
  <1> DEFINE Quiet(n) == \A m \in Client : m # n => waits'[m] = waits[m] /\ call'[m] = call[m]
  <1>1. ASSUME NEW n \in Client, Malloc(n) PROVE LifeInv'
    <2>1. /\ waits' = [waits EXCEPT ![n] = "close"] /\ call' = call
          /\ job = "none" /\ live \subseteq live' /\ waits[n] = "call"
      BY <1>1 DEF Malloc, Serves, Answered, Enter
    <2>2. Quiet(n) /\ waits'[n] = "close"
      BY <2>1 DEF TypeOK
    <2>3. \A m \in Client : waits[m] # "answer"
      BY <2>1 DEF LifeInv
    <2> QED
      BY <2>1, <2>2, <2>3, LifeKept
  <1>2. ASSUME NEW n \in Client, Begin(n) PROVE LifeInv'
    <2>1. PICK c \in Calls : Lawful(n, c) /\ call' = [call EXCEPT ![n] = c]
      BY <1>2 DEF Begin
    <2>2. /\ UNCHANGED <<live, job, at>>
          /\ waits' = [waits EXCEPT ![n] = "call"]
      BY <1>2 DEF Begin, Enter
    <2>3. Quiet(n) /\ waits'[n] = "call" /\ call'[n] = c
      BY <2>1, <2>2 DEF TypeOK
    <2>4. ASSUME NEW k \in Client, NEW l \in Client, k # l, call'[k].addr = call'[l].addr,
                 call'[l].addr # NoAddr,
                 waits'[k] \notin {"done", "gone"}, waits'[l] \notin {"done", "gone"}
          PROVE  call'[l].op # "FREE"
      <3>1. CASE k = n
        BY <3>1, <2>1, <2>3, <2>4 DEF Lawful
      <3>2. CASE l = n
        BY <3>2, <2>1, <2>3, <2>4 DEF Lawful
      <3>3. CASE k # n /\ l # n
        BY <3>3, <2>3, <2>4 DEF LifeInv
      <3> QED
        BY <3>1, <3>2, <3>3
    <2>5. ASSUME NEW k \in Client
          PROVE  /\ waits'[k] \in {"no", "listen"} => call'[k] = NoCall
                 /\ waits'[k] = "call" /\ call'[k].addr # NoAddr => call'[k].addr \in live'
                 /\ waits'[k] = "answer" =>
                       job' = "dead" \/ (job' = "free" /\ call'[k] = Op("FREE", at'))
      BY <2>1, <2>2, <2>3 DEF Lawful, LifeInv
    <2> QED
      BY <2>4, <2>5 DEF LifeInv, NoCall, Op
  <1>3. ASSUME NEW n \in Client, Return(n) \/ Refused(n) PROVE LifeInv'
    <2>1. /\ waits' = [waits EXCEPT ![n] = "no"] /\ call' = [call EXCEPT ![n] = NoCall]
          /\ UNCHANGED <<live, job, at>>
      BY <1>3 DEF Return, Refused, Enter
    <2>2. Quiet(n) /\ waits'[n] = "no" /\ call'[n] = NoCall
      BY <2>1 DEF TypeOK
    <2> QED
      BY <2>1, <2>2, LifeKept
  <1>4. ASSUME NEW n \in Client, Listen(n) PROVE LifeInv'
    <2>1. /\ waits' = [waits EXCEPT ![n] = "listen"] /\ waits[n] = "no"
          /\ UNCHANGED <<call, live, job, at>>
      BY <1>4 DEF Listen, Enter
    <2>2. Quiet(n) /\ waits'[n] = "listen" /\ call'[n] = NoCall
      BY <2>1 DEF TypeOK, LifeInv
    <2> QED
      BY <2>1, <2>2, LifeKept
  <1>5. ASSUME NEW m \in Client, Reached(m), Spent(m), UNCHANGED <<call, live, job, at>>
        PROVE  LifeInv'
    <2>1. waits' = [waits EXCEPT ![m] = IF waits[m] = "write" THEN "back" ELSE "no"]
      BY <1>5 DEF Spent, Enter
    <2>2. Quiet(m) /\ waits'[m] \in {"back", "no"} /\ call'[m] = call[m]
          /\ (waits'[m] = "no" => call'[m] = NoCall) /\ waits[m] \notin {"done", "gone"}
      BY <1>5, <2>1 DEF TypeOK, LifeInv, Reached
    <2> QED
      BY <1>5, <2>2, LifeKept
  <1>6. ASSUME NEW n \in Client, LockAsked(n) PROVE LifeInv'
    BY <1>6, <1>5 DEF LockAsked
  <1>7. CASE Invalidate
    <2>1. Head(left) \in Client
      BY <1>7 DEF Invalidate, Broadcasts, TypeOK
    <2> QED
      BY <2>1, <1>7, <1>5 DEF Invalidate
  <1>8. ASSUME NEW n \in Client, Fail(n) PROVE LifeInv'
    <2>1. /\ waits' = [waits EXCEPT ![n] = "gone"] /\ UNCHANGED <<call, live, job, at>>
      BY <1>8 DEF Fail, Enter
    <2>2. Quiet(n) /\ waits'[n] = "gone" /\ call'[n] = call[n]
      BY <2>1 DEF TypeOK
    <2> QED
      BY <2>1, <2>2, LifeKept
  <1>9. ASSUME NEW n \in Client, Close(n) \/ Reconnect(n) PROVE LifeInv'
    <2>1. /\ waits' = [waits EXCEPT ![n] = "done"] /\ UNCHANGED <<call, live, at>>
          /\ job \in {"none", "reset"}
      BY <1>9 DEF Close, Reconnect, Enter
    <2>2. Quiet(n) /\ waits'[n] = "done" /\ call'[n] = call[n]
      BY <2>1 DEF TypeOK
    <2>3. \A m \in Client : waits[m] # "answer"
      BY <2>1 DEF LifeInv
    <2> QED
      BY <2>1, <2>2, <2>3, LifeKept
  <1>10. ASSUME NEW n \in Client, waits[n] = "call", Ends(n), UNCHANGED <<call, live>>
         PROVE  LifeInv'
    <2>1. waits' = [waits EXCEPT ![n] = "answer"] /\ job' = "dead" /\ UNCHANGED at
      BY <1>10 DEF Ends, Enter
    <2>2. Quiet(n) /\ waits'[n] = "answer" /\ call'[n] = call[n]
      BY <2>1, <1>10 DEF TypeOK
    <2> QED
      BY <1>10, <2>1, <2>2, LifeKept
  <1>11. ASSUME NEW n \in Client, Foreign(n) PROVE LifeInv'
    BY <1>11, <1>10 DEF Foreign, Serves
  <1>12. ASSUME NEW n \in Client, NEW a \in Addr, ReadNull(n, a) PROVE LifeInv'
    BY <1>12, <1>10 DEF ReadNull, Serves
  <1>13. ASSUME NEW n \in Client, FreeReturns(n) PROVE LifeInv'
    <2>1. /\ waits' = [waits EXCEPT ![n] = "close"] /\ UNCHANGED <<call, at>>
          /\ live' = live \ {at} /\ job = "free" /\ job' = "reset" /\ waits[n] = "answer"
      BY <1>13 DEF FreeReturns, Answered, Enter
    <2>2. call[n] = Op("FREE", at) /\ at \in Addr
      BY <2>1 DEF LifeInv, TypeOK
    <2>3. Quiet(n) /\ waits'[n] = "close"
      BY <2>1 DEF TypeOK
    <2>4. \A k \in Client : k # n /\ call[k].addr = at /\ at # NoAddr =>
                               waits[k] \in {"done", "gone"}
      BY <2>1, <2>2 DEF LifeInv, Op
    <2>5. ASSUME NEW k \in Client, waits'[k] = "call", call'[k].addr # NoAddr
          PROVE  call'[k].addr \in live'
      BY <2>1, <2>3, <2>4, <2>5 DEF LifeInv
    <2>6. ASSUME NEW k \in Client PROVE waits'[k] # "answer"
      <3>1. CASE k = n
        BY <2>3, <3>1
      <3>2. CASE k # n
        <4>1. waits[k] = "answer" => call[k] = Op("FREE", at)
          BY <2>1 DEF LifeInv
        <4>2. call[n].op = "FREE" /\ call[n].addr = at
          BY <2>2 DEF Op
        <4>3. at # NoAddr
          BY <2>2, AllocationAssumption
        <4> QED
          BY <3>2, <2>1, <2>3, <2>4, <4>1, <4>2, <4>3 DEF Op
      <3> QED
        BY <3>1, <3>2
    <2>7. ASSUME NEW k \in Client, NEW l \in Client, k # l, call'[k].addr = call'[l].addr,
                 call'[l].addr # NoAddr,
                 waits'[k] \notin {"done", "gone"}, waits'[l] \notin {"done", "gone"}
          PROVE  call'[l].op # "FREE"
      <3>1. waits[k] \notin {"done", "gone"} /\ waits[l] \notin {"done", "gone"}
        BY <2>1, <2>3, <2>7
      <3> QED
        BY <3>1, <2>1, <2>7 DEF LifeInv
    <2>8. ASSUME NEW k \in Client PROVE waits'[k] \in {"no", "listen"} => call'[k] = NoCall
      BY <2>1, <2>3 DEF LifeInv
    <2> QED
      BY <2>5, <2>6, <2>7, <2>8 DEF LifeInv, NoCall
  <1>14. ASSUME NEW n \in Client, NEW a \in Addr, ReadHit(n, a) PROVE LifeInv'
    <2>1. /\ waits' = [waits EXCEPT ![n] = "done"] /\ UNCHANGED <<call, live, job, at>>
      BY <1>14 DEF ReadHit, Enter
    <2>2. Quiet(n) /\ waits'[n] = "done" /\ call'[n] = call[n]
      BY <2>1 DEF TypeOK
    <2> QED
      BY <2>1, <2>2, LifeKept
  <1>15. ASSUME NEW n \in Client, NEW a \in Addr, ReadMiss(n, a) \/ Write(n, a) PROVE LifeInv'
    <2>1. /\ \E w \in {"close", "write"} : waits' = [waits EXCEPT ![n] = w]
          /\ UNCHANGED <<call, live>> /\ waits[n] = "call" /\ job = "none"
      BY <1>15 DEF ReadMiss, Write, Serves, Answered, Enter
    <2>2. Quiet(n) /\ waits'[n] \in {"close", "write"} /\ call'[n] = call[n]
      BY <2>1 DEF TypeOK
    <2>3. \A m \in Client : waits[m] # "answer"
      BY <2>1 DEF LifeInv
    <2> QED
      BY <2>1, <2>2, <2>3, LifeKept
  <1>16. ASSUME NEW n \in Client, NEW a \in Addr, Free(n, a) PROVE LifeInv'
    <2>1. /\ waits' = [waits EXCEPT ![n] = "answer"] /\ UNCHANGED <<call, live>>
          /\ waits[n] = "call" /\ call[n] = Op("FREE", a) /\ job = "none"
          /\ job' = "free" /\ at' = a
      BY <1>16 DEF Free, Serves, Enter
    <2>2. Quiet(n) /\ waits'[n] = "answer" /\ call'[n] = Op("FREE", at')
      BY <2>1 DEF TypeOK
    <2>3. \A m \in Client : waits[m] # "answer"
      BY <2>1 DEF LifeInv
    <2> QED
      BY <2>1, <2>2, <2>3, LifeKept
  <1>17. CASE RunOut \/ Unheard \/ EndBroadcast
    <2>1. UNCHANGED <<waits, call, live, at>> /\ (job' = "dead" \/ job = "write")
      BY <1>17 DEF RunOut, Unheard, EndBroadcast
    <2>2. \A n \in Client : waits[n] = "answer" =>
             job' = "dead" \/ (job' = "free" /\ call[n] = Op("FREE", at))
      BY <2>1 DEF LifeInv
    <2> QED
      BY <2>1, <2>2 DEF LifeInv, Op, NoCall
  <1>18. CASE UNCHANGED vars
    BY <1>18 DEF vars, LifeInv, Op, NoCall
  <1> QED
    BY <1>1, <1>2, <1>3, <1>4, <1>6, <1>7, <1>8, <1>9, <1>11, <1>12, <1>13, <1>14, <1>15,
       <1>16, <1>17, <1>18 DEF Next, HomeStep, CallStep, ProgramStep

\* What the copies' being tracked rests on.
TrackInv == TypeOK /\ LifeInv /\ ToldBeforeServing /\ CopiesTracked

LEMMA InitTrack == ASSUME AllocationAssumption, Init PROVE TrackInv
  <1>1. TypeOK
    <2>1. /\ None \in [ver : Nat, by : {"none", "read", "write"}]
          /\ [iscached |-> "UNSHARED", sharers |-> << >>] \in [iscached : State, sharers : Seq(Client)]
      BY DEF None, State
    <2>2. /\ copy \in [Client -> [Addr -> [ver : Nat, by : {"none", "read", "write"}]]]
          /\ dir \in [Addr -> [iscached : State, sharers : Seq(Client)]]
      BY <2>1 DEF Init
    <2>3. call \in [Client -> Calls \cup {NoCall}] /\ waits \in [Client -> Waits]
      BY DEF Init, Waits
    <2>4. /\ polite \in BOOLEAN /\ live \subseteq Addr /\ ver \in [Addr -> Nat]
          /\ job \in {"none", "reset", "write", "free", "dead"}
          /\ at \in Addr /\ left \in Seq(Client) /\ leaked \in 0 .. Memory
      BY AllocationAssumption DEF Init
    <2> QED
      BY <2>2, <2>3, <2>4 DEF TypeOK
  <1>2. LifeInv
    <2>1. \A n \in Client : call[n] = NoCall /\ waits[n] = "no"
      BY DEF Init
    <2>2. \A n \in Client : call[n].addr = NoAddr
      BY <2>1 DEF NoCall, Op
    <2> QED
      BY <2>1, <2>2 DEF LifeInv
  <1>3. ToldBeforeServing /\ CopiesTracked
    BY DEF Init, ToldBeforeServing, CopiesTracked, None
  <1> QED
    BY <1>1, <1>2, <1>3 DEF TrackInv

\* A step that leaves the copies, the directory and the broadcast alone keeps
\* what is tracked, if it frees nothing and begins no broadcast.
LEMMA QuietTrack ==
    ASSUME TrackInv, UNCHANGED <<ver, live, dir, copy, at, left>>, job' # "free" \/ job = "free",
           job' \in {"none", "reset"} => left = << >>
    PROVE  CopiesTracked' /\ ToldBeforeServing'
  BY DEF TrackInv, CopiesTracked, ToldBeforeServing

LEMMA TrackStep == ASSUME AllocationAssumption, TrackInv, [Next]_vars
                   PROVE CopiesTracked' /\ ToldBeforeServing'
  <1> USE DEF TrackInv, memoryVars, clientVars, homeVars
  <1>1. ASSUME NEW n \in Client, Malloc(n) PROVE CopiesTracked' /\ ToldBeforeServing'
    <2> PICK a \in Addr \ live, s \in {"UNSHARED", "negative", "large"} :
          /\ live' = live \cup {a} /\ ver' = [ver EXCEPT ![a] = @ + 1]
          /\ \E old \in {dir[a].sharers, << >>} :
                 dir' = [dir EXCEPT ![a] = [iscached |-> s, sharers |-> old]]
      BY <1>1 DEF Malloc
    <2>1. UNCHANGED <<copy, at, left>> /\ job = "none" /\ job' = "reset"
      BY <1>1 DEF Malloc, Serves, Answered
    <2>2. \A b \in Addr : b # a => ver'[b] = ver[b] /\ dir'[b] = dir[b]
      BY DEF TypeOK
    <2>3. ASSUME NEW m \in Client, NEW b \in Addr, copy[m][b].by = "read"
          PROVE  \/ /\ copy[m][b].ver = ver'[b] /\ b \in live'
                    /\ dir'[b].iscached = "SHARED" /\ m \in Range(dir'[b].sharers)
                 \/ at = b /\ m \in Range(left)
      BY <2>2, <2>3 DEF CopiesTracked
    <2> QED
      BY <2>1, <2>3 DEF CopiesTracked, ToldBeforeServing
  <1>2. ASSUME NEW n \in Client,
               Begin(n) \/ Return(n) \/ Refused(n) \/ Listen(n) \/ LockAsked(n) \/ Reconnect(n)
        PROVE  CopiesTracked' /\ ToldBeforeServing'
    BY <1>2, QuietTrack
       DEF Begin, Return, Refused, Listen, LockAsked, Reconnect, ToldBeforeServing
  <1>3. ASSUME NEW n \in Client, Close(n) \/ Foreign(n) PROVE CopiesTracked' /\ ToldBeforeServing'
    BY <1>3, QuietTrack DEF Close, Foreign, Ends, ToldBeforeServing
  <1>4. ASSUME NEW n \in Client, Fail(n) PROVE CopiesTracked' /\ ToldBeforeServing'
    <2>1. /\ copy' = [copy EXCEPT ![n] = [a \in Addr |-> None]]
          /\ UNCHANGED <<ver, live, dir, job, at, left>>
      BY <1>4 DEF Fail
    <2>2. \A m \in Client, b \in Addr : copy'[m][b] = copy[m][b] \/ copy'[m][b].by = "none"
      BY <2>1 DEF TypeOK, None
    <2> QED
      BY <2>1, <2>2 DEF CopiesTracked, ToldBeforeServing
  <1>5. ASSUME NEW n \in Client, FreeReturns(n) PROVE CopiesTracked' /\ ToldBeforeServing'
    <2>1. /\ live' = live \ {at} /\ ver' = [ver EXCEPT ![at] = @ + 1]
          /\ UNCHANGED <<dir, copy, at, left>>
          /\ job = "free" /\ job' = "reset" /\ left = << >>
      BY <1>5 DEF FreeReturns, Answered
    <2>2. \A b \in Addr : b # at => ver'[b] = ver[b]
      BY <2>1 DEF TypeOK
    <2> QED
      BY <2>1, <2>2, RangeOfEmpty DEF CopiesTracked, ToldBeforeServing
  <1>6. ASSUME NEW n \in Client, NEW a \in Addr, ReadHit(n, a) \/ ReadNull(n, a)
        PROVE  CopiesTracked' /\ ToldBeforeServing'
    BY <1>6, QuietTrack DEF ReadHit, ReadNull, Ends, ToldBeforeServing
  <1>7. ASSUME NEW n \in Client, NEW a \in Addr, ReadMiss(n, a)
        PROVE  CopiesTracked' /\ ToldBeforeServing'
    <2>1. /\ dir' = [dir EXCEPT ![a] = [iscached |-> "SHARED",
                                        sharers |-> Append(dir[a].sharers, n)]]
          /\ copy' = [copy EXCEPT ![n][a] = [ver |-> ver[a], by |-> "read"]]
          /\ UNCHANGED <<live, ver, at, left>>
          /\ job = "none" /\ job' = "reset"
      BY <1>7 DEF ReadMiss, Serves, Answered
    <2>2. a \in live
      <3>1. waits[n] = "call" /\ call[n] = Op("READ", a) /\ a # NoAddr
        BY <1>7, AllocationAssumption DEF ReadMiss, Serves
      <3> QED
        BY <3>1 DEF LifeInv, Op
    <2>3. Range(dir'[a].sharers) = Range(dir[a].sharers) \cup {n}
      BY <2>1, RangeOfAppend DEF TypeOK
    <2>4. dir'[a].iscached = "SHARED" /\ \A b \in Addr : b # a => dir'[b] = dir[b]
      BY <2>1 DEF TypeOK
    <2>5. \A m \in Client, b \in Addr :
             copy'[m][b] = IF m = n /\ b = a THEN [ver |-> ver[a], by |-> "read"] ELSE copy[m][b]
      BY <2>1 DEF TypeOK
    <2>6. ASSUME NEW m \in Client, NEW b \in Addr, copy'[m][b].by = "read"
          PROVE  \/ /\ copy'[m][b].ver = ver[b] /\ b \in live
                    /\ dir'[b].iscached = "SHARED" /\ m \in Range(dir'[b].sharers)
                 \/ at = b /\ m \in Range(left)
      <3>1. CASE m = n /\ b = a
        BY <3>1, <2>2, <2>3, <2>4, <2>5
      <3>2. CASE ~ (m = n /\ b = a)
        <4>1. copy'[m][b] = copy[m][b]
          BY <3>2, <2>5
        <4>2. m \in Range(dir[b].sharers) => m \in Range(dir'[b].sharers)
          BY <2>3, <2>4
        <4>3. dir[b].iscached = "SHARED" => dir'[b].iscached = "SHARED"
          BY <2>4
        <4> QED
          BY <4>1, <4>2, <4>3, <2>6 DEF CopiesTracked
      <3> QED
        BY <3>1, <3>2
    <2> QED
      BY <2>1, <2>6 DEF CopiesTracked, ToldBeforeServing
  <1>8. ASSUME NEW n \in Client, NEW a \in Addr, Write(n, a)
        PROVE  CopiesTracked' /\ ToldBeforeServing'
    <2>1. /\ ver' = [ver EXCEPT ![a] = @ + 1] /\ live' = live
          /\ copy' = [copy EXCEPT ![n][a] = [ver |-> ver[a] + 1, by |-> "write"]]
          /\ dir' = [dir EXCEPT ![a] = [iscached |-> "EXCLUS", sharers |-> << >>]]
          /\ job = "none" /\ left = << >>
      BY <1>8 DEF Write, Serves, ToldBeforeServing
    <2>2. \A m \in Client, b \in Addr :
             copy'[m][b] = IF m = n /\ b = a THEN [ver |-> ver[a] + 1, by |-> "write"]
                           ELSE copy[m][b]
      BY <2>1 DEF TypeOK
    <2>3. \A b \in Addr : b # a => dir'[b] = dir[b] /\ ver'[b] = ver[b]
      BY <2>1 DEF TypeOK
    <2>4. \A m \in Client, b \in Addr : copy[m][b].by = "read" =>
             /\ copy[m][b].ver = ver[b] /\ b \in live
             /\ dir[b].iscached = "SHARED" /\ m \in Range(dir[b].sharers)
      BY <2>1, RangeOfEmpty DEF CopiesTracked
    <2>5. CASE Told(a)
      <3>1. job' = "write" /\ at' = a /\ left' = dir[a].sharers
        BY <1>8, <2>5 DEF Write
      <3> QED
        BY <3>1, <2>1, <2>2, <2>3, <2>4 DEF CopiesTracked, ToldBeforeServing
    <2>6. CASE ~ Told(a)
      <3>1. job' = "reset" /\ UNCHANGED <<at, left>>
        BY <1>8, <2>6 DEF Write, Answered
      <3>2. \A m \in Client : copy[m][a].by # "read"
        BY <2>4, <2>6, RangeOfEmpty DEF Told
      <3> QED
        BY <3>1, <3>2, <2>1, <2>2, <2>3, <2>4 DEF CopiesTracked, ToldBeforeServing
    <2> QED
      BY <2>5, <2>6
  <1>9. ASSUME NEW n \in Client, NEW a \in Addr, Free(n, a)
        PROVE  CopiesTracked' /\ ToldBeforeServing'
    <2>1. /\ UNCHANGED <<live, ver, dir, copy>> /\ job = "none" /\ left = << >>
          /\ job' = "free" /\ at' = a
          /\ left' = IF dir[a].iscached # "negative" THEN dir[a].sharers ELSE << >>
      BY <1>9 DEF Free, Serves, ToldBeforeServing
    <2> QED
      BY <2>1, RangeOfEmpty DEF CopiesTracked, ToldBeforeServing
  <1>10. CASE Invalidate
    <2> DEFINE m == Head(left)
    <2>1. /\ copy' = [copy EXCEPT ![m][at] = None] /\ left' = Tail(left)
          /\ UNCHANGED <<live, ver, dir, job, at>>
          /\ job \in {"write", "free"} /\ left # << >>
      BY <1>10 DEF Invalidate, Broadcasts
    <2>2. Range(left) = {m} \cup Range(left') /\ m \in Client
      BY <2>1, RangeOfTail DEF TypeOK
    <2>3. \A k \in Client, b \in Addr :
             copy'[k][b] = IF k = m /\ b = at THEN None ELSE copy[k][b]
      BY <2>1, <2>2 DEF TypeOK
    <2> QED
      BY <2>1, <2>2, <2>3 DEF CopiesTracked, ToldBeforeServing, None
  <1>11. CASE RunOut \/ Unheard \/ EndBroadcast
    BY <1>11, QuietTrack DEF RunOut, Unheard, EndBroadcast
  <1>12. CASE UNCHANGED vars
    BY <1>12, QuietTrack DEF vars, ToldBeforeServing
  <1> QED
    BY <1>1, <1>2, <1>3, <1>4, <1>5, <1>6, <1>7, <1>8, <1>9, <1>10, <1>11, <1>12
       DEF Next, HomeStep, CallStep, ProgramStep

\* A copy that was read (performRead) is current and its reader is listed, or
\* the reader has still to be told, over all lives of every address, whatever
\* operations begin while Home broadcasts and whichever clients end.
THEOREM ReadCopiesAreTracked == Spec => []CopiesTracked
  <1>1. Init => TrackInv
    BY InitTrack, AllocationAssumption
  <1>2. TrackInv /\ [Next]_vars => TrackInv'
    BY TrackStep, LifeStep, TypeStep, AllocationAssumption DEF TrackInv
  <1>3. TrackInv => CopiesTracked
    BY DEF TrackInv
  <1> QED
    BY <1>1, <1>2, <1>3, PTL DEF Spec

\* What a cache returns although it is out of date was written by its own node.
THEOREM StaleMeansWritten == Spec => []StaleCopiesAreWritten
  <1>1. Init => TrackInv
    BY InitTrack, AllocationAssumption
  <1>2. TrackInv /\ [Next]_vars => TrackInv'
    BY TrackStep, LifeStep, TypeStep, AllocationAssumption DEF TrackInv
  <1>3. TrackInv => StaleCopiesAreWritten
    BY DEF TrackInv, TypeOK, CopiesTracked, StaleCopiesAreWritten
  <1> QED
    BY <1>1, <1>2, <1>3, PTL DEF Spec

Busy == {"call", "answer", "write", "back", "close"}

\* While Home is up, polite programs are in one operation at a time,
OneBusy == \A m, n \in Client : waits[m] \in Busy /\ waits[n] \in Busy => m = n

\* Home is busy with it or idle,
HomeServes ==
    job \in {"reset", "write", "free"} => \E n \in Client : waits[n] \in Busy \ {"call"}

\* what the client of a call was careful about is still so,
CallsAreCareful == \A n \in Client : waits[n] = "call" => Careful(n, call[n])

\* and in a broadcast everybody left can be told, once.
AllCanBeTold ==
    job \in {"write", "free"} =>
        IsInjective(left) /\ \A i \in DOMAIN left : Reached(left[i])

Orderly == OneBusy /\ HomeServes /\ CallsAreCareful /\ AllCanBeTold

PoliteInv == TypeOK /\ (polite /\ job # "dead" => Orderly) /\ DiesOnlyOfLeaks

LEMMA InitPolite == ASSUME AllocationAssumption, Init PROVE PoliteInv
  <1>1. TypeOK
    BY InitTrack DEF TrackInv
  <1>2. \A n \in Client : waits[n] = "no"
    BY DEF Init
  <1>3. job = "none"
    BY DEF Init
  <1> QED
    BY <1>1, <1>2, <1>3
       DEF PoliteInv, Orderly, OneBusy, HomeServes, CallsAreCareful, AllCanBeTold, Busy, DiesOnlyOfLeaks

\* Programs do not change their manners.
LEMMA PoliteForever == ASSUME [Next]_vars PROVE polite' = polite
  BY DEF Next, HomeStep, CallStep, ProgramStep, RunOut, Invalidate, Unheard, EndBroadcast,
         FreeReturns, Malloc, Close, Reconnect, Return, Foreign, ReadHit, ReadMiss, ReadNull, Write,
         Free, Begin, Listen, Refused, Fail, LockAsked, vars

\* Home is idle until it takes the call.
LEMMA CallerWaits ==
    ASSUME TypeOK, Orderly, job # "dead", NEW n \in Client, waits[n] = "call" PROVE job = "none"
  BY DEF Orderly, OneBusy, HomeServes, Busy, TypeOK

\* A step with which the one operation goes on past the call.
LEMMA BusyStep ==
    ASSUME TypeOK, Orderly, NEW n \in Client, NEW w, waits[n] \in Busy, w # "call",
           waits' = [waits EXCEPT ![n] = w],
           job' \in {"reset", "write", "free"} => w \in Busy
    PROVE  OneBusy' /\ HomeServes' /\ CallsAreCareful'
  <1>1. \A m \in Client : waits'[m] = IF m = n THEN w ELSE waits[m]
    BY DEF TypeOK
  <1>2. \A m \in Client : m # n => waits'[m] \notin Busy
    BY <1>1 DEF Orderly, OneBusy
  <1>3. waits'[n] = w
    BY <1>1
  <1>4. OneBusy' /\ CallsAreCareful'
    BY <1>2, <1>3 DEF OneBusy, CallsAreCareful, Busy
  <1>5. HomeServes'
    BY <1>3 DEF HomeServes
  <1> QED
    BY <1>4, <1>5

\* Those whom a caller can tell it still can while all who listen go on to.
LEMMA CareLasts ==
    ASSUME TypeOK, NEW k \in Client, NEW c, Careful(k, c), UNCHANGED <<dir, copy>>,
           c.addr \in Addr \/ c.op = "MALLOC",
           \A m \in Client : m # k /\ waits[m] = "listen" => waits'[m] = "listen"
    PROVE  Careful(k, c)'
  <1>1. CASE c.op = "MALLOC"
    BY <1>1 DEF Careful
  <1>2. CASE c.addr \in Addr
    <2>1. dir[c.addr] \in [iscached : State, sharers : Seq(Client)]
      BY <1>2 DEF TypeOK
    <2>2. \A i \in DOMAIN dir[c.addr].sharers : dir[c.addr].sharers[i] \in Client
      BY <2>1
    <2>3. CanTell(k, c.addr) => CanTell(k, c.addr)'
      BY <2>2 DEF CanTell
    <2> QED
      BY <2>3 DEF Careful, Told
  <1> QED
    BY <1>1, <1>2

\* A home node that has ended stays so, and needs no more memory.
LEMMA DeadForever == ASSUME [Next]_vars, job = "dead" PROVE UNCHANGED <<job, leaked>>
  BY DEF Next, HomeStep, CallStep, ProgramStep, RunOut, Invalidate, Unheard, Broadcasts,
         EndBroadcast, FreeReturns, Malloc, Close, Reconnect, Return, Foreign, ReadHit, ReadMiss,
         ReadNull, Write, Free, Serves, Begin, Listen, Refused, Fail, LockAsked, vars, homeVars

LEMMA PoliteStep ==
    ASSUME AllocationAssumption, polite, polite', job # "dead", TypeOK, Orderly, [Next]_vars
    PROVE  (job' # "dead" => Orderly') /\ DiesOnlyOfLeaks'
  <1> USE DEF memoryVars, clientVars, homeVars, Enter
  <1>1. ASSUME NEW n \in Client, Malloc(n) PROVE Orderly' /\ DiesOnlyOfLeaks'
    <2>1. waits[n] \in Busy /\ waits' = [waits EXCEPT ![n] = "close"] /\ job' = "reset"
      BY <1>1 DEF Malloc, Serves, Answered, Busy
    <2>2. OneBusy' /\ HomeServes' /\ CallsAreCareful'
      BY <2>1, BusyStep DEF Busy
    <2> QED
      BY <2>1, <2>2 DEF Orderly, AllCanBeTold, DiesOnlyOfLeaks
  <1>2. ASSUME NEW n \in Client, Close(n) \/ Reconnect(n) PROVE Orderly' /\ DiesOnlyOfLeaks'
    <2>1. waits[n] \in Busy /\ waits' = [waits EXCEPT ![n] = "done"] /\ job' = "none"
      BY <1>2 DEF Close, Reconnect, Busy
    <2>2. OneBusy' /\ HomeServes' /\ CallsAreCareful'
      BY <2>1, BusyStep
    <2> QED
      BY <2>1, <2>2 DEF Orderly, AllCanBeTold, DiesOnlyOfLeaks
  <1>3. ASSUME NEW n \in Client, FreeReturns(n) PROVE Orderly' /\ DiesOnlyOfLeaks'
    <2>1. waits[n] \in Busy /\ waits' = [waits EXCEPT ![n] = "close"] /\ job' = "reset"
      BY <1>3 DEF FreeReturns, Answered, Busy
    <2>2. OneBusy' /\ HomeServes' /\ CallsAreCareful'
      BY <2>1, BusyStep DEF Busy
    <2> QED
      BY <2>1, <2>2 DEF Orderly, AllCanBeTold, DiesOnlyOfLeaks
  <1>4. ASSUME NEW n \in Client, NEW w \in {"no", "done"}, waits[n] = "call",
               waits' = [waits EXCEPT ![n] = w], UNCHANGED job
        PROVE  Orderly' /\ DiesOnlyOfLeaks'
    <2>1. waits[n] \in Busy /\ w # "call" /\ job = "none" /\ job' = "none"
      BY <1>4, CallerWaits DEF Busy
    <2>2. OneBusy' /\ HomeServes' /\ CallsAreCareful'
      BY <1>4, <2>1, BusyStep
    <2> QED
      BY <1>4, <2>1, <2>2 DEF Orderly, AllCanBeTold, DiesOnlyOfLeaks
  <1>5. ASSUME NEW n \in Client, Refused(n) PROVE Orderly' /\ DiesOnlyOfLeaks'
    BY <1>5, <1>4 DEF Refused
  <1>6. ASSUME NEW n \in Client, NEW a \in Addr, ReadHit(n, a) PROVE Orderly' /\ DiesOnlyOfLeaks'
    BY <1>6, <1>4 DEF ReadHit
  <1>7. ASSUME NEW n \in Client, NEW a \in Addr, ReadMiss(n, a) PROVE Orderly' /\ DiesOnlyOfLeaks'
    <2>1. waits[n] \in Busy /\ waits' = [waits EXCEPT ![n] = "close"] /\ job' = "reset"
      BY <1>7 DEF ReadMiss, Serves, Answered, Busy
    <2>2. OneBusy' /\ HomeServes' /\ CallsAreCareful'
      BY <2>1, BusyStep DEF Busy
    <2> QED
      BY <2>1, <2>2 DEF Orderly, AllCanBeTold, DiesOnlyOfLeaks
  <1>8. ASSUME NEW n \in Client, NEW a \in Addr, ReadNull(n, a) PROVE FALSE
    <2>1. /\ waits[n] = "call" /\ call[n] = Op("READ", a)
          /\ copy[n][a] = None /\ dir[a].iscached \notin Plausible
      BY <1>8 DEF ReadNull, Serves
    <2> QED
      BY <2>1 DEF Orderly, CallsAreCareful, Careful, Op
  <1>9. ASSUME NEW n \in Client, Foreign(n) PROVE FALSE
    <2>1. waits[n] = "call" /\ call[n] = Op("FOREIGN", NoAddr)
      BY <1>9 DEF Foreign, Serves
    <2> QED
      BY <2>1 DEF Orderly, CallsAreCareful, Careful, Op
  <1>10. ASSUME NEW n \in Client, NEW a \in Addr, Write(n, a) PROVE Orderly' /\ DiesOnlyOfLeaks'
    <2>1. waits[n] = "call" /\ call[n] = Op("WRITE", a)
      BY <1>10 DEF Write, Serves
    <2>2. CASE Told(a)
      <3>1. /\ waits' = [waits EXCEPT ![n] = "write"]
            /\ job' = "write" /\ left' = dir[a].sharers
        BY <1>10, <2>2 DEF Write
      <3>2. CanTell(n, a)
        BY <2>1, <2>2 DEF Orderly, CallsAreCareful, Careful, Op
      <3>3. ASSUME NEW i \in DOMAIN left' PROVE Reached(left[i])'
        <4>1. left'[i] \in Client /\ (left'[i] = n \/ waits[left'[i]] = "listen")
          BY <3>1, <3>2 DEF TypeOK, CanTell
        <4> QED
          BY <4>1, <3>1 DEF Reached, TypeOK
      <3>4. OneBusy' /\ HomeServes' /\ CallsAreCareful'
        BY <2>1, <3>1, BusyStep DEF Busy
      <3> QED
        BY <3>1, <3>2, <3>3, <3>4 DEF CanTell, Orderly, AllCanBeTold, DiesOnlyOfLeaks
    <2>3. CASE ~ Told(a)
      <3>1. waits' = [waits EXCEPT ![n] = "close"] /\ job' = "reset"
        BY <1>10, <2>3 DEF Write, Answered
      <3>2. OneBusy' /\ HomeServes' /\ CallsAreCareful'
        BY <2>1, <3>1, BusyStep DEF Busy
      <3> QED
        BY <3>1, <3>2 DEF Orderly, AllCanBeTold, DiesOnlyOfLeaks
    <2> QED
      BY <2>2, <2>3
  <1>11. ASSUME NEW n \in Client, NEW a \in Addr, Free(n, a) PROVE Orderly' /\ DiesOnlyOfLeaks'
    <2>1. /\ waits[n] = "call" /\ call[n] = Op("FREE", a) /\ job' = "free"
          /\ waits' = [waits EXCEPT ![n] = "answer"]
          /\ left' = IF dir[a].iscached # "negative" THEN dir[a].sharers ELSE << >>
      BY <1>11 DEF Free, Serves
    <2>2. OneBusy' /\ HomeServes' /\ CallsAreCareful'
      BY <2>1, BusyStep DEF Busy
    <2>3. \/ left' = << >>
          \/ left' = dir[a].sharers /\ CanTell(n, a) /\ n \notin Range(dir[a].sharers)
      BY <2>1 DEF Orderly, CallsAreCareful, Careful, Op
    <2>4. AllCanBeTold'
      <3>1. CASE left' = << >>
        BY <3>1 DEF AllCanBeTold, IsInjective
      <3>2. CASE left' = dir[a].sharers /\ CanTell(n, a) /\ n \notin Range(dir[a].sharers)
        <4>1. ASSUME NEW i \in DOMAIN left' PROVE Reached(left[i])'
          <5>1. left'[i] \in Client /\ left'[i] # n /\ waits[left'[i]] = "listen"
            BY <3>2 DEF TypeOK, CanTell, Range
          <5> QED
            BY <5>1, <2>1 DEF Reached, TypeOK
        <4> QED
          BY <3>2, <4>1 DEF CanTell, AllCanBeTold
      <3> QED
        BY <2>3, <3>1, <3>2
    <2> QED
      BY <2>1, <2>2, <2>4 DEF Orderly, DiesOnlyOfLeaks

  <1>12. ASSUME NEW n \in Client, Begin(n) PROVE Orderly' /\ DiesOnlyOfLeaks'
    <2>1. PICK c \in Calls : /\ Turn(n) /\ Careful(n, c)
                             /\ call' = [call EXCEPT ![n] = c]
      BY <1>12 DEF Begin
    <2>2. /\ waits[n] = "no" /\ waits' = [waits EXCEPT ![n] = "call"]
          /\ UNCHANGED <<dir, copy, job, at, left>>
      BY <1>12 DEF Begin
    <2>3. \A m \in Client : waits[m] \notin Busy
      BY <2>1, <2>2 DEF Turn, Busy
    <2>4. job = "none"
      BY <2>3 DEF Orderly, HomeServes, TypeOK
    <2>5. \A m \in Client : waits'[m] = IF m = n THEN "call" ELSE waits[m]
      BY <2>2 DEF TypeOK
    <2>6. call'[n] = c
      BY <2>1 DEF TypeOK
    <2>7. c.addr \in Addr \/ c.op = "MALLOC"
      BY <2>1 DEF Careful, Calls
    <2>8. Careful(n, c)'
      BY <2>1, <2>2, <2>5, <2>7, CareLasts
    <2>9. CallsAreCareful'
      BY <2>3, <2>5, <2>6, <2>8 DEF CallsAreCareful, Busy
    <2> QED
      BY <2>2, <2>3, <2>4, <2>5, <2>9
         DEF Orderly, OneBusy, HomeServes, AllCanBeTold, DiesOnlyOfLeaks, Busy
  <1>13. ASSUME NEW n \in Client, Listen(n) \/ Return(n) PROVE Orderly' /\ DiesOnlyOfLeaks'
    <2>1. /\ waits[n] \in {"no", "done"} /\ UNCHANGED <<dir, copy, job, at, left>>
          /\ waits' = [waits EXCEPT ![n] = "no"] \/ waits' = [waits EXCEPT ![n] = "listen"]
      BY <1>13 DEF Listen, Return
    <2>2. /\ \A m \in Client : m # n => waits'[m] = waits[m]
          /\ waits'[n] \in {"no", "listen"}
      BY <2>1 DEF TypeOK
    <2>3. \A m \in Client : m # n => call'[m] = call[m]
      BY <1>13 DEF Listen, Return, TypeOK
    <2>4. OneBusy' /\ HomeServes'
      BY <2>1, <2>2 DEF Orderly, OneBusy, HomeServes, Busy
    <2>5. ASSUME NEW k \in Client, waits'[k] = "call" PROVE Careful(k, call[k])'
      <3>1. k # n /\ Careful(k, call[k]) /\ call'[k] = call[k]
        BY <2>2, <2>3, <2>5 DEF Orderly, CallsAreCareful
      <3>2. call[k].addr \in Addr \/ call[k].op = "MALLOC"
        <4>1. call[k] \in Calls \cup {NoCall} /\ call[k].op \in {"MALLOC", "READ", "WRITE", "FREE"}
          BY <3>1 DEF Careful, TypeOK
        <4> QED
          BY <4>1 DEF Calls, NoCall, Op
      <3>3. \A m \in Client : m # k /\ waits[m] = "listen" => waits'[m] = "listen"
        BY <2>1, <2>2
      <3>4. PICK c : c = call[k]
        OBVIOUS
      <3>5. Careful(k, c) /\ (c.addr \in Addr \/ c.op = "MALLOC") /\ call'[k] = c
        BY <3>1, <3>2, <3>4
      <3>6. Careful(k, c)'
        BY <3>3, <3>5, <2>1, CareLasts
      <3> QED
        BY <3>5, <3>6
    <2>6. AllCanBeTold'
      <3>1. \A m \in Client : Reached(m) => Reached(m)'
        BY <2>1, <2>2 DEF Reached
      <3>2. job \in {"write", "free"} => \A i \in DOMAIN left : left[i] \in Client
        BY DEF TypeOK
      <3> QED
        BY <2>1, <3>1, <3>2 DEF Orderly, AllCanBeTold
    <2> QED
      BY <2>1, <2>4, <2>5, <2>6 DEF Orderly, CallsAreCareful, DiesOnlyOfLeaks
  <1>14. ASSUME NEW n \in Client, Fail(n) \/ LockAsked(n) PROVE FALSE
    BY <1>14 DEF Fail, LockAsked
  <1>15. CASE Invalidate
    <2> DEFINE h == Head(left)
    <2>1. /\ job \in {"write", "free"} /\ UNCHANGED job /\ left # << >> /\ left' = Tail(left)
          /\ waits' = [waits EXCEPT ![h] = IF waits[h] = "write" THEN "back" ELSE "no"]
      BY <1>15 DEF Invalidate, Broadcasts, Spent
    <2>2. left \in Seq(Client) /\ IsInjective(left) /\ \A i \in DOMAIN left : Reached(left[i])
      BY <2>1 DEF Orderly, AllCanBeTold, TypeOK
    <2>3. /\ IsInjective(left')
          /\ \A i \in DOMAIN left' : i + 1 \in DOMAIN left /\ left'[i] = left[i + 1]
                                     /\ left'[i] # Head(left)
      BY <2>1, <2>2, RestIsOthers
    <2>4. h \in Client /\ waits[h] \in {"listen", "write"}
      BY <1>15, <2>1, <2>2 DEF Invalidate, Reached
    <2>5. \A m \in Client :
             waits'[m] = IF m # h THEN waits[m] ELSE IF waits[h] = "write" THEN "back" ELSE "no"
      BY <2>1, <2>4 DEF TypeOK
    <2>6. \A m \in Client : waits'[m] \in Busy <=> waits[m] \in Busy
      BY <2>4, <2>5 DEF Busy
    <2>7. \A m \in Client : waits[m] # "call"
      BY <2>1, CallerWaits
    <2>8. \A m \in Client : waits'[m] # "call"
      BY <2>5, <2>7
    <2>9. OneBusy' /\ CallsAreCareful'
      BY <2>6, <2>8 DEF Orderly, OneBusy, CallsAreCareful
    <2>10. HomeServes'
      BY <2>1, <2>6, <2>8 DEF Orderly, HomeServes
    <2>11. ASSUME NEW i \in DOMAIN left' PROVE Reached(left[i])'
      <3>1. Reached(left'[i]) /\ left'[i] # h /\ left'[i] \in Client
        BY <2>2, <2>3
      <3> QED
        BY <3>1, <2>5 DEF Reached
    <2> QED
      BY <2>1, <2>3, <2>9, <2>10, <2>11 DEF Orderly, AllCanBeTold, DiesOnlyOfLeaks
  <1>16. ASSUME Unheard PROVE FALSE
    <2>1. job \in {"write", "free"} /\ left # << >> /\ ~ Reached(Head(left))
      BY <1>16 DEF Unheard, Broadcasts
    <2>2. 1 \in DOMAIN left /\ Head(left) = left[1]
      BY <2>1 DEF TypeOK
    <2> QED
      BY <2>1, <2>2 DEF Orderly, AllCanBeTold
  <1>17. CASE RunOut
    BY <1>17 DEF RunOut, DiesOnlyOfLeaks
  <1>18. CASE EndBroadcast
    <2>1. UNCHANGED <<waits, call, dir, copy>> /\ job' = "none" /\ job = "write"
      BY <1>18 DEF EndBroadcast
    <2>2. \A m \in Client : waits[m] # "call"
      BY <2>1, CallerWaits
    <2> QED
      BY <2>1, <2>2 DEF Orderly, OneBusy, HomeServes, CallsAreCareful, AllCanBeTold, DiesOnlyOfLeaks
  <1>19. CASE UNCHANGED vars
    BY <1>19 DEF vars, Orderly, OneBusy, HomeServes, CallsAreCareful, Careful, CanTell, Told, Reached,
                 AllCanBeTold, DiesOnlyOfLeaks
  <1> QED
    BY <1>1, <1>2, <1>3, <1>5, <1>6, <1>7, <1>8, <1>9, <1>10, <1>11, <1>12, <1>13, <1>14, <1>15,
       <1>16, <1>17, <1>18, <1>19 DEF Next, HomeStep, CallStep, ProgramStep

\* Programs that take turns, are careful and are listened to, with retries that
\* last: the home node ends only for want of memory for a receive buffer. Every
\* sharer it connects to listens, and no word it reads was never written.
THEOREM PoliteProgramsAreServed == Spec => []DiesOnlyOfLeaks
  <1>1. Init => PoliteInv
    BY InitPolite, AllocationAssumption
  <1>2. PoliteInv /\ [Next]_vars => PoliteInv'
    <2> SUFFICES ASSUME PoliteInv, [Next]_vars PROVE PoliteInv'
      OBVIOUS
    <2>1. TypeOK' /\ polite' = polite
      BY TypeStep, PoliteForever, AllocationAssumption DEF PoliteInv
    <2>2. CASE polite /\ job # "dead"
      BY <2>1, <2>2, PoliteStep, AllocationAssumption DEF PoliteInv
    <2>3. CASE ~ polite
      BY <2>1, <2>3 DEF PoliteInv, DiesOnlyOfLeaks
    <2>4. CASE job = "dead"
      BY <2>1, <2>4, DeadForever DEF PoliteInv, DiesOnlyOfLeaks
    <2> QED
      BY <2>2, <2>3, <2>4
  <1>3. PoliteInv => DiesOnlyOfLeaks
    BY DEF PoliteInv
  <1> QED
    BY <1>1, <1>2, <1>3, PTL DEF Spec

=============================================================================
