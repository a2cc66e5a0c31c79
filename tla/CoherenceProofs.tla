--------------------------- MODULE CoherenceProofs ---------------------------
(***************************************************************************)
(* What single steps of the protocol can do: which variables which actions *)
(* leave alone, who is served by whom, when caches grow and how long a     *)
(* write is in flight.  Then three invariants, each in terms of the one    *)
(* before, for any nodes, addresses, values, cache size and deployment:    *)
(*                                                                         *)
(* FreshInv: the types, the pairing of sessions, and the agreement of the  *)
(* directory with the copies it knows of.                                  *)
(*                                                                         *)
(* CoherenceInv: when one node does all the writing of an address, nobody  *)
(* keeps an old copy of it longer than Home's broadcast lasts, and write   *)
(* does not return before.                                                 *)
(*                                                                         *)
(* AtomicityInv, and from it that read and write are atomic: the protocol  *)
(* implements AtomicMemory.                                                *)
(*                                                                         *)
(* From CoherenceInv also, RoomInv and ListInv: while caches have room,    *)
(* nobody is listed twice; LockCalls: the operations implement the lock,   *)
(* FragileLock; and DeployInv: as main.cpp deploys it, nobody fails.       *)
(***************************************************************************)
EXTENDS CoherenceProperties, SequenceFacts, FiniteSetTheorems, TLAPS

-----------------------------------------------------------------------------
(* Facts about the types, in the form the provers use.                     *)

Typed ==
    /\ stage \in [Node -> Stage] /\ rpc \in [Node -> Rpc]
    /\ serve \in [Node -> {"off", "listen", "session"}]
    /\ peer \in [Node -> Node] /\ backlog \in [Node -> SUBSET Node]
    /\ op \in [Node -> Operation] /\ msg \in [Node -> Message]
    /\ \A i \in Node : /\ op[i].kind \in {"READ", "WRITE"}
                       /\ op[i].addr \in Addr
                       /\ op[i].val \in Value \cup {None}
    /\ cache \in [Node -> [Addr -> Value \cup {None}]]
    /\ dir \in [Addr -> SaveData]
    /\ \A b \in Addr : /\ dir[b].data \in Value
                       /\ dir[b].iscached \in DirState
                       /\ dir[b].owner \in Node \cup {None}
                       /\ dir[b].sharers \in Seq(Node)
    /\ targets \in Seq(Node) /\ victim \in Addr

\* What TypeOK says of the parts of a state: operations, directory entries and
\* lists of sharers.
LEMMA TypesHold == ASSUME TypeOK PROVE Typed
<1>1. \A i \in Node : op[i] \in Operation
  BY DEF TypeOK, ControlTypeOK
<1>2. \A b \in Addr : dir[b] \in SaveData
  BY DEF TypeOK, HomeTypeOK
<1> QED
  BY <1>1, <1>2 DEF Typed, TypeOK, ControlTypeOK, NetworkTypeOK, CacheTypeOK,
      HomeTypeOK, Operation, SaveData

-----------------------------------------------------------------------------
(* Footprints.                                                             *)

\* Who changes a cache: every other step leaves all of them alone.
LEMMA CacheFootprint ==
    ASSUME NEW n \in Node, Step(n)
    PROVE  \/ UNCHANGED cacheVars
           \/ GiveUp(n)
           \/ Return(n)
           \/ ReadReturned(n)
           \/ CallWrite(n)
           \/ Accept(n)
           \/ HandleRead(n)
           \/ HandleInvalidation(n)
  BY DEF Step, StartOp, ClientStep, ServerStep, Serve, StartRead, Start,
      StartWrite, Connect, LockLocally, UnlockLocally, CallLock, LockAnswered,
      EnterAccess, EnterUnlock, CachedRead, LocalRead, CallRead,
      WriteReturned, WriteRecalled, CloseReconnected, LocalWrite,
      CallInvalidate, InvalidationAnswered, NextTarget, EndBroadcast,
      HandleReset, HandleLocks, HandleWrite, StartInvalidations, cacheVars,
      homeVars, netVars, opVars, serverVars

\* Who changes what a process is: every other step leaves all of them alone.
LEMMA StatusFootprint ==
    ASSUME NEW n \in Node, Step(n)
    PROVE  \/ UNCHANGED status
           \/ GiveUp(n)
           \/ Return(n)
           \/ ReadReturned(n)
           \/ CallWrite(n)
           \/ Accept(n)
           \/ HandleRead(n)
  BY DEF Step, StartOp, ClientStep, ServerStep, Serve, StartRead, Start,
      StartWrite, Connect, LockLocally, UnlockLocally, CallLock, LockAnswered,
      EnterAccess, EnterUnlock, CachedRead, LocalRead, CallRead,
      WriteReturned, WriteRecalled, CloseReconnected, LocalWrite,
      CallInvalidate, InvalidationAnswered, NextTarget, EndBroadcast,
      HandleReset, HandleLocks, HandleWrite, StartInvalidations,
      HandleInvalidation, opVars

\* Who changes the directory: every other step leaves it alone.
LEMMA DirFootprint ==
    ASSUME NEW n \in Node, Step(n)
    PROVE  \/ UNCHANGED dir
           \/ HandleRead(n)
           \/ HandleWrite(n)
           \/ StartInvalidations(n)
           \/ LocalWrite(n)
           \/ EndBroadcast(n)
  BY DEF Step, StartOp, ClientStep, ServerStep, Serve, StartRead, Start,
      StartWrite, Connect, GiveUp, LockLocally, UnlockLocally, CallLock,
      LockAnswered, EnterAccess, EnterUnlock, Return, CachedRead, LocalRead,
      CallRead, ReadReturned, CallWrite, WriteReturned, WriteRecalled,
      CloseReconnected, CallInvalidate, InvalidationAnswered, NextTarget,
      Accept, HandleReset, HandleLocks, HandleInvalidation, cacheVars,
      homeVars, netVars, opVars, serverVars

\* Who changes the broadcast: every other step leaves its list and its address
\* alone.
LEMMA TargetsFootprint ==
    ASSUME NEW n \in Node, Step(n)
    PROVE  \/ UNCHANGED <<targets, victim>>
           \/ StartInvalidations(n)
           \/ LocalWrite(n)
           \/ NextTarget(n)
           \/ EndBroadcast(n)
  BY DEF Step, StartOp, ClientStep, ServerStep, Serve, StartRead, Start,
      StartWrite, Connect, GiveUp, LockLocally, UnlockLocally, CallLock,
      LockAnswered, EnterAccess, EnterUnlock, Return, CachedRead, LocalRead,
      CallRead, ReadReturned, CallWrite, WriteReturned, WriteRecalled,
      CloseReconnected, CallInvalidate, InvalidationAnswered, Accept,
      HandleReset, HandleLocks, HandleRead, HandleWrite, HandleInvalidation,
      cacheVars, homeVars, netVars, opVars, serverVars

\* Who changes an operation: every other step leaves all of them alone.
LEMMA OpFootprint ==
    ASSUME NEW n \in Node, Step(n)
    PROVE  \/ UNCHANGED op
           \/ (\E a \in Addr : StartRead(n, a))
           \/ (\E a \in Addr, v \in Value : StartWrite(n, a, v))
           \/ CachedRead(n)
           \/ LocalRead(n)
           \/ ReadReturned(n)
  BY DEF Step, StartOp, ClientStep, ServerStep, Serve, Connect, GiveUp,
      LockLocally, UnlockLocally, CallLock, LockAnswered, EnterAccess,
      EnterUnlock, Return, CallRead, CallWrite, WriteReturned, WriteRecalled,
      CloseReconnected, LocalWrite, CallInvalidate, InvalidationAnswered,
      NextTarget, EndBroadcast, Accept, HandleReset, HandleLocks, HandleRead,
      HandleWrite, StartInvalidations, HandleInvalidation, cacheVars,
      homeVars, netVars, opVars, serverVars

\* Who changes the lock: every other step leaves it alone.
LEMMA LocksFootprint ==
    ASSUME NEW n \in Node, Step(n)
    PROVE  \/ UNCHANGED locks
           \/ LockLocally(n)
           \/ UnlockLocally(n)
           \/ HandleLocks(n)
  BY DEF Step, StartOp, ClientStep, ServerStep, Serve, StartRead, Start,
      StartWrite, Connect, GiveUp, CallLock, LockAnswered, EnterAccess,
      EnterUnlock, Return, CachedRead, LocalRead, CallRead, ReadReturned,
      CallWrite, WriteReturned, WriteRecalled, CloseReconnected, LocalWrite,
      CallInvalidate, InvalidationAnswered, NextTarget, EndBroadcast, Accept,
      HandleReset, HandleRead, HandleWrite, StartInvalidations,
      HandleInvalidation, cacheVars, homeVars, netVars, opVars, serverVars

-----------------------------------------------------------------------------
(* Consequences of the invariant for single steps.                         *)

\* Who calls whom: reads and writes go to Home while it broadcasts nothing,
\* invalidations come from Home to the head of its list, lock requests go to
\* the lock node, and nobody calls itself.
LEMMA ServedClient ==
    ASSUME Typed, StagesFit, MessagesFit, SessionsPaired,
           NEW m \in Node, NEW c \in Node, NEW imm, Receives(m, c, imm)
    PROVE  /\ m # c /\ stage[m] \in {"idle", "recall"} /\ rpc[m] = "none"
           /\ imm \in {"READ", "WRITE"} =>
                 /\ m = Home /\ targets = << >> /\ stage[c] = "access"
                 /\ op[c].kind = imm /\ msg[c].addr = op[c].addr
                 /\ op[c].addr \in Addr
                 /\ imm = "WRITE" => msg[c].val = op[c].val /\ op[c].val \in Value
           /\ imm = "INVALIDATE" =>
                 /\ c = Home /\ stage[Home] \in {"bcast", "wbcast"}
                 /\ m = Head(targets) /\ msg[c].addr = victim
           /\ imm = "LOCKS" =>
                 stage[c] \in {"lock", "unlock"} /\ msg[c].val \in LockState
<1>1. InSession(c) /\ Target(c) = m
  BY DEF Receives, SessionsPaired, InSession
<1>2. m # c /\ stage[m] \in {"idle", "recall"} /\ rpc[m] = "none"
  BY DEF Receives, StagesFit
<1>3. ASSUME imm \in {"READ", "WRITE"}
      PROVE  /\ stage[c] = "access" /\ op[c].kind = imm /\ msg[c].addr = op[c].addr
             /\ imm = "WRITE" => msg[c].val = op[c].val /\ op[c].val \in Value
  BY <1>3 DEF Receives, MessagesFit, Typed
<1>4. ASSUME imm \in {"READ", "WRITE"} PROVE m = Home /\ targets = << >>
  BY <1>1, <1>2, <1>3, <1>4 DEF Target, StagesFit
<1>5. ASSUME imm = "INVALIDATE"
      PROVE  stage[c] \in {"bcast", "wbcast"} /\ msg[c].addr = victim
  BY <1>5 DEF Receives, MessagesFit, Typed
<1>6. imm = "LOCKS" =>
          stage[c] \in {"lock", "unlock"} /\ msg[c].val \in LockState
  BY DEF Receives, MessagesFit, Typed
<1> QED
  BY <1>1, <1>2, <1>3, <1>4, <1>5, <1>6 DEF Target, StagesFit, Typed

\* Only an answered read and a write about to be sent put a value in a cache.
LEMMA CachesShrink ==
    ASSUME FreshInv, NEW n \in Node, Step(n)
    PROVE  \/ \A i \in Node, b \in Addr : cache'[i][b] \in {None, cache[i][b]}
           \/ ReadReturned(n) \/ CallWrite(n)
<1>c. cache \in [Node -> [Addr -> Value \cup {None}]]
  BY TypesHold DEF FreshInv, Typed
<1>1. CASE GiveUp(n) \/ Return(n) \/ Accept(n) \/ HandleRead(n)
  BY <1>c, <1>1 DEF GiveUp, Return, Accept, HandleRead, Die
<1>2. CASE HandleInvalidation(n)
  BY <1>c, <1>2 DEF HandleInvalidation
<1>3. CASE UNCHANGED cacheVars
  BY <1>3 DEF cacheVars
<1> QED
  BY <1>1, <1>2, <1>3, CacheFootprint

\* A write in flight stays so until Home handles it.
LEMMA FlightsLast ==
    ASSUME FreshInv, NEW n \in Node, Step(n)
    PROVE  \/ \A i \in Node, b \in Addr : WriteInFlight(i, b) => WriteInFlight(i, b)'
           \/ HandleWrite(n) \/ StartInvalidations(n)
<1>a. Typed /\ StagesFit /\ MessagesFit /\ SessionsPaired
  BY TypesHold DEF FreshInv
<1>t. /\ stage \in [Node -> Stage] /\ rpc \in [Node -> Rpc]
      /\ serve \in [Node -> {"off", "listen", "session"}]
      /\ peer \in [Node -> Node] /\ backlog \in [Node -> SUBSET Node]
      /\ op \in [Node -> Operation] /\ msg \in [Node -> Message]
  BY <1>a DEF Typed
<1>1. CASE Serve(n)
  BY <1>1, <1>a, <1>t DEF Serve, opVars, netVars, cacheVars, homeVars,
      StagesFit, WriteInFlight
<1>2. CASE \E a \in Addr : StartRead(n, a)
  BY <1>2, <1>a, <1>t DEF StartRead, Start, Enter, LockPhase, serverVars,
      cacheVars, homeVars, StagesFit, WriteInFlight
<1>3. CASE \E a \in Addr, v \in Value : StartWrite(n, a, v)
  BY <1>3, <1>a, <1>t DEF StartWrite, Start, Enter, LockPhase, serverVars,
      cacheVars, homeVars, StagesFit, WriteInFlight
<1>4. CASE Connect(n)
  BY <1>4, <1>a, <1>t DEF Connect, opVars, cacheVars, homeVars, StagesFit,
      WriteInFlight
<1>5. CASE GiveUp(n)
  BY <1>5, <1>a, <1>t DEF GiveUp, Die, opVars, netVars, serverVars, homeVars,
      StagesFit, WriteInFlight
<1>6. CASE LockLocally(n)
  BY <1>6, <1>a, <1>t DEF LockLocally, SetLock, Enter, Wanted, AccessPhase,
      serverVars, cacheVars, homeVars, StagesFit, WriteInFlight
<1>7. CASE UnlockLocally(n)
  BY <1>7, <1>a, <1>t DEF UnlockLocally, SetLock, Enter, serverVars,
      cacheVars, homeVars, StagesFit, WriteInFlight
<1>8. CASE CallLock(n)
  BY <1>8, <1>a, <1>t DEF CallLock, Call, Packet, Wanted, opVars, serverVars,
      cacheVars, homeVars, StagesFit, WriteInFlight
<1>9. CASE LockAnswered(n)
  BY <1>9, <1>a, <1>t DEF LockAnswered, Answered, Close, Packet, serverVars,
      cacheVars, homeVars, StagesFit, WriteInFlight
<1>10. CASE EnterAccess(n)
  BY <1>10, <1>a, <1>t DEF EnterAccess, Enter, AccessPhase, serverVars,
      cacheVars, homeVars, StagesFit, WriteInFlight
<1>11. CASE EnterUnlock(n)
  BY <1>11, <1>a, <1>t DEF EnterUnlock, Enter, LockPhase, serverVars,
      cacheVars, homeVars, StagesFit, WriteInFlight
<1>12. CASE Return(n)
  BY <1>12, <1>a, <1>t DEF Return, Enter, Die, serverVars, homeVars,
      StagesFit, WriteInFlight
<1>13. CASE CachedRead(n)
  BY <1>13, <1>a, <1>t DEF CachedRead, ReadValue, Enter, LockPhase,
      serverVars, cacheVars, homeVars, StagesFit, WriteInFlight
<1>14. CASE LocalRead(n)
  BY <1>14, <1>a, <1>t DEF LocalRead, ReadValue, Enter, LockPhase, serverVars,
      cacheVars, homeVars, StagesFit, WriteInFlight
<1>15. CASE CallRead(n)
  BY <1>15, <1>a, <1>t DEF CallRead, Call, Packet, opVars, serverVars,
      cacheVars, homeVars, StagesFit, WriteInFlight
<1>16. CASE ReadReturned(n)
  BY <1>16, <1>a, <1>t DEF ReadReturned, Answered, ReadValue, AddCacheItem,
      Close, Packet, netVars, serverVars, cacheVars, homeVars, StagesFit,
      WriteInFlight
<1>17. CASE CallWrite(n)
  BY <1>17, <1>a, <1>t DEF CallWrite, AlterCacheItem, AddCacheItem, Call,
      Packet, opVars, netVars, serverVars, homeVars, StagesFit, WriteInFlight
<1>18. CASE WriteReturned(n)
  BY <1>18, <1>a, <1>t DEF WriteReturned, Answered, Close, Packet, opVars,
      serverVars, cacheVars, homeVars, StagesFit, WriteInFlight
<1>19. CASE WriteRecalled(n)
  BY <1>19, <1>a, <1>t DEF WriteRecalled, Answered, Enter, cacheVars,
      homeVars, StagesFit, WriteInFlight
<1>20. CASE CloseReconnected(n)
  BY <1>20, <1>a, <1>t DEF CloseReconnected, Close, Packet, opVars,
      serverVars, cacheVars, homeVars, StagesFit, WriteInFlight
<1>21. CASE LocalWrite(n)
  BY <1>21, <1>a, <1>t DEF LocalWrite, Enter, LockPhase, WrittenAtHome,
      serverVars, cacheVars, StagesFit, WriteInFlight
<1>22. CASE CallInvalidate(n)
  BY <1>22, <1>a, <1>t DEF CallInvalidate, Call, Packet, opVars, serverVars,
      cacheVars, homeVars, StagesFit, WriteInFlight
<1>23. CASE InvalidationAnswered(n)
  BY <1>23, <1>a, <1>t DEF InvalidationAnswered, Answered, Close, Packet,
      opVars, serverVars, cacheVars, homeVars, StagesFit, WriteInFlight
<1>24. CASE NextTarget(n)
  BY <1>24, <1>a, <1>t DEF NextTarget, opVars, serverVars, cacheVars,
      StagesFit, WriteInFlight
<1>25. CASE EndBroadcast(n)
  BY <1>25, <1>a, <1>t DEF EndBroadcast, Enter, LockPhase, WrittenAtHome,
      serverVars, cacheVars, StagesFit, WriteInFlight
<1>26. CASE Accept(n)
  BY <1>a, <1>t, <1>26 DEF Accept, opVars, SessionsPaired, WriteInFlight
<1>27. CASE HandleReset(n)
  BY <1>27, <1>a, <1>t DEF HandleReset, cacheVars, homeVars, StagesFit,
      WriteInFlight
<1>28. CASE HandleLocks(n)
  <2>1. PICK c \in Node : HandleLocks(n)!(c)
    BY <1>28 DEF HandleLocks
  <2>2. stage[c] # "access"
    BY <1>a, <2>1, ServedClient
  <2> QED
    BY <1>t, <2>1, <2>2 DEF Answer, opVars, WriteInFlight
<1>29. CASE HandleRead(n)
  <2>1. PICK c \in Node : HandleRead(n)!(c)
    BY <1>29 DEF HandleRead
  <2>2. op[c].kind = "READ"
    BY <1>a, <2>1, ServedClient
  <2>3. UNCHANGED opVars /\ \A i \in Node \ {c} : rpc'[i] = rpc[i]
    BY <1>t, <2>1 DEF Answer, netVars
  <2> QED
    BY <2>2, <2>3 DEF opVars, WriteInFlight
<1>30. CASE HandleWrite(n)
  BY <1>30
<1>31. CASE StartInvalidations(n)
  BY <1>31
<1>32. CASE HandleInvalidation(n)
  <2>1. PICK c \in Node : HandleInvalidation(n)!(c)
    BY <1>32 DEF HandleInvalidation
  <2>2. stage[c] # "access"
    BY <1>a, <2>1, ServedClient
  <2> QED
    BY <1>t, <2>1, <2>2 DEF Answer, opVars, WriteInFlight
<1> QED
  BY <1>1, <1>2, <1>3, <1>4, <1>5, <1>6, <1>7, <1>8, <1>9, <1>10, <1>11,
      <1>12, <1>13, <1>14, <1>15, <1>16, <1>17, <1>18, <1>19, <1>20, <1>21,
      <1>22, <1>23, <1>24, <1>25, <1>26, <1>27, <1>28, <1>29, <1>30, <1>31,
      <1>32 DEF Step, StartOp, ClientStep, ServerStep

-----------------------------------------------------------------------------
(* Every step preserves every part of the invariant.                       *)

\* A request or a reply is a message.
LEMMA PacketType ==
    ASSUME NEW imm \in Imm, NEW a \in Addr \cup {None},
           NEW v \in Value \cup LockState \cup Grant \cup {None}
    PROVE  Packet(imm, a, v) \in Message
  BY DEF Packet, Message

\* Operations and stages keep their types.
LEMMA ControlTypeStep ==
    ASSUME FreshInv, NEW n \in Node, Step(n)
    PROVE  ControlTypeOK'
<1>a. Typed /\ TypeOK /\ StagesFit /\ MessagesFit /\ SessionsPaired
  BY TypesHold DEF FreshInv
<1>1. CASE Serve(n)
  BY <1>1, <1>a DEF Serve, opVars, netVars, cacheVars, homeVars,
      ControlTypeOK, TypeOK, Status, Stage, Operation
<1>2. CASE \E a \in Addr : StartRead(n, a)
  BY <1>2, <1>a DEF StartRead, Start, Enter, LockPhase, serverVars, cacheVars,
      homeVars, ControlTypeOK, TypeOK, Status, Stage, Operation
<1>3. CASE \E a \in Addr, v \in Value : StartWrite(n, a, v)
  BY <1>3, <1>a DEF StartWrite, Start, Enter, LockPhase, serverVars,
      cacheVars, homeVars, ControlTypeOK, TypeOK, Status, Stage, Operation
<1>4. CASE Connect(n)
  BY <1>4, <1>a DEF Connect, opVars, cacheVars, homeVars, ControlTypeOK,
      TypeOK, Status, Stage, Operation
<1>5. CASE GiveUp(n)
  BY <1>5, <1>a DEF GiveUp, Die, opVars, netVars, serverVars, homeVars,
      ControlTypeOK, TypeOK, Status, Stage, Operation
<1>6. CASE LockLocally(n)
  BY <1>6, <1>a DEF LockLocally, SetLock, Enter, Wanted, AccessPhase,
      serverVars, cacheVars, homeVars, ControlTypeOK, TypeOK, Status, Stage,
      Operation
<1>7. CASE UnlockLocally(n)
  BY <1>7, <1>a DEF UnlockLocally, SetLock, Enter, serverVars, cacheVars,
      homeVars, ControlTypeOK, TypeOK, Status, Stage, Operation
<1>8. CASE CallLock(n)
  BY <1>8, <1>a DEF CallLock, Call, Packet, Wanted, opVars, serverVars,
      cacheVars, homeVars, ControlTypeOK, TypeOK, Status, Stage, Operation
<1>9. CASE LockAnswered(n)
  BY <1>9, <1>a DEF LockAnswered, Answered, Close, Packet, serverVars,
      cacheVars, homeVars, ControlTypeOK, TypeOK, Status, Stage, Operation
<1>10. CASE EnterAccess(n)
  BY <1>10, <1>a DEF EnterAccess, Enter, AccessPhase, serverVars, cacheVars,
      homeVars, ControlTypeOK, TypeOK, Status, Stage, Operation
<1>11. CASE EnterUnlock(n)
  BY <1>11, <1>a DEF EnterUnlock, Enter, LockPhase, serverVars, cacheVars,
      homeVars, ControlTypeOK, TypeOK, Status, Stage, Operation
<1>12. CASE Return(n)
  BY <1>12, <1>a DEF Return, Enter, Die, serverVars, homeVars, ControlTypeOK,
      TypeOK, Status, Stage, Operation
<1>13. CASE CachedRead(n)
  <2>1. cache[n][op[n].addr] \in Value \cup {None}
    BY <1>a DEF Typed
  <2>2. [kind |-> "READ", addr |-> op[n].addr, val |-> cache[n][op[n].addr]]
            \in Operation
    BY <1>a, <2>1 DEF Typed, Operation
  <2>3. op' \in [Node -> Operation]
    BY <1>a, <2>2, <1>13 DEF Typed, CachedRead, ReadValue
  <2> QED
    BY <1>a, <2>3, <1>13 DEF TypeOK, ControlTypeOK, CachedRead, Enter, Stage
<1>14. CASE LocalRead(n)
  <2> DEFINE v == IF dir[op[n].addr].iscached = "WILD" THEN None
                  ELSE dir[op[n].addr].data
  <2>1. v \in Value \cup {None}
    BY <1>a DEF Typed
  <2>2. [kind |-> "READ", addr |-> op[n].addr, val |-> v] \in Operation
    BY <1>a, <2>1 DEF Typed, Operation
  <2>3. op' \in [Node -> Operation]
    BY <1>a, <2>2, <1>14 DEF Typed, LocalRead, ReadValue
  <2> QED
    BY <1>a, <2>3, <1>14 DEF TypeOK, ControlTypeOK, LocalRead, Enter, Stage
<1>15. CASE CallRead(n)
  BY <1>15, <1>a DEF CallRead, Call, Packet, opVars, serverVars, cacheVars,
      homeVars, ControlTypeOK, TypeOK, Status, Stage, Operation
<1>16. CASE ReadReturned(n)
  <2>1. msg[n].val \in Value
    BY <1>a, <1>16 DEF MessagesFit, ReadReturned, Answered
  <2>2. [kind |-> "READ", addr |-> op[n].addr, val |-> msg[n].val] \in Operation
    BY <1>a, <2>1 DEF Typed, Operation
  <2>3. op' \in [Node -> Operation]
    BY <1>a, <2>2, <1>16 DEF Typed, ReadReturned, ReadValue
  <2>4. status' \in [Node -> Status]
    BY <1>a, <1>16 DEF TypeOK, ControlTypeOK, ReadReturned, AddCacheItem, Status
  <2> QED
    BY <1>a, <2>3, <2>4, <1>16 DEF TypeOK, ControlTypeOK, ReadReturned
<1>17. CASE CallWrite(n)
  BY <1>17, <1>a DEF CallWrite, AlterCacheItem, AddCacheItem, Call, Packet,
      opVars, netVars, serverVars, homeVars, ControlTypeOK, TypeOK, Status,
      Stage, Operation
<1>18. CASE WriteReturned(n)
  BY <1>18, <1>a DEF WriteReturned, Answered, Close, Packet, opVars,
      serverVars, cacheVars, homeVars, ControlTypeOK, TypeOK, Status, Stage,
      Operation
<1>19. CASE WriteRecalled(n)
  BY <1>19, <1>a DEF WriteRecalled, Answered, Enter, cacheVars, homeVars,
      ControlTypeOK, TypeOK, Status, Stage, Operation
<1>20. CASE CloseReconnected(n)
  BY <1>20, <1>a DEF CloseReconnected, Close, Packet, opVars, serverVars,
      cacheVars, homeVars, ControlTypeOK, TypeOK, Status, Stage, Operation
<1>21. CASE LocalWrite(n)
  BY <1>21, <1>a DEF LocalWrite, Enter, LockPhase, WrittenAtHome, serverVars,
      cacheVars, ControlTypeOK, TypeOK, Status, Stage, Operation
<1>22. CASE CallInvalidate(n)
  BY <1>22, <1>a DEF CallInvalidate, Call, Packet, opVars, serverVars,
      cacheVars, homeVars, ControlTypeOK, TypeOK, Status, Stage, Operation
<1>23. CASE InvalidationAnswered(n)
  BY <1>23, <1>a DEF InvalidationAnswered, Answered, Close, Packet, opVars,
      serverVars, cacheVars, homeVars, ControlTypeOK, TypeOK, Status, Stage,
      Operation
<1>24. CASE NextTarget(n)
  BY <1>24, <1>a DEF NextTarget, opVars, serverVars, cacheVars, ControlTypeOK,
      TypeOK, Status, Stage, Operation
<1>25. CASE EndBroadcast(n)
  BY <1>25, <1>a DEF EndBroadcast, Enter, LockPhase, WrittenAtHome,
      serverVars, cacheVars, ControlTypeOK, TypeOK, Status, Stage, Operation
<1>26. CASE Accept(n)
  BY <1>26, <1>a DEF Accept, Die, opVars, homeVars, ControlTypeOK, TypeOK,
      Status, Stage, Operation
<1>27. CASE HandleReset(n)
  BY <1>27, <1>a DEF HandleReset, cacheVars, homeVars, ControlTypeOK, TypeOK,
      Status, Stage, Operation
<1>28. CASE HandleLocks(n)
  BY <1>28, <1>a DEF HandleLocks, Receives, SetLock, Answer, Packet, opVars,
      serverVars, cacheVars, homeVars, ControlTypeOK, TypeOK, Status, Stage,
      Operation
<1>29. CASE HandleRead(n)
  BY <1>29, <1>a DEF HandleRead, Receives, SharedBy, Answer, Packet, Die,
      opVars, netVars, serverVars, ControlTypeOK, TypeOK, Status, Stage,
      Operation
<1>30. CASE HandleWrite(n)
  BY <1>30, <1>a DEF HandleWrite, Receives, Written, Answer, Packet, opVars,
      serverVars, cacheVars, ControlTypeOK, TypeOK, Status, Stage, Operation
<1>31. CASE StartInvalidations(n)
  BY <1>31, <1>a DEF StartInvalidations, Receives, Written, Packet, cacheVars,
      ControlTypeOK, TypeOK, Status, Stage, Operation
<1>32. CASE HandleInvalidation(n)
  BY <1>32, <1>a DEF HandleInvalidation, Receives, Answer, Packet, opVars,
      serverVars, homeVars, ControlTypeOK, TypeOK, Status, Stage, Operation
<1> QED
  BY <1>1, <1>2, <1>3, <1>4, <1>5, <1>6, <1>7, <1>8, <1>9, <1>10, <1>11,
      <1>12, <1>13, <1>14, <1>15, <1>16, <1>17, <1>18, <1>19, <1>20, <1>21,
      <1>22, <1>23, <1>24, <1>25, <1>26, <1>27, <1>28, <1>29, <1>30, <1>31,
      <1>32 DEF Step, StartOp, ClientStep, ServerStep

\* Connections and messages keep their types.
LEMMA NetworkTypeStep ==
    ASSUME FreshInv, NEW n \in Node, Step(n)
    PROVE  NetworkTypeOK'
<1>a. Typed /\ TypeOK /\ StagesFit /\ MessagesFit /\ SessionsPaired
  BY TypesHold DEF FreshInv
<1>b. Packet("RESET", None, None) \in Message
  BY PacketType DEF Imm
<1>1. CASE Serve(n)
  BY <1>1, <1>a DEF Serve, opVars, netVars, cacheVars, homeVars,
      NetworkTypeOK, TypeOK, Rpc
<1>2. CASE \E a \in Addr : StartRead(n, a)
  BY <1>2, <1>a DEF StartRead, Start, Enter, LockPhase, serverVars, cacheVars,
      homeVars, NetworkTypeOK, TypeOK, Rpc
<1>3. CASE \E a \in Addr, v \in Value : StartWrite(n, a, v)
  BY <1>3, <1>a DEF StartWrite, Start, Enter, LockPhase, serverVars,
      cacheVars, homeVars, NetworkTypeOK, TypeOK, Rpc
<1>4. CASE Connect(n)
  BY <1>4, <1>a DEF Connect, opVars, cacheVars, homeVars, NetworkTypeOK,
      TypeOK, Rpc
<1>5. CASE GiveUp(n)
  BY <1>5, <1>a DEF GiveUp, Die, opVars, netVars, serverVars, homeVars,
      NetworkTypeOK, TypeOK, Rpc
<1>6. CASE LockLocally(n)
  BY <1>6, <1>a DEF LockLocally, SetLock, Enter, Wanted, AccessPhase,
      serverVars, cacheVars, homeVars, NetworkTypeOK, TypeOK, Rpc
<1>7. CASE UnlockLocally(n)
  BY <1>7, <1>a DEF UnlockLocally, SetLock, Enter, serverVars, cacheVars,
      homeVars, NetworkTypeOK, TypeOK, Rpc
<1>8. CASE CallLock(n)
  <2>1. /\ Packet("LOCKS", None, Wanted(n)) \in Message
        /\ Packet("LOCKS", None, "UNLOCKED") \in Message
    BY PacketType DEF Imm, Wanted, LockState
  <2>2. msg' \in [Node -> Message]
    BY <1>a, <2>1, <1>8 DEF Typed, CallLock, Call
  <2>3. rpc' \in [Node -> Rpc]
    BY <1>a, <1>8 DEF Typed, CallLock, Call, Rpc
  <2> QED
    BY <1>a, <2>2, <2>3, <1>8 DEF CallLock, serverVars, TypeOK, NetworkTypeOK
<1>9. CASE LockAnswered(n)
  <2>1. msg' \in [Node -> Message]
    BY <1>a, <1>b, <1>9 DEF Typed, LockAnswered, Close
  <2>2. rpc' \in [Node -> Rpc]
    BY <1>a, <1>9 DEF Typed, LockAnswered, Close, Rpc
  <2> QED
    BY <1>a, <2>1, <2>2, <1>9 DEF LockAnswered, serverVars, TypeOK, NetworkTypeOK
<1>10. CASE EnterAccess(n)
  BY <1>10, <1>a DEF EnterAccess, Enter, AccessPhase, serverVars, cacheVars,
      homeVars, NetworkTypeOK, TypeOK, Rpc
<1>11. CASE EnterUnlock(n)
  BY <1>11, <1>a DEF EnterUnlock, Enter, LockPhase, serverVars, cacheVars,
      homeVars, NetworkTypeOK, TypeOK, Rpc
<1>12. CASE Return(n)
  BY <1>12, <1>a DEF Return, Enter, Die, serverVars, homeVars, NetworkTypeOK,
      TypeOK, Rpc
<1>13. CASE CachedRead(n)
  BY <1>13, <1>a DEF CachedRead, ReadValue, Enter, LockPhase, serverVars,
      cacheVars, homeVars, NetworkTypeOK, TypeOK, Rpc
<1>14. CASE LocalRead(n)
  BY <1>14, <1>a DEF LocalRead, ReadValue, Enter, LockPhase, serverVars,
      cacheVars, homeVars, NetworkTypeOK, TypeOK, Rpc
<1>15. CASE CallRead(n)
  <2>1. Packet("READ", op[n].addr, None) \in Message
    BY <1>a, PacketType DEF Typed, Imm
  <2>2. msg' \in [Node -> Message]
    BY <1>a, <2>1, <1>15 DEF Typed, CallRead, Call, netVars
  <2>3. rpc' \in [Node -> Rpc]
    BY <1>a, <1>15 DEF Typed, CallRead, Call, netVars, Rpc
  <2> QED
    BY <1>a, <2>2, <2>3, <1>15 DEF CallRead, serverVars, TypeOK, NetworkTypeOK
<1>16. CASE ReadReturned(n)
  <2>1. msg' \in [Node -> Message]
    BY <1>a, <1>b, <1>16 DEF Typed, ReadReturned, Close, netVars
  <2>2. rpc' \in [Node -> Rpc]
    BY <1>a, <1>16 DEF Typed, ReadReturned, Close, netVars, Rpc
  <2> QED
    BY <1>a, <2>1, <2>2, <1>16 DEF ReadReturned, serverVars, TypeOK, NetworkTypeOK
<1>17. CASE CallWrite(n)
  <2>1. Packet("WRITE", op[n].addr, op[n].val) \in Message
    BY <1>a, PacketType DEF Typed, Imm
  <2>2. msg' \in [Node -> Message]
    BY <1>a, <2>1, <1>17 DEF Typed, CallWrite, Call, netVars
  <2>3. rpc' \in [Node -> Rpc]
    BY <1>a, <1>17 DEF Typed, CallWrite, Call, netVars, Rpc
  <2> QED
    BY <1>a, <2>2, <2>3, <1>17 DEF CallWrite, serverVars, TypeOK, NetworkTypeOK
<1>18. CASE WriteReturned(n)
  <2>1. msg' \in [Node -> Message]
    BY <1>a, <1>b, <1>18 DEF Typed, WriteReturned, Close
  <2>2. rpc' \in [Node -> Rpc]
    BY <1>a, <1>18 DEF Typed, WriteReturned, Close, Rpc
  <2> QED
    BY <1>a, <2>1, <2>2, <1>18 DEF WriteReturned, serverVars, TypeOK, NetworkTypeOK
<1>19. CASE WriteRecalled(n)
  BY <1>19, <1>a DEF WriteRecalled, Answered, Enter, cacheVars, homeVars,
      NetworkTypeOK, TypeOK, Rpc
<1>20. CASE CloseReconnected(n)
  <2>1. msg' \in [Node -> Message]
    BY <1>a, <1>b, <1>20 DEF Typed, CloseReconnected, Close
  <2>2. rpc' \in [Node -> Rpc]
    BY <1>a, <1>20 DEF Typed, CloseReconnected, Close, Rpc
  <2> QED
    BY <1>a, <2>1, <2>2, <1>20 DEF CloseReconnected, serverVars, TypeOK, NetworkTypeOK
<1>21. CASE LocalWrite(n)
  BY <1>21, <1>a DEF LocalWrite, Enter, LockPhase, WrittenAtHome, serverVars,
      cacheVars, NetworkTypeOK, TypeOK, Rpc
<1>22. CASE CallInvalidate(n)
  <2>1. Packet("INVALIDATE", victim, None) \in Message
    BY <1>a, PacketType DEF Typed, Imm
  <2>2. msg' \in [Node -> Message]
    BY <1>a, <2>1, <1>22 DEF Typed, CallInvalidate, Call, netVars
  <2>3. rpc' \in [Node -> Rpc]
    BY <1>a, <1>22 DEF Typed, CallInvalidate, Call, netVars, Rpc
  <2> QED
    BY <1>a, <2>2, <2>3, <1>22 DEF CallInvalidate, serverVars, TypeOK, NetworkTypeOK
<1>23. CASE InvalidationAnswered(n)
  <2>1. msg' \in [Node -> Message]
    BY <1>a, <1>b, <1>23 DEF Typed, InvalidationAnswered, Close
  <2>2. rpc' \in [Node -> Rpc]
    BY <1>a, <1>23 DEF Typed, InvalidationAnswered, Close, Rpc
  <2> QED
    BY <1>a, <2>1, <2>2, <1>23 DEF InvalidationAnswered, serverVars, TypeOK, NetworkTypeOK
<1>24. CASE NextTarget(n)
  BY <1>24, <1>a DEF NextTarget, opVars, serverVars, cacheVars, NetworkTypeOK,
      TypeOK, Rpc
<1>25. CASE EndBroadcast(n)
  BY <1>25, <1>a DEF EndBroadcast, Enter, LockPhase, WrittenAtHome,
      serverVars, cacheVars, NetworkTypeOK, TypeOK, Rpc
<1>26. CASE Accept(n)
  BY <1>26, <1>a DEF Accept, Die, opVars, homeVars, NetworkTypeOK, TypeOK, Rpc
<1>27. CASE HandleReset(n)
  BY <1>27, <1>a DEF HandleReset, cacheVars, homeVars, NetworkTypeOK, TypeOK,
      Rpc
<1>28. CASE HandleLocks(n)
  <2>1. PICK c \in Node : HandleLocks(n)!(c)
    BY <1>28 DEF HandleLocks
  <2>2. /\ Packet("DEFAULT", None, "granted") \in Message
        /\ Packet("DEFAULT", None, "denied") \in Message
    BY PacketType DEF Imm, Grant
  <2>3. msg' \in [Node -> Message]
    BY <1>a, <2>1, <2>2 DEF Typed, Answer
  <2>4. rpc' \in [Node -> Rpc]
    BY <1>a, <2>1 DEF Typed, Answer, Rpc
  <2> QED
    BY <1>a, <2>3, <2>4, <1>28 DEF HandleLocks, serverVars, TypeOK, NetworkTypeOK
<1>29. CASE HandleRead(n)
  <2>1. PICK c \in Node : HandleRead(n)!(c)
    BY <1>29 DEF HandleRead
  <2>2. msg[c].addr \in Addr
    BY <1>a, <2>1 DEF Typed, MessagesFit, Receives
  <2>3. Packet("DEFAULT", None, dir[msg[c].addr].data) \in Message
    BY <1>a, <2>2, PacketType DEF Typed, Imm
  <2>4. msg' \in [Node -> Message]
    BY <1>a, <2>1, <2>3 DEF Typed, Answer, netVars
  <2>5. rpc' \in [Node -> Rpc]
    BY <1>a, <2>1 DEF Typed, Answer, netVars, Rpc
  <2> QED
    BY <1>a, <2>4, <2>5, <1>29 DEF HandleRead, serverVars, TypeOK, NetworkTypeOK
<1>30. CASE HandleWrite(n)
  <2>1. PICK c \in Node : HandleWrite(n)!(c)
    BY <1>30 DEF HandleWrite
  <2>2. Packet("DEFAULT", None, None) \in Message
    BY PacketType DEF Imm, Grant
  <2>3. msg' \in [Node -> Message]
    BY <1>a, <2>1, <2>2 DEF Typed, Answer
  <2>4. rpc' \in [Node -> Rpc]
    BY <1>a, <2>1 DEF Typed, Answer, Rpc
  <2> QED
    BY <1>a, <2>3, <2>4, <1>30 DEF HandleWrite, serverVars, TypeOK, NetworkTypeOK
<1>31. CASE StartInvalidations(n)
  <2>1. PICK c \in Node : StartInvalidations(n)!(c)
    BY <1>31 DEF StartInvalidations
  <2>2. msg[c].addr \in Addr
    BY <1>a, <2>1 DEF Typed, MessagesFit, Receives
  <2>3. Packet("INVALIDATE", msg[c].addr, None) \in Message
    BY <2>2, PacketType DEF Imm
  <2>4. msg' \in [Node -> Message]
    BY <1>a, <2>1, <2>3 DEF Typed
  <2>5. rpc' \in [Node -> Rpc] /\ serve' \in [Node -> {"off", "listen", "session"}]
    BY <1>a, <2>1 DEF Typed, Rpc
  <2> QED
    BY <1>a, <2>4, <2>5, <1>31 DEF StartInvalidations, TypeOK, NetworkTypeOK
<1>32. CASE HandleInvalidation(n)
  <2>1. PICK c \in Node : HandleInvalidation(n)!(c)
    BY <1>32 DEF HandleInvalidation
  <2>2. Packet("DEFAULT", None, None) \in Message
    BY PacketType DEF Imm, Grant
  <2>3. msg' \in [Node -> Message]
    BY <1>a, <2>1, <2>2 DEF Typed, Answer
  <2>4. rpc' \in [Node -> Rpc]
    BY <1>a, <2>1 DEF Typed, Answer, Rpc
  <2> QED
    BY <1>a, <2>3, <2>4, <1>32 DEF HandleInvalidation, serverVars, TypeOK, NetworkTypeOK
<1> QED
  BY <1>1, <1>2, <1>3, <1>4, <1>5, <1>6, <1>7, <1>8, <1>9, <1>10, <1>11,
      <1>12, <1>13, <1>14, <1>15, <1>16, <1>17, <1>18, <1>19, <1>20, <1>21,
      <1>22, <1>23, <1>24, <1>25, <1>26, <1>27, <1>28, <1>29, <1>30, <1>31,
      <1>32 DEF Step, StartOp, ClientStep, ServerStep

\* Cache::addCacheItem keeps the cache and the room it counts within bounds.
LEMMA AddCacheItemType ==
    ASSUME TypeOK, NEW n \in Node, NEW a \in Addr, NEW v \in Value,
           AddCacheItem(n, a, v)
    PROVE  CacheTypeOK' /\ status' \in [Node -> Status]
<1>1. cache' \in [Node -> [Addr -> Value \cup {None}]]
  BY DEF TypeOK, CacheTypeOK, AddCacheItem, cacheVars
<1>2. avail[n] \in 0 .. CacheSize /\ CacheSize \in Nat \ {0}
  BY BoundsAssumption DEF TypeOK, CacheTypeOK
<1>3. avail' \in [Node -> 0 .. CacheSize]
  <2>1. CASE avail[n] > 0
    <3>1. avail[n] - 1 \in 0 .. CacheSize
      BY <1>2, <2>1
    <3>2. avail' = [avail EXCEPT ![n] = avail[n] - 1]
      BY <1>2, <2>1 DEF AddCacheItem
    <3> QED
      BY <3>1, <3>2 DEF TypeOK, CacheTypeOK
  <2>2. CASE avail[n] = 0
    <3>1. 1 \in 0 .. CacheSize
      BY <1>2
    <3>2. avail' = [avail EXCEPT ![n] = 1] \/ avail' = avail
      BY <1>2, <2>2 DEF AddCacheItem, cacheVars
    <3> QED
      BY <3>1, <3>2 DEF TypeOK, CacheTypeOK
  <2> QED
    BY <1>2, <2>1, <2>2
<1>4. status' \in [Node -> Status]
  BY DEF TypeOK, ControlTypeOK, AddCacheItem, Status
<1> QED
  BY <1>1, <1>3, <1>4 DEF CacheTypeOK

\* Cache::alterCacheItem keeps the cache and its room within bounds.
LEMMA AlterCacheItemType ==
    ASSUME TypeOK, NEW n \in Node, NEW a \in Addr, NEW v \in Value,
           AlterCacheItem(n, a, v)
    PROVE  CacheTypeOK' /\ status' \in [Node -> Status]
<1>1. CASE cache[n][a] # None
  <2>1. cache' \in [Node -> [Addr -> Value \cup {None}]]
    BY <1>1 DEF AlterCacheItem, TypeOK, CacheTypeOK
  <2> QED
    BY <1>1, <2>1 DEF AlterCacheItem, TypeOK, CacheTypeOK, ControlTypeOK
<1>2. CASE cache[n][a] = None
  BY <1>2, AddCacheItemType DEF AlterCacheItem
<1> QED
  BY <1>1, <1>2

\* The caches keep their types.
LEMMA CacheTypeStep ==
    ASSUME FreshInv, NEW n \in Node, Step(n)
    PROVE  CacheTypeOK'
<1>a. Typed /\ TypeOK /\ StagesFit /\ MessagesFit /\ SessionsPaired
  BY TypesHold DEF FreshInv
<1>1. CASE GiveUp(n)
  BY <1>1, <1>a DEF GiveUp, Die, opVars, netVars, serverVars, homeVars,
      CacheTypeOK, TypeOK
<1>2. CASE Return(n)
  BY <1>2, <1>a DEF Return, Enter, Die, serverVars, homeVars, CacheTypeOK,
      TypeOK
<1>3. CASE ReadReturned(n)
  <2>1. msg[n].val \in Value
    BY <1>a, <1>3 DEF MessagesFit, ReadReturned, Answered
  <2> QED
    BY <1>a, <2>1, <1>3, AddCacheItemType DEF ReadReturned, Typed
<1>4. CASE CallWrite(n)
  BY <1>a, <1>4, AlterCacheItemType DEF CallWrite, Typed, MessagesFit
<1>5. CASE Accept(n)
  BY <1>5, <1>a DEF Accept, Die, opVars, homeVars, CacheTypeOK, TypeOK
<1>6. CASE HandleRead(n)
  BY <1>6, <1>a DEF HandleRead, Receives, SharedBy, Answer, Packet, Die,
      opVars, netVars, serverVars, CacheTypeOK, TypeOK
<1>7. CASE HandleInvalidation(n)
  <2>1. PICK c \in Node : HandleInvalidation(n)!(c)
    BY <1>7 DEF HandleInvalidation
  <2>2. msg[c].addr \in Addr
    BY <1>a, <2>1 DEF Typed, MessagesFit, Receives
  <2>3. cache' \in [Node -> [Addr -> Value \cup {None}]]
    BY <1>a, <2>1, <2>2 DEF Typed
  <2> QED
    BY <1>a, <2>3, <1>7 DEF HandleInvalidation, TypeOK, CacheTypeOK
<1>8. CASE UNCHANGED cacheVars
  BY <1>a, <1>8 DEF cacheVars, TypeOK, CacheTypeOK
<1> QED
  BY <1>1, <1>2, <1>3, <1>4, <1>5, <1>6, <1>7, <1>8, CacheFootprint

\* The directory, the lock and the broadcast list keep their types.
LEMMA HomeTypeStep ==
    ASSUME FreshInv, NEW n \in Node, Step(n)
    PROVE  HomeTypeOK'
<1>a. Typed /\ TypeOK /\ StagesFit /\ MessagesFit /\ SessionsPaired
  BY TypesHold DEF FreshInv
<1>1. CASE HandleRead(n)
  <2>1. PICK c \in Node : HandleRead(n)!(c)
    BY <1>1 DEF HandleRead
  <2>2. msg[c].addr \in Addr
    BY <1>a, <2>1 DEF Typed, MessagesFit, Receives
  <2>3. SharedBy(dir[msg[c].addr], c) \in SaveData
    BY <1>a, <2>2 DEF Typed, SharedBy, SaveData, DirState
  <2>4. dir' \in [Addr -> SaveData]
    BY <1>a, <2>1, <2>3 DEF Typed
  <2> QED
    BY <1>a, <2>4, <1>1 DEF HandleRead, TypeOK, HomeTypeOK
<1>2. CASE HandleWrite(n)
  <2>1. PICK c \in Node : HandleWrite(n)!(c)
    BY <1>2 DEF HandleWrite
  <2>2. msg[c].addr \in Addr /\ msg[c].val \in Value
    BY <1>a, <2>1 DEF Typed, MessagesFit, Receives
  <2>3. Written(c, msg[c].val) \in SaveData
    BY <2>2 DEF Written, SaveData, DirState
  <2>4. dir' \in [Addr -> SaveData]
    BY <1>a, <2>1, <2>3 DEF Typed
  <2> QED
    BY <1>a, <2>4, <1>2 DEF HandleWrite, TypeOK, HomeTypeOK
<1>3. CASE StartInvalidations(n)
  <2>1. PICK c \in Node : StartInvalidations(n)!(c)
    BY <1>3 DEF StartInvalidations
  <2>2. msg[c].addr \in Addr /\ msg[c].val \in Value
    BY <1>a, <2>1 DEF Typed, MessagesFit, Receives
  <2>3. Written(c, msg[c].val) \in SaveData
    BY <2>2 DEF Written, SaveData, DirState
  <2>4. dir' \in [Addr -> SaveData]
    BY <1>a, <2>1, <2>3 DEF Typed
  <2>5. targets' \in Seq(Node) /\ victim' \in Addr
    BY <1>a, <2>1, <2>2 DEF Typed
  <2> QED
    BY <1>a, <2>4, <2>5, <1>3 DEF StartInvalidations, TypeOK, HomeTypeOK
<1>4. CASE LocalWrite(n)
  <2>1. WrittenAtHome(op[n].val) \in SaveData
    BY <1>a, <1>4, NodesAssumption
    DEF LocalWrite, MessagesFit, Typed, WrittenAtHome, SaveData, DirState
  <2>2. dir' \in [Addr -> SaveData]
    BY <1>a, <2>1, <1>4 DEF LocalWrite, Typed
  <2>3. targets' \in Seq(Node) /\ victim' \in Addr
    BY <1>a, <1>4 DEF LocalWrite, Typed
  <2> QED
    BY <1>a, <2>2, <2>3, <1>4 DEF LocalWrite, TypeOK, HomeTypeOK
<1>5. CASE EndBroadcast(n)
  <2>1. op[n].kind = "WRITE" => WrittenAtHome(op[n].val) \in SaveData
    BY <1>a, NodesAssumption
    DEF MessagesFit, Typed, WrittenAtHome, SaveData, DirState
  <2>2. dir' \in [Addr -> SaveData]
    BY <1>a, <2>1, <1>5 DEF EndBroadcast, Typed, StagesFit
  <2> QED
    BY <1>a, <2>2, <1>5 DEF EndBroadcast, TypeOK, HomeTypeOK
<1>6. CASE NextTarget(n)
  BY <1>6, <1>a DEF NextTarget, opVars, serverVars, cacheVars, HomeTypeOK,
      TypeOK, LockState
<1>7. CASE LockLocally(n)
  BY <1>7, <1>a DEF LockLocally, SetLock, Enter, Wanted, AccessPhase,
      serverVars, cacheVars, homeVars, HomeTypeOK, TypeOK, LockState
<1>8. CASE UnlockLocally(n)
  BY <1>8, <1>a DEF UnlockLocally, SetLock, Enter, serverVars, cacheVars,
      homeVars, HomeTypeOK, TypeOK, LockState
<1>9. CASE HandleLocks(n)
  <2>1. PICK c \in Node : HandleLocks(n)!(c)
    BY <1>9 DEF HandleLocks
  <2>2. msg[c].val \in LockState
    BY <1>a, <2>1 DEF Typed, MessagesFit, Receives
  <2> QED
    BY <1>a, <2>1, <2>2 DEF SetLock, homeVars, TypeOK, HomeTypeOK
<1>10. CASE UNCHANGED <<dir, targets, victim, locks>>
  BY <1>a, <1>10 DEF TypeOK, HomeTypeOK
<1> QED
  BY <1>1, <1>2, <1>3, <1>4, <1>5, <1>6, <1>7, <1>8, <1>9, <1>10,
      DirFootprint, TargetsFootprint, LocksFootprint

\* Stages, connections and the broadcast list keep fitting together.
LEMMA StagesStep ==
    ASSUME FreshInv, NEW n \in Node, Step(n)
    PROVE  StagesFit'
<1>a. Typed /\ StagesFit /\ MessagesFit /\ SessionsPaired
  BY TypesHold DEF FreshInv
<1>t. /\ stage \in [Node -> Stage] /\ rpc \in [Node -> Rpc]
      /\ serve \in [Node -> {"off", "listen", "session"}]
      /\ peer \in [Node -> Node] /\ backlog \in [Node -> SUBSET Node]
      /\ op \in [Node -> Operation] /\ msg \in [Node -> Message]
  BY <1>a DEF Typed
<1>1. CASE Serve(n)
  BY <1>1, <1>a, <1>t DEF Serve, opVars, netVars, cacheVars, homeVars,
      StagesFit, Stage, Rpc
<1>2. CASE \E a \in Addr : StartRead(n, a)
  BY <1>2, <1>a, <1>t DEF StartRead, Start, Enter, LockPhase, serverVars,
      cacheVars, homeVars, StagesFit, Stage, Rpc
<1>3. CASE \E a \in Addr, v \in Value : StartWrite(n, a, v)
  BY <1>3, <1>a, <1>t DEF StartWrite, Start, Enter, LockPhase, serverVars,
      cacheVars, homeVars, StagesFit, Stage, Rpc
<1>4. CASE Connect(n)
  BY <1>4, <1>a, <1>t DEF Connect, opVars, cacheVars, homeVars, StagesFit,
      Stage, Rpc
<1>5. CASE GiveUp(n)
  BY <1>5, <1>a, <1>t DEF GiveUp, Die, opVars, netVars, serverVars, homeVars,
      StagesFit, Stage, Rpc
<1>6. CASE LockLocally(n)
  <2>1. op' = op /\ serve' = serve /\ targets' = targets
    BY <1>6 DEF LockLocally, serverVars, homeVars
  <2>2. /\ stage[n] = "lock"
        /\ \E s \in {"access", "idle"}, p \in {"none", "connect"} :
              /\ stage' = [stage EXCEPT ![n] = s] /\ rpc' = [rpc EXCEPT ![n] = p]
              /\ s = "idle" => p = "none"
    BY <1>6 DEF LockLocally, Enter, AccessPhase
  <2> QED
    BY <1>a, <1>t, <2>1, <2>2 DEF StagesFit
<1>7. CASE UnlockLocally(n)
  BY <1>7, <1>a, <1>t DEF UnlockLocally, SetLock, Enter, serverVars,
      cacheVars, homeVars, StagesFit, Stage, Rpc
<1>8. CASE CallLock(n)
  BY <1>8, <1>a, <1>t DEF CallLock, Call, Packet, Wanted, opVars, serverVars,
      cacheVars, homeVars, StagesFit, Stage, Rpc
<1>9. CASE LockAnswered(n)
  BY <1>9, <1>a, <1>t DEF LockAnswered, Answered, Close, Packet, serverVars,
      cacheVars, homeVars, StagesFit, Stage, Rpc
<1>10. CASE EnterAccess(n)
  BY <1>10, <1>a, <1>t DEF EnterAccess, Enter, AccessPhase, serverVars,
      cacheVars, homeVars, StagesFit, Stage, Rpc
<1>11. CASE EnterUnlock(n)
  BY <1>11, <1>a, <1>t DEF EnterUnlock, Enter, LockPhase, serverVars,
      cacheVars, homeVars, StagesFit, Stage, Rpc
<1>12. CASE Return(n)
  BY <1>12, <1>a, <1>t DEF Return, Enter, Die, serverVars, homeVars,
      StagesFit, Stage, Rpc
<1>13. CASE CachedRead(n)
  BY <1>13, <1>a, <1>t DEF CachedRead, ReadValue, Enter, LockPhase,
      serverVars, cacheVars, homeVars, StagesFit, Stage, Rpc
<1>14. CASE LocalRead(n)
  BY <1>14, <1>a, <1>t DEF LocalRead, ReadValue, Enter, LockPhase, serverVars,
      cacheVars, homeVars, StagesFit, Stage, Rpc
<1>15. CASE CallRead(n)
  BY <1>15, <1>a, <1>t DEF CallRead, Call, Packet, opVars, serverVars,
      cacheVars, homeVars, StagesFit, Stage, Rpc
<1>16. CASE ReadReturned(n)
  BY <1>16, <1>a, <1>t DEF ReadReturned, Answered, ReadValue, AddCacheItem,
      Close, Packet, netVars, serverVars, cacheVars, homeVars, StagesFit,
      Stage, Rpc
<1>17. CASE CallWrite(n)
  BY <1>17, <1>a, <1>t DEF CallWrite, AlterCacheItem, AddCacheItem, Call,
      Packet, opVars, netVars, serverVars, homeVars, StagesFit, Stage, Rpc
<1>18. CASE WriteReturned(n)
  BY <1>18, <1>a, <1>t DEF WriteReturned, Answered, Close, Packet, opVars,
      serverVars, cacheVars, homeVars, StagesFit, Stage, Rpc
<1>19. CASE WriteRecalled(n)
  BY <1>19, <1>a, <1>t DEF WriteRecalled, Answered, Enter, cacheVars,
      homeVars, StagesFit, Stage, Rpc
<1>20. CASE CloseReconnected(n)
  BY <1>20, <1>a, <1>t DEF CloseReconnected, Close, Packet, opVars,
      serverVars, cacheVars, homeVars, StagesFit, Stage, Rpc
<1>21. CASE LocalWrite(n)
  BY <1>21, <1>a, <1>t
  DEF LocalWrite, Enter, LockPhase, NeedsInvalidation, serverVars, StagesFit
<1>22. CASE CallInvalidate(n)
  BY <1>22, <1>a, <1>t DEF CallInvalidate, Call, Packet, opVars, serverVars,
      cacheVars, homeVars, StagesFit, Stage, Rpc
<1>23. CASE InvalidationAnswered(n)
  BY <1>23, <1>a, <1>t DEF InvalidationAnswered, Answered, Close, Packet,
      opVars, serverVars, cacheVars, homeVars, StagesFit, Stage, Rpc
<1>24. CASE NextTarget(n)
  <2>1. Tail(targets) # << >>
    BY <1>a, TailOfLong, <1>24 DEF Typed, NextTarget
  <2> QED
    BY <1>a, <1>t, <2>1, <1>24 DEF NextTarget, opVars, serverVars, StagesFit
<1>25. CASE EndBroadcast(n)
  BY <1>25, <1>a, <1>t DEF EndBroadcast, Enter, LockPhase, WrittenAtHome,
      serverVars, cacheVars, StagesFit, Stage, Rpc
<1>26. CASE Accept(n)
  BY <1>26, <1>a, <1>t DEF Accept, opVars, homeVars, StagesFit, SessionsPaired
<1>27. CASE HandleReset(n)
  <2>1. /\ rpc[peer[n]] = "closing" /\ peer[n] \in Node
        /\ serve' = [serve EXCEPT ![n] = "off"] /\ op' = op /\ targets' = targets
    BY <1>t, <1>27 DEF HandleReset, homeVars
  <2>2. /\ peer[n] # n /\ stage[n] \in {"idle", "recall"}
        /\ stage[peer[n]] \notin {"idle", "recall"}
    BY <1>a, <2>1, <1>27 DEF HandleReset, StagesFit
  <2>3. CASE stage[n] = "recall"
    <3>1. /\ stage' = [stage EXCEPT ![n] = "reconnect"]
          /\ rpc' = [rpc EXCEPT ![peer[n]] = "closed", ![n] = "connect"]
      BY <2>3, <1>27 DEF HandleReset
    <3>2. /\ stage'[n] = "reconnect" /\ rpc'[n] = "connect" /\ serve'[n] = "off"
          /\ stage'[peer[n]] = stage[peer[n]] /\ rpc'[peer[n]] = "closed"
          /\ op[n].kind = "WRITE"
      BY <1>a, <1>t, <2>1, <2>2, <2>3, <3>1 DEF StagesFit
    <3>3. \A i \in Node \ {n, peer[n]} : /\ stage'[i] = stage[i] /\ rpc'[i] = rpc[i]
                                        /\ serve'[i] = serve[i]
      BY <1>t, <2>1, <3>1
    <3> QED
      BY <1>a, <1>t, <2>1, <2>2, <2>3, <3>2, <3>3, NodesAssumption DEF StagesFit
  <2>4. CASE stage[n] # "recall"
    BY <1>a, <1>t, <2>1, <2>2, <2>4, <1>27 DEF HandleReset, StagesFit
  <2> QED
    BY <2>3, <2>4
<1>28. CASE HandleLocks(n)
  BY <1>28, <1>a, <1>t DEF HandleLocks, Receives, SetLock, Answer, Packet,
      opVars, serverVars, cacheVars, homeVars, StagesFit, Stage, Rpc
<1>29. CASE HandleRead(n)
  BY <1>29, <1>a, <1>t DEF HandleRead, Receives, SharedBy, Answer, Packet,
      Die, opVars, netVars, serverVars, StagesFit, Stage, Rpc
<1>30. CASE HandleWrite(n)
  BY <1>30, <1>a, <1>t DEF HandleWrite, Receives, Written, Answer, Packet,
      opVars, serverVars, cacheVars, StagesFit, Stage, Rpc
<1>31. CASE StartInvalidations(n)
  <2>1. PICK c \in Node : StartInvalidations(n)!(c)
    BY <1>31 DEF StartInvalidations
  <2>2. n = Home /\ n # c /\ stage[c] = "access" /\ op[c].kind = "WRITE"
    BY <1>a, <2>1, ServedClient
  <2>3. targets' # << >>
    BY <2>1 DEF RemoteNeedsInvalidation, NeedsInvalidation
  <2>4. /\ stage' = [stage EXCEPT ![n] = "bcast"] /\ op' = op
        /\ rpc' = [rpc EXCEPT ![c] = "answered", ![n] = "connect"]
        /\ serve' = [serve EXCEPT ![n] = "off"]
    BY <2>1
  <2> QED
    BY <1>a, <1>t, <2>2, <2>3, <2>4 DEF StagesFit
<1>32. CASE HandleInvalidation(n)
  BY <1>32, <1>a, <1>t DEF HandleInvalidation, Receives, Answer, Packet,
      opVars, serverVars, homeVars, StagesFit, Stage, Rpc
<1> QED
  BY <1>1, <1>2, <1>3, <1>4, <1>5, <1>6, <1>7, <1>8, <1>9, <1>10, <1>11,
      <1>12, <1>13, <1>14, <1>15, <1>16, <1>17, <1>18, <1>19, <1>20, <1>21,
      <1>22, <1>23, <1>24, <1>25, <1>26, <1>27, <1>28, <1>29, <1>30, <1>31,
      <1>32 DEF Step, StartOp, ClientStep, ServerStep

\* Messages keep saying what their senders do.
LEMMA MessagesStep ==
    ASSUME FreshInv, NEW n \in Node, Step(n)
    PROVE  MessagesFit'
<1>a. Typed /\ StagesFit /\ MessagesFit /\ SessionsPaired
  BY TypesHold DEF FreshInv
<1>t. /\ stage \in [Node -> Stage] /\ rpc \in [Node -> Rpc]
      /\ serve \in [Node -> {"off", "listen", "session"}]
      /\ peer \in [Node -> Node] /\ backlog \in [Node -> SUBSET Node]
      /\ op \in [Node -> Operation] /\ msg \in [Node -> Message]
  BY <1>a DEF Typed
<1>1. CASE Serve(n)
  BY <1>1, <1>a, <1>t DEF Serve, opVars, netVars, cacheVars, homeVars,
      StagesFit, MessagesFit, Wanted, LockState
<1>2. CASE \E a \in Addr : StartRead(n, a)
  BY <1>2, <1>a, <1>t DEF StartRead, Start, Enter, LockPhase, serverVars,
      cacheVars, homeVars, StagesFit, MessagesFit, Wanted, LockState
<1>3. CASE \E a \in Addr, v \in Value : StartWrite(n, a, v)
  BY <1>3, <1>a, <1>t DEF StartWrite, Start, Enter, LockPhase, serverVars,
      cacheVars, homeVars, StagesFit, MessagesFit, Wanted, LockState
<1>4. CASE Connect(n)
  BY <1>4, <1>a, <1>t DEF Connect, opVars, cacheVars, homeVars, StagesFit,
      MessagesFit, Wanted, LockState
<1>5. CASE GiveUp(n)
  BY <1>5, <1>a, <1>t DEF GiveUp, Die, opVars, netVars, serverVars, homeVars,
      StagesFit, MessagesFit, Wanted, LockState
<1>6. CASE LockLocally(n)
  BY <1>6, <1>a, <1>t DEF LockLocally, SetLock, Enter, Wanted, AccessPhase,
      serverVars, cacheVars, homeVars, StagesFit, MessagesFit, LockState
<1>7. CASE UnlockLocally(n)
  BY <1>7, <1>a, <1>t DEF UnlockLocally, SetLock, Enter, serverVars,
      cacheVars, homeVars, StagesFit, MessagesFit, Wanted, LockState
<1>8. CASE CallLock(n)
  BY <1>8, <1>a, <1>t DEF CallLock, Call, Packet, Wanted, opVars, serverVars,
      cacheVars, homeVars, StagesFit, MessagesFit, LockState
<1>9. CASE LockAnswered(n)
  BY <1>9, <1>a, <1>t DEF LockAnswered, Answered, Close, Packet, serverVars,
      cacheVars, homeVars, StagesFit, MessagesFit, Wanted, LockState
<1>10. CASE EnterAccess(n)
  BY <1>10, <1>a, <1>t DEF EnterAccess, Enter, AccessPhase, serverVars,
      cacheVars, homeVars, StagesFit, MessagesFit, Wanted, LockState
<1>11. CASE EnterUnlock(n)
  BY <1>11, <1>a, <1>t DEF EnterUnlock, Enter, LockPhase, serverVars,
      cacheVars, homeVars, StagesFit, MessagesFit, Wanted, LockState
<1>12. CASE Return(n)
  BY <1>12, <1>a, <1>t DEF Return, Enter, Die, serverVars, homeVars,
      StagesFit, MessagesFit, Wanted, LockState
<1>13. CASE CachedRead(n)
  BY <1>13, <1>a, <1>t DEF CachedRead, ReadValue, Enter, LockPhase,
      serverVars, cacheVars, homeVars, StagesFit, MessagesFit, Wanted,
      LockState
<1>14. CASE LocalRead(n)
  BY <1>14, <1>a, <1>t DEF LocalRead, ReadValue, Enter, LockPhase, serverVars,
      cacheVars, homeVars, StagesFit, MessagesFit, Wanted, LockState
<1>15. CASE CallRead(n)
  BY <1>15, <1>a, <1>t DEF CallRead, Call, Packet, opVars, serverVars,
      cacheVars, homeVars, StagesFit, MessagesFit, Wanted, LockState
<1>16. CASE ReadReturned(n)
  BY <1>16, <1>a, <1>t DEF ReadReturned, Answered, ReadValue, AddCacheItem,
      Close, Packet, netVars, serverVars, cacheVars, homeVars, StagesFit,
      MessagesFit, Wanted, LockState
<1>17. CASE CallWrite(n)
  BY <1>17, <1>a, <1>t DEF CallWrite, AlterCacheItem, AddCacheItem, Call,
      Packet, opVars, netVars, serverVars, homeVars, StagesFit, MessagesFit,
      Wanted, LockState
<1>18. CASE WriteReturned(n)
  BY <1>18, <1>a, <1>t DEF WriteReturned, Answered, Close, Packet, opVars,
      serverVars, cacheVars, homeVars, StagesFit, MessagesFit, Wanted,
      LockState
<1>19. CASE WriteRecalled(n)
  BY <1>19, <1>a, <1>t DEF WriteRecalled, Answered, Enter, cacheVars,
      homeVars, StagesFit, MessagesFit, Wanted, LockState
<1>20. CASE CloseReconnected(n)
  BY <1>20, <1>a, <1>t DEF CloseReconnected, Close, Packet, opVars,
      serverVars, cacheVars, homeVars, StagesFit, MessagesFit, Wanted,
      LockState
<1>21. CASE LocalWrite(n)
  BY <1>21, <1>a, <1>t DEF LocalWrite, Enter, LockPhase, WrittenAtHome,
      serverVars, cacheVars, StagesFit, MessagesFit, Wanted, LockState
<1>22. CASE CallInvalidate(n)
  BY <1>22, <1>a, <1>t DEF CallInvalidate, Call, Packet, opVars, serverVars,
      cacheVars, homeVars, StagesFit, MessagesFit, Wanted, LockState
<1>23. CASE InvalidationAnswered(n)
  BY <1>23, <1>a, <1>t DEF InvalidationAnswered, Answered, Close, Packet,
      opVars, serverVars, cacheVars, homeVars, StagesFit, MessagesFit, Wanted,
      LockState
<1>24. CASE NextTarget(n)
  BY <1>24, <1>a, <1>t DEF NextTarget, opVars, serverVars, cacheVars,
      StagesFit, MessagesFit, Wanted, LockState
<1>25. CASE EndBroadcast(n)
  BY <1>25, <1>a, <1>t DEF EndBroadcast, Enter, LockPhase, WrittenAtHome,
      serverVars, cacheVars, StagesFit, MessagesFit, Wanted, LockState
<1>26. CASE Accept(n)
  BY <1>26, <1>a, <1>t DEF Accept, Die, opVars, homeVars, StagesFit,
      MessagesFit, Wanted, LockState
<1>27. CASE HandleReset(n)
  BY <1>27, <1>a, <1>t DEF HandleReset, cacheVars, homeVars, StagesFit,
      MessagesFit, Wanted, LockState
<1>28. CASE HandleLocks(n)
  BY <1>28, <1>a, <1>t DEF HandleLocks, Receives, SetLock, Answer, Packet,
      opVars, serverVars, cacheVars, homeVars, StagesFit, MessagesFit, Wanted,
      LockState
<1>29. CASE HandleRead(n)
  <2>1. PICK c \in Node : HandleRead(n)!(c)
    BY <1>29 DEF HandleRead
  <2>2. stage[c] = "access" /\ msg[c].addr \in Addr
    BY <1>a, <2>1, ServedClient
  <2>3. dir[msg[c].addr].data \in Value
    BY <1>a, <2>2 DEF Typed
  <2> QED
    BY <1>a, <1>t, <2>1, <2>2, <2>3
    DEF Answer, Packet, opVars, netVars, MessagesFit
<1>30. CASE HandleWrite(n)
  BY <1>30, <1>a, <1>t DEF HandleWrite, Receives, Written, Answer, Packet,
      opVars, serverVars, cacheVars, StagesFit, MessagesFit, Wanted, LockState
<1>31. CASE StartInvalidations(n)
  <2>1. PICK c \in Node : StartInvalidations(n)!(c)
    BY <1>31 DEF StartInvalidations
  <2>2. /\ n = Home /\ n # c /\ stage[c] = "access" /\ op[c].kind = "WRITE"
        /\ targets = << >>
    BY <1>a, <2>1, ServedClient
  <2>3. /\ stage' = [stage EXCEPT ![n] = "bcast"] /\ op' = op
        /\ rpc' = [rpc EXCEPT ![c] = "answered", ![n] = "connect"]
        /\ msg' = [msg EXCEPT ![c] = [imm |-> "INVALIDATE",
                                      addr |-> msg[c].addr, val |-> None]]
    BY <2>1 DEF Packet
  <2> QED
    BY <1>a, <1>t, <2>2, <2>3 DEF StagesFit, MessagesFit
<1>32. CASE HandleInvalidation(n)
  BY <1>32, <1>a, <1>t DEF HandleInvalidation, Receives, Answer, Packet,
      opVars, serverVars, homeVars, StagesFit, MessagesFit, Wanted, LockState
<1> QED
  BY <1>1, <1>2, <1>3, <1>4, <1>5, <1>6, <1>7, <1>8, <1>9, <1>10, <1>11,
      <1>12, <1>13, <1>14, <1>15, <1>16, <1>17, <1>18, <1>19, <1>20, <1>21,
      <1>22, <1>23, <1>24, <1>25, <1>26, <1>27, <1>28, <1>29, <1>30, <1>31,
      <1>32 DEF Step, StartOp, ClientStep, ServerStep

\* Sessions and backlogs stay paired with the connections of clients.
LEMMA SessionsStep ==
    ASSUME FreshInv, NEW n \in Node, Step(n)
    PROVE  SessionsPaired'
<1>a. Typed /\ StagesFit /\ MessagesFit /\ SessionsPaired
  BY TypesHold DEF FreshInv
<1>t. /\ stage \in [Node -> Stage] /\ rpc \in [Node -> Rpc]
      /\ serve \in [Node -> {"off", "listen", "session"}]
      /\ peer \in [Node -> Node] /\ backlog \in [Node -> SUBSET Node]
      /\ op \in [Node -> Operation] /\ msg \in [Node -> Message]
  BY <1>a DEF Typed
<1>b. targets \in Seq(Node) /\ Home \in Node /\ LockNode \in Node
  BY <1>a, NodesAssumption DEF Typed
<1>1. CASE Serve(n)
  BY <1>1, <1>a, <1>t, <1>b DEF Serve, opVars, netVars, cacheVars, homeVars,
      StagesFit, MessagesFit, SessionsPaired, InSession, Target
<1>2. CASE \E a \in Addr : StartRead(n, a)
  BY <1>2, <1>a, <1>t, <1>b DEF StartRead, Start, Enter, LockPhase,
      serverVars, cacheVars, homeVars, StagesFit, MessagesFit, SessionsPaired,
      InSession, Target
<1>3. CASE \E a \in Addr, v \in Value : StartWrite(n, a, v)
  BY <1>3, <1>a, <1>t, <1>b DEF StartWrite, Start, Enter, LockPhase,
      serverVars, cacheVars, homeVars, StagesFit, MessagesFit, SessionsPaired,
      InSession, Target
<1>4. CASE Connect(n)
  BY <1>4, <1>a, <1>t, <1>b DEF Connect, opVars, cacheVars, homeVars,
      StagesFit, MessagesFit, SessionsPaired, InSession, Target
<1>5. CASE GiveUp(n)
  BY <1>5, <1>a, <1>t, <1>b DEF GiveUp, Die, opVars, netVars, serverVars,
      homeVars, StagesFit, MessagesFit, SessionsPaired, InSession, Target
<1>6. CASE LockLocally(n)
  BY <1>6, <1>a, <1>t, <1>b DEF LockLocally, SetLock, Enter, Wanted,
      AccessPhase, serverVars, cacheVars, homeVars, StagesFit, MessagesFit,
      SessionsPaired, InSession, Target
<1>7. CASE UnlockLocally(n)
  BY <1>7, <1>a, <1>t, <1>b DEF UnlockLocally, SetLock, Enter, serverVars,
      cacheVars, homeVars, StagesFit, MessagesFit, SessionsPaired, InSession,
      Target
<1>8. CASE CallLock(n)
  BY <1>8, <1>a, <1>t, <1>b DEF CallLock, Call, Packet, Wanted, opVars,
      serverVars, cacheVars, homeVars, StagesFit, MessagesFit, SessionsPaired,
      InSession, Target
<1>9. CASE LockAnswered(n)
  BY <1>9, <1>a, <1>t, <1>b DEF LockAnswered, Answered, Close, Packet,
      serverVars, cacheVars, homeVars, StagesFit, MessagesFit, SessionsPaired,
      InSession, Target
<1>10. CASE EnterAccess(n)
  BY <1>10, <1>a, <1>t, <1>b DEF EnterAccess, Enter, AccessPhase, serverVars,
      cacheVars, homeVars, StagesFit, MessagesFit, SessionsPaired, InSession,
      Target
<1>11. CASE EnterUnlock(n)
  BY <1>11, <1>a, <1>t, <1>b DEF EnterUnlock, Enter, LockPhase, serverVars,
      cacheVars, homeVars, StagesFit, MessagesFit, SessionsPaired, InSession,
      Target
<1>12. CASE Return(n)
  BY <1>12, <1>a, <1>t, <1>b DEF Return, Enter, Die, serverVars, homeVars,
      StagesFit, MessagesFit, SessionsPaired, InSession, Target
<1>13. CASE CachedRead(n)
  BY <1>13, <1>a, <1>t, <1>b DEF CachedRead, ReadValue, Enter, LockPhase,
      serverVars, cacheVars, homeVars, StagesFit, MessagesFit, SessionsPaired,
      InSession, Target
<1>14. CASE LocalRead(n)
  BY <1>14, <1>a, <1>t, <1>b DEF LocalRead, ReadValue, Enter, LockPhase,
      serverVars, cacheVars, homeVars, StagesFit, MessagesFit, SessionsPaired,
      InSession, Target
<1>15. CASE CallRead(n)
  BY <1>15, <1>a, <1>t, <1>b DEF CallRead, Call, Packet, opVars, serverVars,
      cacheVars, homeVars, StagesFit, MessagesFit, SessionsPaired, InSession,
      Target
<1>16. CASE ReadReturned(n)
  BY <1>16, <1>a, <1>t, <1>b DEF ReadReturned, Answered, ReadValue,
      AddCacheItem, Close, Packet, netVars, serverVars, cacheVars, homeVars,
      StagesFit, MessagesFit, SessionsPaired, InSession, Target
<1>17. CASE CallWrite(n)
  BY <1>17, <1>a, <1>t, <1>b DEF CallWrite, AlterCacheItem, AddCacheItem,
      Call, Packet, opVars, netVars, serverVars, homeVars, StagesFit,
      MessagesFit, SessionsPaired, InSession, Target
<1>18. CASE WriteReturned(n)
  BY <1>18, <1>a, <1>t, <1>b DEF WriteReturned, Answered, Close, Packet,
      opVars, serverVars, cacheVars, homeVars, StagesFit, MessagesFit,
      SessionsPaired, InSession, Target
<1>19. CASE WriteRecalled(n)
  BY <1>19, <1>a, <1>t, <1>b DEF WriteRecalled, Answered, Enter, cacheVars,
      homeVars, StagesFit, MessagesFit, SessionsPaired, InSession, Target
<1>20. CASE CloseReconnected(n)
  BY <1>20, <1>a, <1>t, <1>b DEF CloseReconnected, Close, Packet, opVars,
      serverVars, cacheVars, homeVars, StagesFit, MessagesFit, SessionsPaired,
      InSession, Target
<1>21. CASE LocalWrite(n)
  BY <1>21, <1>a, <1>t, <1>b DEF LocalWrite, Enter, LockPhase, WrittenAtHome,
      serverVars, cacheVars, StagesFit, MessagesFit, SessionsPaired,
      InSession, Target
<1>22. CASE CallInvalidate(n)
  BY <1>22, <1>a, <1>t, <1>b DEF CallInvalidate, Call, Packet, opVars,
      serverVars, cacheVars, homeVars, StagesFit, MessagesFit, SessionsPaired,
      InSession, Target
<1>23. CASE InvalidationAnswered(n)
  BY <1>23, <1>a, <1>t, <1>b DEF InvalidationAnswered, Answered, Close,
      Packet, opVars, serverVars, cacheVars, homeVars, StagesFit, MessagesFit,
      SessionsPaired, InSession, Target
<1>24. CASE NextTarget(n)
  BY <1>24, <1>a, <1>t, <1>b DEF NextTarget, opVars, serverVars, cacheVars,
      StagesFit, MessagesFit, SessionsPaired, InSession, Target
<1>25. CASE EndBroadcast(n)
  BY <1>25, <1>a, <1>t, <1>b DEF EndBroadcast, Enter, LockPhase,
      WrittenAtHome, serverVars, cacheVars, StagesFit, MessagesFit,
      SessionsPaired, InSession, Target
<1>26. CASE Accept(n)
  BY <1>26, <1>a, <1>t, <1>b DEF Accept, Die, opVars, homeVars, StagesFit,
      MessagesFit, SessionsPaired, InSession, Target
<1>27. CASE HandleReset(n)
  BY <1>27, <1>a, <1>t, <1>b DEF HandleReset, cacheVars, homeVars, StagesFit,
      MessagesFit, SessionsPaired, InSession, Target
<1>28. CASE HandleLocks(n)
  BY <1>28, <1>a, <1>t, <1>b DEF HandleLocks, Receives, SetLock, Answer,
      Packet, opVars, serverVars, cacheVars, homeVars, StagesFit, MessagesFit,
      SessionsPaired, InSession, Target
<1>29. CASE HandleRead(n)
  BY <1>29, <1>a, <1>t, <1>b DEF HandleRead, Receives, SharedBy, Answer,
      Packet, Die, opVars, netVars, serverVars, StagesFit, MessagesFit,
      SessionsPaired, InSession, Target
<1>30. CASE HandleWrite(n)
  BY <1>30, <1>a, <1>t, <1>b DEF HandleWrite, Receives, Written, Answer,
      Packet, opVars, serverVars, cacheVars, StagesFit, MessagesFit,
      SessionsPaired, InSession, Target
<1>31. CASE StartInvalidations(n)
  BY <1>31, <1>a, <1>t, <1>b DEF StartInvalidations, Receives, Written,
      Packet, cacheVars, StagesFit, MessagesFit, SessionsPaired, InSession,
      Target
<1>32. CASE HandleInvalidation(n)
  BY <1>32, <1>a, <1>t, <1>b DEF HandleInvalidation, Receives, Answer, Packet,
      opVars, serverVars, homeVars, StagesFit, MessagesFit, SessionsPaired,
      InSession, Target
<1> QED
  BY <1>1, <1>2, <1>3, <1>4, <1>5, <1>6, <1>7, <1>8, <1>9, <1>10, <1>11,
      <1>12, <1>13, <1>14, <1>15, <1>16, <1>17, <1>18, <1>19, <1>20, <1>21,
      <1>22, <1>23, <1>24, <1>25, <1>26, <1>27, <1>28, <1>29, <1>30, <1>31,
      <1>32 DEF Step, StartOp, ClientStep, ServerStep

\* A node with a read under way has no copy, a writer keeps what it sent.
LEMMA CopiesStep ==
    ASSUME FreshInv, NEW n \in Node, Step(n)
    PROVE  CopiesFit'
<1>a. Typed /\ StagesFit /\ MessagesFit /\ SessionsPaired
  BY TypesHold DEF FreshInv
<1>t. /\ stage \in [Node -> Stage] /\ rpc \in [Node -> Rpc]
      /\ serve \in [Node -> {"off", "listen", "session"}]
      /\ peer \in [Node -> Node] /\ backlog \in [Node -> SUBSET Node]
      /\ op \in [Node -> Operation] /\ msg \in [Node -> Message]
  BY <1>a DEF Typed
<1>c. cache \in [Node -> [Addr -> Value \cup {None}]]
  BY <1>a DEF Typed
<1>d. \A i \in Node : op[i].addr \in Addr
  BY <1>a DEF Typed
<1>b. CopiesFit
  BY DEF FreshInv
<1>1. CASE Serve(n)
  BY <1>1, <1>a, <1>b, <1>c, <1>d, <1>t DEF Serve, opVars, netVars, cacheVars,
      homeVars, StagesFit, MessagesFit, CopiesFit, AccessPhase
<1>2. CASE \E a \in Addr : StartRead(n, a)
  BY <1>2, <1>a, <1>b, <1>c, <1>d, <1>t DEF StartRead, Start, Enter,
      LockPhase, serverVars, cacheVars, homeVars, StagesFit, MessagesFit,
      CopiesFit, AccessPhase
<1>3. CASE \E a \in Addr, v \in Value : StartWrite(n, a, v)
  BY <1>3, <1>a, <1>b, <1>c, <1>d, <1>t DEF StartWrite, Start, Enter,
      LockPhase, serverVars, cacheVars, homeVars, StagesFit, MessagesFit,
      CopiesFit, AccessPhase
<1>4. CASE Connect(n)
  BY <1>4, <1>a, <1>b, <1>c, <1>d, <1>t DEF Connect, opVars, cacheVars,
      homeVars, StagesFit, MessagesFit, CopiesFit, AccessPhase
<1>5. CASE GiveUp(n)
  BY <1>5, <1>a, <1>b, <1>c, <1>d, <1>t DEF GiveUp, Die, opVars, netVars,
      serverVars, homeVars, StagesFit, MessagesFit, CopiesFit, AccessPhase
<1>6. CASE LockLocally(n)
  <2>1. CASE Grants(Wanted(n))
    BY <1>b, <1>c, <1>d, <1>t, <2>1, <1>6
    DEF LockLocally, Enter, AccessPhase, cacheVars, CopiesFit
  <2>2. CASE ~ Grants(Wanted(n))
    BY <1>b, <1>c, <1>d, <1>t, <2>2, <1>6
    DEF LockLocally, Enter, cacheVars, CopiesFit
  <2> QED
    BY <2>1, <2>2
<1>7. CASE UnlockLocally(n)
  BY <1>7, <1>a, <1>b, <1>c, <1>d, <1>t DEF UnlockLocally, SetLock, Enter,
      serverVars, cacheVars, homeVars, StagesFit, MessagesFit, CopiesFit,
      AccessPhase
<1>8. CASE CallLock(n)
  BY <1>8, <1>a, <1>b, <1>c, <1>d, <1>t DEF CallLock, Call, Packet, Wanted,
      opVars, serverVars, cacheVars, homeVars, StagesFit, MessagesFit,
      CopiesFit, AccessPhase
<1>9. CASE LockAnswered(n)
  BY <1>9, <1>a, <1>b, <1>c, <1>d, <1>t DEF LockAnswered, Answered, Close,
      Packet, serverVars, cacheVars, homeVars, StagesFit, MessagesFit,
      CopiesFit, AccessPhase
<1>10. CASE EnterAccess(n)
  BY <1>10, <1>a, <1>b, <1>c, <1>d, <1>t DEF EnterAccess, Enter, AccessPhase,
      serverVars, cacheVars, homeVars, StagesFit, MessagesFit, CopiesFit
<1>11. CASE EnterUnlock(n)
  BY <1>11, <1>a, <1>b, <1>c, <1>d, <1>t DEF EnterUnlock, Enter, LockPhase,
      serverVars, cacheVars, homeVars, StagesFit, MessagesFit, CopiesFit,
      AccessPhase
<1>12. CASE Return(n)
  BY <1>12, <1>a, <1>b, <1>c, <1>d, <1>t DEF Return, Enter, Die, serverVars,
      homeVars, StagesFit, MessagesFit, CopiesFit, AccessPhase
<1>13. CASE CachedRead(n)
  BY <1>13, <1>a, <1>b, <1>c, <1>d, <1>t DEF CachedRead, ReadValue, Enter,
      LockPhase, serverVars, cacheVars, homeVars, StagesFit, MessagesFit,
      CopiesFit, AccessPhase
<1>14. CASE LocalRead(n)
  BY <1>14, <1>a, <1>b, <1>c, <1>d, <1>t DEF LocalRead, ReadValue, Enter,
      LockPhase, serverVars, cacheVars, homeVars, StagesFit, MessagesFit,
      CopiesFit, AccessPhase
<1>15. CASE CallRead(n)
  BY <1>15, <1>a, <1>b, <1>c, <1>d, <1>t DEF CallRead, Call, Packet, opVars,
      serverVars, cacheVars, homeVars, StagesFit, MessagesFit, CopiesFit,
      AccessPhase
<1>16. CASE ReadReturned(n)
  BY <1>16, <1>a, <1>b, <1>c, <1>d, <1>t DEF ReadReturned, Answered,
      ReadValue, AddCacheItem, Close, Packet, netVars, serverVars, cacheVars,
      homeVars, StagesFit, MessagesFit, CopiesFit, AccessPhase
<1>17. CASE CallWrite(n)
  <2>1. /\ \A i \in Node \ {n} : cache'[i] = cache[i]
        /\ \A i \in Node \ {n} : rpc'[i] = rpc[i]
        /\ stage' = stage /\ op' = op
    BY <1>c, <1>t, <1>17 DEF CallWrite, AlterCacheItem, AddCacheItem, Call,
        cacheVars, netVars, opVars
  <2>2. op[n].kind = "WRITE" /\ op[n].addr \in Addr /\ rpc[n] = "open"
    BY <1>d, <1>17 DEF CallWrite
  <2>3. rpc'[n] = "sent" => cache'[n][op[n].addr] \in {None, op[n].val}
    BY <1>c, <1>t, <2>2, <1>17 DEF CallWrite, AlterCacheItem, AddCacheItem, Call,
        cacheVars, netVars
  <2> QED
    BY <1>b, <1>t, <2>1, <2>2, <2>3 DEF CopiesFit
<1>18. CASE WriteReturned(n)
  BY <1>18, <1>a, <1>b, <1>c, <1>d, <1>t DEF WriteReturned, Answered, Close,
      Packet, opVars, serverVars, cacheVars, homeVars, StagesFit, MessagesFit,
      CopiesFit, AccessPhase
<1>19. CASE WriteRecalled(n)
  BY <1>19, <1>a, <1>b, <1>c, <1>d, <1>t DEF WriteRecalled, Answered, Enter,
      cacheVars, homeVars, StagesFit, MessagesFit, CopiesFit, AccessPhase
<1>20. CASE CloseReconnected(n)
  BY <1>20, <1>a, <1>b, <1>c, <1>d, <1>t DEF CloseReconnected, Close, Packet,
      opVars, serverVars, cacheVars, homeVars, StagesFit, MessagesFit,
      CopiesFit, AccessPhase
<1>21. CASE LocalWrite(n)
  BY <1>21, <1>a, <1>b, <1>c, <1>d, <1>t DEF LocalWrite, Enter, LockPhase,
      WrittenAtHome, serverVars, cacheVars, StagesFit, MessagesFit, CopiesFit,
      AccessPhase
<1>22. CASE CallInvalidate(n)
  BY <1>22, <1>a, <1>b, <1>c, <1>d, <1>t DEF CallInvalidate, Call, Packet,
      opVars, serverVars, cacheVars, homeVars, StagesFit, MessagesFit,
      CopiesFit, AccessPhase
<1>23. CASE InvalidationAnswered(n)
  BY <1>23, <1>a, <1>b, <1>c, <1>d, <1>t DEF InvalidationAnswered, Answered,
      Close, Packet, opVars, serverVars, cacheVars, homeVars, StagesFit,
      MessagesFit, CopiesFit, AccessPhase
<1>24. CASE NextTarget(n)
  BY <1>24, <1>a, <1>b, <1>c, <1>d, <1>t DEF NextTarget, opVars, serverVars,
      cacheVars, StagesFit, MessagesFit, CopiesFit, AccessPhase
<1>25. CASE EndBroadcast(n)
  <2>1. /\ cache' = cache /\ op' = op
        /\ \A i \in Node : \/ stage'[i] = stage[i] /\ rpc'[i] = rpc[i]
                          \/ stage'[i] # "access"
    BY <1>t, <1>25 DEF EndBroadcast, Enter, cacheVars
  <2> QED
    BY <1>b, <1>t, <2>1 DEF CopiesFit
<1>26. CASE Accept(n)
  <2>1. /\ stage' = stage /\ op' = op
        /\ \A i \in Node : \/ rpc'[i] = "open" /\ rpc[i] = "backlog"
                          \/ rpc'[i] = "none" \/ rpc'[i] = rpc[i]
    BY <1>a, <1>t, <1>26 DEF Accept, opVars, SessionsPaired
  <2>2. \A i \in Node, b \in Addr : cache'[i][b] \in {None, cache[i][b]}
    BY <1>c, <1>26 DEF Accept, Die
  <2> QED
    BY <1>b, <1>c, <1>d, <1>t, <2>1, <2>2 DEF CopiesFit
<1>27. CASE HandleReset(n)
  <2>1. /\ op' = op /\ cache' = cache
        /\ \A i \in Node : /\ stage'[i] \in {stage[i], "reconnect"}
                           /\ \/ rpc'[i] \in {rpc[i], "closed"}
                              \/ stage'[i] = "reconnect"
    BY <1>t, <1>27 DEF HandleReset, cacheVars
  <2> QED
    BY <1>b, <1>t, <2>1 DEF CopiesFit
<1>28. CASE HandleLocks(n)
  BY <1>28, <1>a, <1>b, <1>c, <1>d, <1>t DEF HandleLocks, Receives, SetLock,
      Answer, Packet, opVars, serverVars, cacheVars, homeVars, StagesFit,
      MessagesFit, CopiesFit, AccessPhase
<1>29. CASE HandleRead(n)
  <2>1. PICK c \in Node : HandleRead(n)!(c)
    BY <1>29 DEF HandleRead
  <2>2. stage' = stage /\ op' = op /\ rpc[c] = "sent"
    BY <2>1 DEF Receives, opVars
  <2>4. rpc' = rpc \/ rpc' = [rpc EXCEPT ![c] = "answered"]
    BY <2>1 DEF Answer, netVars
  <2>3. \A i \in Node, b \in Addr : cache'[i][b] \in {None, cache[i][b]}
    BY <1>c, <2>1 DEF Die
  <2> QED
    BY <1>b, <1>c, <1>d, <1>t, <2>2, <2>3, <2>4 DEF CopiesFit
<1>30. CASE HandleWrite(n)
  BY <1>30, <1>a, <1>b, <1>c, <1>d, <1>t DEF HandleWrite, Receives, Written,
      Answer, Packet, opVars, serverVars, cacheVars, StagesFit, MessagesFit,
      CopiesFit, AccessPhase
<1>31. CASE StartInvalidations(n)
  BY <1>31, <1>a, <1>b, <1>c, <1>d, <1>t DEF StartInvalidations, Receives,
      Written, Packet, cacheVars, StagesFit, MessagesFit, CopiesFit,
      AccessPhase
<1>32. CASE HandleInvalidation(n)
  BY <1>32, <1>a, <1>b, <1>c, <1>d, <1>t DEF HandleInvalidation, Receives,
      Answer, Packet, opVars, serverVars, homeVars, StagesFit, MessagesFit,
      CopiesFit, AccessPhase
<1> QED
  BY <1>1, <1>2, <1>3, <1>4, <1>5, <1>6, <1>7, <1>8, <1>9, <1>10, <1>11,
      <1>12, <1>13, <1>14, <1>15, <1>16, <1>17, <1>18, <1>19, <1>20, <1>21,
      <1>22, <1>23, <1>24, <1>25, <1>26, <1>27, <1>28, <1>29, <1>30, <1>31,
      <1>32 DEF Step, StartOp, ClientStep, ServerStep

\* An answered read keeps agreeing with Home: Home serves nobody else before
\* the reader has closed.
LEMMA AnswersStep ==
    ASSUME FreshInv, NEW n \in Node, Step(n)
    PROVE  AnswersFresh'
<1>a. Typed /\ StagesFit /\ MessagesFit /\ SessionsPaired
  BY TypesHold DEF FreshInv
<1>t. /\ stage \in [Node -> Stage] /\ rpc \in [Node -> Rpc]
      /\ serve \in [Node -> {"off", "listen", "session"}]
      /\ peer \in [Node -> Node] /\ backlog \in [Node -> SUBSET Node]
      /\ op \in [Node -> Operation] /\ msg \in [Node -> Message]
  BY <1>a DEF Typed
<1>c. cache \in [Node -> [Addr -> Value \cup {None}]]
  BY <1>a DEF Typed
<1>d. \A i \in Node : op[i].addr \in Addr
  BY <1>a DEF Typed
<1>e. dir \in [Addr -> SaveData]
  BY <1>a DEF Typed
<1>r. \A i \in Node : stage[i] = "access" /\ op[i].kind = "READ" /\ rpc[i] = "answered"
         => serve[Home] = "session" /\ peer[Home] = i
  BY <1>a, NodesAssumption
  DEF MessagesFit, SessionsPaired, InSession, Target
<1>b. AnswersFresh
  BY DEF FreshInv
<1>1. CASE Serve(n)
  BY <1>1, <1>a, <1>b, <1>d, <1>t DEF Serve, opVars, netVars, cacheVars,
      homeVars, StagesFit, MessagesFit, AnswersFresh, Sharers
<1>2. CASE \E a \in Addr : StartRead(n, a)
  BY <1>2, <1>a, <1>b, <1>d, <1>t DEF StartRead, Start, Enter, LockPhase,
      serverVars, cacheVars, homeVars, StagesFit, MessagesFit, AnswersFresh,
      Sharers
<1>3. CASE \E a \in Addr, v \in Value : StartWrite(n, a, v)
  BY <1>3, <1>a, <1>b, <1>d, <1>t DEF StartWrite, Start, Enter, LockPhase,
      serverVars, cacheVars, homeVars, StagesFit, MessagesFit, AnswersFresh,
      Sharers
<1>4. CASE Connect(n)
  BY <1>4, <1>a, <1>b, <1>d, <1>t DEF Connect, opVars, cacheVars, homeVars,
      StagesFit, MessagesFit, AnswersFresh, Sharers
<1>5. CASE GiveUp(n)
  BY <1>5, <1>a, <1>b, <1>d, <1>t DEF GiveUp, Die, opVars, netVars,
      serverVars, homeVars, StagesFit, MessagesFit, AnswersFresh, Sharers
<1>6. CASE LockLocally(n)
  BY <1>6, <1>a, <1>b, <1>d, <1>t DEF LockLocally, SetLock, Enter, Wanted,
      AccessPhase, serverVars, cacheVars, homeVars, StagesFit, MessagesFit,
      AnswersFresh, Sharers
<1>7. CASE UnlockLocally(n)
  BY <1>7, <1>a, <1>b, <1>d, <1>t DEF UnlockLocally, SetLock, Enter,
      serverVars, cacheVars, homeVars, StagesFit, MessagesFit, AnswersFresh,
      Sharers
<1>8. CASE CallLock(n)
  BY <1>8, <1>a, <1>b, <1>d, <1>t DEF CallLock, Call, Packet, Wanted, opVars,
      serverVars, cacheVars, homeVars, StagesFit, MessagesFit, AnswersFresh,
      Sharers
<1>9. CASE LockAnswered(n)
  BY <1>9, <1>a, <1>b, <1>d, <1>t DEF LockAnswered, Answered, Close, Packet,
      serverVars, cacheVars, homeVars, StagesFit, MessagesFit, AnswersFresh,
      Sharers
<1>10. CASE EnterAccess(n)
  BY <1>10, <1>a, <1>b, <1>d, <1>t DEF EnterAccess, Enter, AccessPhase,
      serverVars, cacheVars, homeVars, StagesFit, MessagesFit, AnswersFresh,
      Sharers
<1>11. CASE EnterUnlock(n)
  BY <1>11, <1>a, <1>b, <1>d, <1>t DEF EnterUnlock, Enter, LockPhase,
      serverVars, cacheVars, homeVars, StagesFit, MessagesFit, AnswersFresh,
      Sharers
<1>12. CASE Return(n)
  BY <1>12, <1>a, <1>b, <1>d, <1>t DEF Return, Enter, Die, serverVars,
      homeVars, StagesFit, MessagesFit, AnswersFresh, Sharers
<1>13. CASE CachedRead(n)
  BY <1>13, <1>a, <1>b, <1>d, <1>t DEF CachedRead, ReadValue, Enter,
      LockPhase, serverVars, cacheVars, homeVars, StagesFit, MessagesFit,
      AnswersFresh, Sharers
<1>14. CASE LocalRead(n)
  BY <1>14, <1>a, <1>b, <1>d, <1>t DEF LocalRead, ReadValue, Enter, LockPhase,
      serverVars, cacheVars, homeVars, StagesFit, MessagesFit, AnswersFresh,
      Sharers
<1>15. CASE CallRead(n)
  BY <1>15, <1>a, <1>b, <1>d, <1>t DEF CallRead, Call, Packet, opVars,
      serverVars, cacheVars, homeVars, StagesFit, MessagesFit, AnswersFresh,
      Sharers
<1>16. CASE ReadReturned(n)
  BY <1>16, <1>a, <1>b, <1>d, <1>t DEF ReadReturned, Answered, ReadValue,
      AddCacheItem, Close, Packet, netVars, serverVars, cacheVars, homeVars,
      StagesFit, MessagesFit, AnswersFresh, Sharers
<1>17. CASE CallWrite(n)
  <2>1. /\ stage' = stage /\ op' = op /\ dir' = dir
        /\ \A i \in Node \ {n} : rpc'[i] = rpc[i] /\ msg'[i] = msg[i]
    BY <1>t, <1>17 DEF CallWrite, Call, netVars, opVars, homeVars
  <2>2. op[n].kind = "WRITE"
    BY <1>17 DEF CallWrite
  <2> QED
    BY <1>b, <1>t, <2>1, <2>2 DEF AnswersFresh, Sharers
<1>18. CASE WriteReturned(n)
  BY <1>18, <1>a, <1>b, <1>d, <1>t DEF WriteReturned, Answered, Close, Packet,
      opVars, serverVars, cacheVars, homeVars, StagesFit, MessagesFit,
      AnswersFresh, Sharers
<1>19. CASE WriteRecalled(n)
  BY <1>19, <1>a, <1>b, <1>d, <1>t DEF WriteRecalled, Answered, Enter,
      cacheVars, homeVars, StagesFit, MessagesFit, AnswersFresh, Sharers
<1>20. CASE CloseReconnected(n)
  BY <1>20, <1>a, <1>b, <1>d, <1>t DEF CloseReconnected, Close, Packet,
      opVars, serverVars, cacheVars, homeVars, StagesFit, MessagesFit,
      AnswersFresh, Sharers
<1>21. CASE LocalWrite(n)
  <2>1. serve[Home] = "off" /\ op' = op
    BY <1>a, <1>t, NodesAssumption, <1>21 DEF LocalWrite, StagesFit
  <2>2. \A i \in Node : rpc'[i] = "answered" => rpc[i] = "answered" /\ stage'[i] = stage[i]
    BY <1>t, <1>21 DEF LocalWrite, Enter, LockPhase
  <2> QED
    BY <1>r, <2>1, <2>2 DEF AnswersFresh
<1>22. CASE CallInvalidate(n)
  BY <1>22, <1>a, <1>b, <1>d, <1>t DEF CallInvalidate, Call, Packet, opVars,
      serverVars, cacheVars, homeVars, StagesFit, MessagesFit, AnswersFresh,
      Sharers
<1>23. CASE InvalidationAnswered(n)
  BY <1>23, <1>a, <1>b, <1>d, <1>t DEF InvalidationAnswered, Answered, Close,
      Packet, opVars, serverVars, cacheVars, homeVars, StagesFit, MessagesFit,
      AnswersFresh, Sharers
<1>24. CASE NextTarget(n)
  BY <1>24, <1>a, <1>b, <1>d, <1>t DEF NextTarget, opVars, serverVars,
      cacheVars, StagesFit, MessagesFit, AnswersFresh, Sharers
<1>25. CASE EndBroadcast(n)
  <2>1. serve[Home] = "off" /\ op' = op
    BY <1>a, <1>t, NodesAssumption, <1>25 DEF EndBroadcast, StagesFit
  <2>2. \A i \in Node : rpc'[i] = "answered" => rpc[i] = "answered" /\ stage'[i] = stage[i]
    BY <1>t, <1>25 DEF EndBroadcast, Enter, LockPhase
  <2> QED
    BY <1>r, <2>1, <2>2 DEF AnswersFresh
<1>26. CASE Accept(n)
  BY <1>26, <1>a, <1>b, <1>d, <1>t DEF Accept, Die, opVars, homeVars,
      StagesFit, MessagesFit, AnswersFresh, Sharers
<1>27. CASE HandleReset(n)
  BY <1>27, <1>a, <1>b, <1>d, <1>t DEF HandleReset, cacheVars, homeVars,
      StagesFit, MessagesFit, AnswersFresh, Sharers
<1>28. CASE HandleLocks(n)
  BY <1>28, <1>a, <1>b, <1>d, <1>t DEF HandleLocks, Receives, SetLock, Answer,
      Packet, opVars, serverVars, cacheVars, homeVars, StagesFit, MessagesFit,
      AnswersFresh, Sharers
<1>29. CASE HandleRead(n)
  <2>1. PICK c \in Node : HandleRead(n)!(c)
    BY <1>29 DEF HandleRead
  <2>2. /\ n = Home /\ peer[Home] = c /\ rpc[c] = "sent"
        /\ msg[c].addr = op[c].addr /\ op[c].addr \in Addr
    BY <1>a, <2>1, ServedClient DEF Receives
  <2>3. \A i \in Node : ~ (stage[i] = "access" /\ op[i].kind = "READ"
                          /\ rpc[i] = "answered")
    BY <1>r, <2>2
  <2>4. stage' = stage /\ op' = op
    BY <2>1 DEF opVars
  <2>5. CASE dir[msg[c].addr].iscached = "WILD"
    BY <2>1, <2>3, <2>4, <2>5 DEF netVars, AnswersFresh
  <2>6. CASE dir[msg[c].addr].iscached # "WILD"
    <3> DEFINE a == msg[c].addr
    <3>1. /\ dir' = [dir EXCEPT ![a] = SharedBy(dir[a], c)]
          /\ rpc' = [rpc EXCEPT ![c] = "answered"]
          /\ msg' = [msg EXCEPT ![c] = Packet("DEFAULT", None, dir[a].data)]
      BY <2>1, <2>6 DEF Answer
    <3>2. dir'[a].data = dir[a].data /\ dir'[a].sharers = Append(dir[a].sharers, c)
      BY <1>e, <2>2, <3>1 DEF SharedBy
    <3>3. c \in Range(dir'[a].sharers)
      BY <1>a, <2>2, <3>2, RangeOfAppend DEF Typed
    <3>4. msg'[c].val = dir[a].data
      BY <1>t, <3>1 DEF Packet
    <3>5. \A i \in Node \ {c} : rpc'[i] = rpc[i]
      BY <1>t, <3>1
    <3> QED
      BY <2>2, <2>3, <2>4, <3>2, <3>3, <3>4, <3>5 DEF AnswersFresh, Sharers
  <2> QED
    BY <2>5, <2>6
<1>30. CASE HandleWrite(n)
  <2>1. PICK c \in Node : HandleWrite(n)!(c)
    BY <1>30 DEF HandleWrite
  <2>2. n = Home /\ peer[Home] = c /\ rpc[c] = "sent" /\ op[c].kind = "WRITE"
    BY <1>a, <2>1, ServedClient DEF Receives
  <2>3. stage' = stage /\ op' = op /\ \A i \in Node \ {c} : rpc'[i] = rpc[i]
    BY <1>t, <2>1 DEF opVars, Answer
  <2> QED
    BY <1>r, <2>2, <2>3 DEF AnswersFresh
<1>31. CASE StartInvalidations(n)
  <2>1. PICK c \in Node : StartInvalidations(n)!(c)
    BY <1>31 DEF StartInvalidations
  <2>2. n = Home /\ peer[Home] = c /\ rpc[c] = "sent" /\ op[c].kind = "WRITE"
    BY <1>a, <2>1, ServedClient DEF Receives
  <2>3. /\ op' = op
        /\ \A i \in Node : rpc'[i] = "answered" /\ stage'[i] = "access" =>
              \/ i = c
              \/ rpc[i] = "answered" /\ stage[i] = "access"
    BY <1>t, <2>1
  <2> QED
    BY <1>r, <2>2, <2>3 DEF AnswersFresh
<1>32. CASE HandleInvalidation(n)
  BY <1>32, <1>a, <1>b, <1>d, <1>t DEF HandleInvalidation, Receives, Answer,
      Packet, opVars, serverVars, homeVars, StagesFit, MessagesFit,
      AnswersFresh, Sharers
<1> QED
  BY <1>1, <1>2, <1>3, <1>4, <1>5, <1>6, <1>7, <1>8, <1>9, <1>10, <1>11,
      <1>12, <1>13, <1>14, <1>15, <1>16, <1>17, <1>18, <1>19, <1>20, <1>21,
      <1>22, <1>23, <1>24, <1>25, <1>26, <1>27, <1>28, <1>29, <1>30, <1>31,
      <1>32 DEF Step, StartOp, ClientStep, ServerStep

\* The directory's value stays the value of every copy it knows of.
LEMMA DirectoryStep ==
    ASSUME FreshInv, NEW n \in Node, Step(n)
    PROVE  DirectoryFresh'
<1>a. Typed /\ StagesFit /\ MessagesFit /\ SessionsPaired
  BY TypesHold DEF FreshInv
<1>t. /\ stage \in [Node -> Stage] /\ rpc \in [Node -> Rpc]
      /\ serve \in [Node -> {"off", "listen", "session"}]
      /\ peer \in [Node -> Node] /\ backlog \in [Node -> SUBSET Node]
      /\ op \in [Node -> Operation] /\ msg \in [Node -> Message]
  BY <1>a DEF Typed
<1>c. cache \in [Node -> [Addr -> Value \cup {None}]]
  BY <1>a DEF Typed
<1>d. \A i \in Node : op[i].addr \in Addr
  BY <1>a DEF Typed
<1>e. dir \in [Addr -> SaveData]
  BY <1>a DEF Typed
<1>b. DirectoryFresh /\ CopiesFit /\ AnswersFresh
  BY DEF FreshInv
<1>1. CASE ReadReturned(n)
  <2>1. /\ op[n].addr \in Addr /\ msg[n].val = dir[op[n].addr].data
        /\ stage[n] = "access" /\ rpc[n] = "answered" /\ op[n].kind = "READ"
    BY <1>b, <1>d, <1>1 DEF ReadReturned, Answered, AnswersFresh
  <2>2. \A i \in Node, b \in Addr :
            \/ cache'[i][b] \in {None, cache[i][b]}
            \/ i = n /\ b = op[n].addr /\ cache'[i][b] = msg[n].val
    BY <1>c, <1>1 DEF ReadReturned, AddCacheItem, cacheVars
  <2>3. /\ dir' = dir /\ stage' = stage
        /\ \A i \in Node \ {n} : rpc'[i] = rpc[i] /\ op'[i] = op[i]
    BY <1>t, <1>1 DEF ReadReturned, ReadValue, Close, homeVars, netVars
  <2>4. \A i \in Node, b \in Addr : WriteInFlight(i, b) => WriteInFlight(i, b)'
    BY <2>1, <2>3 DEF WriteInFlight
  <2> QED
    BY <1>b, <2>1, <2>2, <2>3, <2>4 DEF DirectoryFresh, Sharers
<1>2. CASE CallWrite(n)
  <2>1. /\ op[n].addr \in Addr /\ rpc[n] = "open" /\ stage[n] = "access"
        /\ op[n].kind = "WRITE"
    BY <1>d, <1>2 DEF CallWrite
  <2>2. \A i \in Node, b \in Addr :
            \/ cache'[i][b] \in {None, cache[i][b]}
            \/ i = n /\ b = op[n].addr /\ status'[n] = "up"
    BY <1>c, <1>2 DEF CallWrite, AlterCacheItem, AddCacheItem, cacheVars
  <2>3. /\ dir' = dir /\ stage' = stage /\ op' = op
        /\ \A i \in Node \ {n} : rpc'[i] = rpc[i]
        /\ status'[n] = "up" => rpc'[n] = "sent"
    BY <1>t, <1>2 DEF CallWrite, Call, opVars, homeVars, netVars
  <2>4. \A i \in Node, b \in Addr : WriteInFlight(i, b) => WriteInFlight(i, b)'
    BY <2>1, <2>3 DEF WriteInFlight
  <2>5. status'[n] = "up" => WriteInFlight(n, op[n].addr)'
    BY <2>1, <2>3 DEF WriteInFlight
  <2> QED
    BY <1>b, <2>2, <2>3, <2>4, <2>5 DEF DirectoryFresh, Sharers
<1>3. CASE HandleRead(n)
  <2>1. PICK c \in Node : HandleRead(n)!(c)
    BY <1>3 DEF HandleRead
  <2>2. /\ msg[c].addr = op[c].addr /\ op[c].addr \in Addr
        /\ stage[c] = "access" /\ op[c].kind = "READ" /\ rpc[c] = "sent"
    BY <1>a, <2>1, ServedClient DEF Receives
  <2>3. stage' = stage /\ op' = op
    BY <2>1 DEF opVars
  <2> DEFINE a == msg[c].addr
  <2>4. CASE dir[a].iscached = "WILD"
    <3>1. \A i \in Node, b \in Addr : cache'[i][b] \in {None, cache[i][b]}
      BY <1>c, <2>1, <2>4 DEF Die
    <3>2. rpc' = rpc /\ dir' = dir
      BY <2>1, <2>4 DEF netVars
    <3> QED
      BY <1>b, <2>3, <3>1, <3>2 DEF DirectoryFresh, Sharers, WriteInFlight
  <2>5. CASE dir[a].iscached # "WILD"
    <3>1. /\ dir' = [dir EXCEPT ![a] = SharedBy(dir[a], c)]
          /\ rpc' = [rpc EXCEPT ![c] = "answered"] /\ cache' = cache
      BY <2>1, <2>5 DEF Answer
    <3>2. /\ dir'[a].data = dir[a].data /\ dir'[a].iscached = "SHARED"
          /\ dir'[a].sharers = Append(dir[a].sharers, c)
      BY <1>e, <2>2, <3>1 DEF SharedBy
    <3>3. dir[a].sharers \in Seq(Node)
      BY <1>a, <2>2 DEF Typed
    <3>7. Range(dir'[a].sharers) = Range(dir[a].sharers) \cup {c}
      BY <3>2, <3>3, RangeOfAppend
    <3>4. cache[c][a] = None
      BY <1>b, <2>2 DEF CopiesFit
    <3>5. \A i \in Node, b \in Addr : WriteInFlight(i, b) => WriteInFlight(i, b)'
      BY <1>t, <2>2, <2>3, <3>1 DEF WriteInFlight
    <3>6. \A b \in Addr \ {a} : dir'[b] = dir[b]
      BY <1>e, <3>1
    <3> SUFFICES ASSUME NEW b \in Addr, NEW i \in Node,
                        \/ i \in Range(dir'[b].sharers)
                        \/ dir'[b].iscached = "EXCLUS" /\ dir'[b].owner = i
                 PROVE  \/ cache[i][b] \in {None, dir'[b].data}
                        \/ WriteInFlight(i, b)'
      BY <3>1 DEF DirectoryFresh, Sharers
    <3>8. CASE b = a
      BY <1>b, <3>2, <3>4, <3>5, <3>7, <3>8 DEF DirectoryFresh, Sharers
    <3>9. CASE b # a
      BY <1>b, <3>5, <3>6, <3>9 DEF DirectoryFresh, Sharers
    <3> QED
      BY <3>8, <3>9
  <2> QED
    BY <2>4, <2>5
<1>4. CASE HandleWrite(n)
  <2>1. PICK c \in Node : HandleWrite(n)!(c)
    BY <1>4 DEF HandleWrite
  <2>2. /\ msg[c].addr = op[c].addr /\ msg[c].val = op[c].val
        /\ op[c].addr \in Addr /\ stage[c] = "access" /\ rpc[c] = "sent"
        /\ op[c].kind = "WRITE"
    BY <1>a, <2>1, ServedClient DEF Receives
  <2>3. /\ stage' = stage /\ op' = op /\ cache' = cache
        /\ \A i \in Node \ {c} : rpc'[i] = rpc[i]
    BY <1>t, <2>1 DEF opVars, cacheVars, Answer
  <2>4. /\ dir'[op[c].addr] = Written(c, op[c].val)
        /\ \A b \in Addr \ {op[c].addr} : dir'[b] = dir[b]
    BY <1>e, <2>1, <2>2
  <2>5. cache[c][op[c].addr] \in {None, op[c].val}
    BY <1>b, <2>2 DEF CopiesFit
  <2>6. \A i \in Node, b \in Addr \ {op[c].addr} :
            WriteInFlight(i, b) => WriteInFlight(i, b)'
    BY <2>3 DEF WriteInFlight
  <2> QED
    BY <1>b, <2>3, <2>4, <2>5, <2>6, RangeOfEmpty
    DEF DirectoryFresh, Sharers, Written
<1>5. CASE StartInvalidations(n)
  <2>1. PICK c \in Node : StartInvalidations(n)!(c)
    BY <1>5 DEF StartInvalidations
  <2>2. /\ msg[c].addr = op[c].addr /\ msg[c].val = op[c].val
        /\ op[c].addr \in Addr /\ stage[c] = "access" /\ rpc[c] = "sent"
        /\ op[c].kind = "WRITE" /\ stage[n] # "access"
    BY <1>a, <2>1, ServedClient DEF Receives
  <2>3. /\ op' = op /\ cache' = cache
        /\ \A i \in Node \ {n} : stage'[i] = stage[i]
        /\ \A i \in Node \ {n, c} : rpc'[i] = rpc[i]
    BY <1>t, <2>1 DEF cacheVars
  <2>4. /\ dir'[op[c].addr] = Written(c, op[c].val)
        /\ \A b \in Addr \ {op[c].addr} : dir'[b] = dir[b]
    BY <1>e, <2>1, <2>2
  <2>5. cache[c][op[c].addr] \in {None, op[c].val}
    BY <1>b, <2>2 DEF CopiesFit
  <2>6. \A i \in Node, b \in Addr \ {op[c].addr} :
            WriteInFlight(i, b) => WriteInFlight(i, b)'
    BY <2>2, <2>3 DEF WriteInFlight
  <2> QED
    BY <1>b, <2>3, <2>4, <2>5, <2>6, RangeOfEmpty
    DEF DirectoryFresh, Sharers, Written
<1>6. CASE LocalWrite(n)
  <2>1. \A i \in Node, b \in Addr : WriteInFlight(i, b) => WriteInFlight(i, b)'
    BY <1>t, <1>6 DEF LocalWrite, Enter, LockPhase, WriteInFlight
  <2>2. cache' = cache
    BY <1>6 DEF LocalWrite, cacheVars
  <2>3. \A b \in Addr : \/ dir'[b] = dir[b]
                        \/ dir'[b] = WrittenAtHome(op[n].val)
    BY <1>e, <1>6 DEF LocalWrite
  <2> QED
    BY <1>b, <2>1, <2>2, <2>3, RangeOfEmpty
    DEF DirectoryFresh, Sharers, WrittenAtHome
<1>7. CASE EndBroadcast(n)
  <2>1. \A i \in Node, b \in Addr : WriteInFlight(i, b) => WriteInFlight(i, b)'
    BY <1>t, <1>7 DEF EndBroadcast, Enter, LockPhase, WriteInFlight
  <2>2. cache' = cache
    BY <1>7 DEF EndBroadcast, cacheVars
  <2>3. \A b \in Addr : \/ dir'[b] = dir[b]
                        \/ dir'[b] = WrittenAtHome(op[n].val)
    BY <1>e, <1>7 DEF EndBroadcast
  <2> QED
    BY <1>b, <2>1, <2>2, <2>3, RangeOfEmpty
    DEF DirectoryFresh, Sharers, WrittenAtHome
<1>8. CASE /\ dir' = dir
           /\ \A i \in Node, b \in Addr : cache'[i][b] \in {None, cache[i][b]}
           /\ \A i \in Node, b \in Addr : WriteInFlight(i, b) => WriteInFlight(i, b)'
  BY <1>b, <1>8 DEF DirectoryFresh, Sharers
<1> QED
  BY <1>1, <1>2, <1>3, <1>4, <1>5, <1>6, <1>7, <1>8, DirFootprint,
      CachesShrink, FlightsLast

-----------------------------------------------------------------------------
(* The invariant, and what it says of every behaviour.                     *)

\* The invariant holds when the processes start.
LEMMA FreshInvInit == ASSUME Init PROVE FreshInv
<1>1. TypeOK
  <2>1. ControlTypeOK
    BY DEF Init, ControlTypeOK, Status, Stage, Operation
  <2>2. NetworkTypeOK
    BY NodesAssumption, PacketType
    DEF Init, NetworkTypeOK, Rpc, Imm
  <2>3. CacheTypeOK
    BY BoundsAssumption DEF Init, CacheTypeOK
  <2>4. HomeTypeOK
    <3>1. \A v \in Value, s \in FreshStates :
              [data |-> v, iscached |-> s, owner |-> None, sharers |-> << >>]
                  \in SaveData
      BY DataAssumption DEF SaveData
    <3>2. dir \in [Addr -> SaveData]
      BY <3>1 DEF Init
    <3> QED
      BY <3>2 DEF Init, HomeTypeOK
  <2> QED
    BY <2>1, <2>2, <2>3, <2>4 DEF TypeOK
<1>2. StagesFit
  BY NodesAssumption DEF Init, StagesFit
<1>3. MessagesFit /\ SessionsPaired /\ CopiesFit /\ AnswersFresh
  BY DEF Init, MessagesFit, SessionsPaired, InSession, CopiesFit, AnswersFresh
<1>4. DirectoryFresh
  BY DEF Init, DirectoryFresh
<1> QED
  BY <1>1, <1>2, <1>3, <1>4 DEF FreshInv

\* No step of any process breaks the invariant.
LEMMA FreshInvStep == ASSUME FreshInv, [Next]_vars PROVE FreshInv'
<1>1. ASSUME NEW n \in Node, Step(n) PROVE FreshInv'
  BY <1>1, ControlTypeStep, NetworkTypeStep, CacheTypeStep, HomeTypeStep,
     StagesStep, MessagesStep, SessionsStep, CopiesStep, AnswersStep,
     DirectoryStep DEF FreshInv, TypeOK
<1>2. CASE UNCHANGED vars
  BY <1>2 DEF vars, FreshInv, TypeOK, ControlTypeOK, NetworkTypeOK,
     CacheTypeOK, HomeTypeOK, StagesFit, MessagesFit, SessionsPaired,
     InSession, Target, CopiesFit, AnswersFresh, DirectoryFresh, Sharers,
     WriteInFlight
<1> QED
  BY <1>1, <1>2 DEF Next

\* In every reachable state the types hold, sessions are paired, and the copies
\* the directory knows of agree with it.
THEOREM FreshInvariant == Spec => []FreshInv
  BY FreshInvInit, FreshInvStep, PTL DEF Spec

\* Every variable keeps its type.
THEOREM TypesCorrect == Spec => []TypeOK
<1>1. FreshInv => TypeOK
  BY DEF FreshInv
<1> QED
  BY FreshInvariant, <1>1, PTL

\* In any deployment, with any failures, a server is in a session with exactly
\* the client that waits for it, and kernels queue exactly the connections
\* that wait: connectClientSocket, connectAndReceive, closeClientSocket and
\* the session that startInvalidations cuts short never disagree.
THEOREM SessionsStayPaired == Spec => []SessionsPaired
<1>1. FreshInv => SessionsPaired
  BY DEF FreshInv
<1> QED
  BY FreshInvariant, <1>1, PTL

\* In any deployment the copies that the directory knows of, those of sharers
\* and of the exclusive owner, agree with the word at home.
THEOREM DirectoryStaysFresh == Spec => []DirectoryFresh
<1>1. FreshInv => DirectoryFresh
  BY DEF FreshInv
<1> QED
  BY FreshInvariant, <1>1, PTL

-----------------------------------------------------------------------------
(* What single steps do to caches and to the broadcast.                    *)

\* The only value a step can add to a cache is the answer of a read, or the
\* value of a write that is in flight from then on.
LEMMA CachesGrow ==
    ASSUME CoherenceInv, NEW n \in Node, Step(n), NEW i \in Node, NEW b \in Addr
    PROVE  \/ cache'[i][b] \in {None, cache[i][b]}
           \/ /\ ReadReturned(n) /\ i = n /\ b = op[n].addr
              /\ cache'[i][b] = msg[n].val
           \/ CallWrite(n) /\ i = n /\ b = op[n].addr /\ WriteInFlight(n, b)'
<1>a. Typed /\ StagesFit /\ MessagesFit /\ SessionsPaired
  BY TypesHold DEF CoherenceInv, FreshInv
<1>t. /\ stage \in [Node -> Stage] /\ rpc \in [Node -> Rpc]
      /\ serve \in [Node -> {"off", "listen", "session"}]
      /\ peer \in [Node -> Node] /\ backlog \in [Node -> SUBSET Node]
      /\ op \in [Node -> Operation] /\ msg \in [Node -> Message]
  BY <1>a DEF Typed
<1>c. cache \in [Node -> [Addr -> Value \cup {None}]]
  BY <1>a DEF Typed
<1>1. CASE ReadReturned(n)
  BY <1>1, <1>a, <1>t, <1>c DEF ReadReturned, AddCacheItem, cacheVars, Typed
<1>2. CASE CallWrite(n)
  <2>1. op[n].addr \in Addr /\ UNCHANGED opVars
    BY <1>2, <1>a DEF CallWrite, Typed
  <2>2. CASE status'[n] = "up"
    <3>1. b = op[n].addr => WriteInFlight(n, b)'
      BY <1>2, <2>1, <2>2, <1>t DEF CallWrite, Call, WriteInFlight, opVars
    <3>2. \/ cache'[i][b] \in {None, cache[i][b]}
          \/ i = n /\ b = op[n].addr
      BY <1>2, <2>1, <1>c DEF CallWrite, AlterCacheItem, AddCacheItem, cacheVars
    <3> QED
      BY <3>1, <3>2, <1>2
  <2>3. CASE status'[n] # "up"
    BY <1>2, <2>1, <2>3, <1>c DEF CallWrite, AlterCacheItem, AddCacheItem,
        cacheVars
  <2> QED
    BY <2>2, <2>3
<1> QED
  BY <1>1, <1>2, CachesShrink DEF CoherenceInv

\* Reads and writes are answered only while Home broadcasts nothing.
LEMMA QuietHome ==
    ASSUME CoherenceInv, NEW i \in Node, stage[i] \in {"access", "reconnect"},
           InSession(i)
    PROVE  stage[Home] \in {"idle", "recall"} /\ targets = << >>
<1>a. Typed /\ StagesFit /\ MessagesFit /\ SessionsPaired
  BY TypesHold DEF CoherenceInv, FreshInv
<1>1. Target(i) = Home
  BY DEF Target
<1>2. serve[Home] = "session"
  BY <1>1, <1>a, NodesAssumption DEF SessionsPaired
<1> QED
  BY <1>2, <1>a, NodesAssumption DEF StagesFit

\* No cache gains anything while Home broadcasts.
LEMMA CachesOnlyShrinkInBroadcast ==
    ASSUME CoherenceInv, NEW n \in Node, Step(n),
           stage[Home] \in {"bcast", "wbcast"},
           NEW i \in Node, NEW b \in Addr
    PROVE  cache'[i][b] \in {None, cache[i][b]}
<1>a. Typed /\ StagesFit /\ MessagesFit /\ SessionsPaired
  BY TypesHold DEF CoherenceInv, FreshInv
<1>1. ~ ReadReturned(n)
  <2> SUFFICES ASSUME ReadReturned(n) PROVE FALSE
    OBVIOUS
  <2>1. stage[n] = "access" /\ InSession(n)
    BY <1>a DEF ReadReturned, Answered, InSession, MessagesFit
  <2> QED
    BY <2>1, QuietHome
<1>2. ~ CallWrite(n)
  BY QuietHome DEF CallWrite, InSession
<1> QED
  BY <1>1, <1>2, CachesGrow

\* A broadcast begins with startInvalidations or with a write at home. While
\* it goes on, Home takes an answer only from handleInvalidation.
LEMMA BroadcastControl ==
    ASSUME CoherenceInv, NEW n \in Node, Step(n)
    PROVE  stage'[Home] \in {"bcast", "wbcast"} =>
               \/ StartInvalidations(n) \/ LocalWrite(n)
               \/ /\ stage[Home] = stage'[Home]
                  /\ \/ rpc'[Home] \in {"answered", "closing", "closed"} =>
                            rpc[Home] \in {"answered", "closing", "closed"}
                     \/ \E c \in Node : HandleInvalidation(n)!(c) /\ c = Home
<1>a. Typed /\ StagesFit /\ MessagesFit /\ SessionsPaired
  BY TypesHold DEF CoherenceInv, FreshInv
<1>t. /\ stage \in [Node -> Stage] /\ rpc \in [Node -> Rpc]
      /\ serve \in [Node -> {"off", "listen", "session"}]
      /\ peer \in [Node -> Node] /\ backlog \in [Node -> SUBSET Node]
      /\ op \in [Node -> Operation] /\ msg \in [Node -> Message]
  BY <1>a DEF Typed
<1>1. CASE Serve(n)
  BY <1>1, <1>a, <1>t, NodesAssumption DEF Serve, opVars, netVars, cacheVars,
      homeVars, StagesFit
<1>2. CASE \E a \in Addr : StartRead(n, a)
  BY <1>2, <1>a, <1>t, NodesAssumption DEF StartRead, Start, Enter, LockPhase,
      serverVars, cacheVars, homeVars, StagesFit
<1>3. CASE \E a \in Addr, v \in Value : StartWrite(n, a, v)
  BY <1>3, <1>a, <1>t, NodesAssumption DEF StartWrite, Start, Enter,
      LockPhase, serverVars, cacheVars, homeVars, StagesFit
<1>4. CASE Connect(n)
  BY <1>4, <1>a, <1>t, NodesAssumption DEF Connect, opVars, cacheVars,
      homeVars, StagesFit
<1>5. CASE GiveUp(n)
  BY <1>5, <1>a, <1>t, NodesAssumption DEF GiveUp, Die, opVars, netVars,
      serverVars, homeVars, StagesFit
<1>6. CASE LockLocally(n)
  BY <1>6, <1>a, <1>t, NodesAssumption DEF LockLocally, SetLock, Enter,
      Wanted, AccessPhase, serverVars, cacheVars, homeVars, StagesFit
<1>7. CASE UnlockLocally(n)
  BY <1>7, <1>a, <1>t, NodesAssumption DEF UnlockLocally, SetLock, Enter,
      serverVars, cacheVars, homeVars, StagesFit
<1>8. CASE CallLock(n)
  BY <1>8, <1>a, <1>t, NodesAssumption DEF CallLock, Call, Packet, Wanted,
      opVars, serverVars, cacheVars, homeVars, StagesFit
<1>9. CASE LockAnswered(n)
  BY <1>9, <1>a, <1>t, NodesAssumption DEF LockAnswered, Answered, Close,
      Packet, serverVars, cacheVars, homeVars, StagesFit
<1>10. CASE EnterAccess(n)
  BY <1>10, <1>a, <1>t, NodesAssumption DEF EnterAccess, Enter, AccessPhase,
      serverVars, cacheVars, homeVars, StagesFit
<1>11. CASE EnterUnlock(n)
  BY <1>11, <1>a, <1>t, NodesAssumption DEF EnterUnlock, Enter, LockPhase,
      serverVars, cacheVars, homeVars, StagesFit
<1>12. CASE Return(n)
  BY <1>12, <1>a, <1>t, NodesAssumption DEF Return, Enter, Die, serverVars,
      homeVars, StagesFit
<1>13. CASE CachedRead(n)
  BY <1>13, <1>a, <1>t, NodesAssumption DEF CachedRead, ReadValue, Enter,
      LockPhase, serverVars, cacheVars, homeVars, StagesFit
<1>14. CASE LocalRead(n)
  BY <1>14, <1>a, <1>t, NodesAssumption DEF LocalRead, ReadValue, Enter,
      LockPhase, serverVars, cacheVars, homeVars, StagesFit
<1>15. CASE CallRead(n)
  BY <1>15, <1>a, <1>t, NodesAssumption DEF CallRead, Call, Packet, opVars,
      serverVars, cacheVars, homeVars, StagesFit
<1>16. CASE ReadReturned(n)
  BY <1>16, <1>a, <1>t, NodesAssumption DEF ReadReturned, Answered, ReadValue,
      AddCacheItem, Close, Packet, netVars, serverVars, cacheVars, homeVars,
      StagesFit
<1>17. CASE CallWrite(n)
  BY <1>17, <1>a, <1>t, NodesAssumption DEF CallWrite, AlterCacheItem,
      AddCacheItem, Call, Packet, opVars, netVars, serverVars, homeVars,
      StagesFit
<1>18. CASE WriteReturned(n)
  BY <1>18, <1>a, <1>t, NodesAssumption DEF WriteReturned, Answered, Close,
      Packet, opVars, serverVars, cacheVars, homeVars, StagesFit
<1>19. CASE WriteRecalled(n)
  BY <1>19, <1>a, <1>t, NodesAssumption DEF WriteRecalled, Answered, Enter,
      cacheVars, homeVars, StagesFit
<1>20. CASE CloseReconnected(n)
  BY <1>20, <1>a, <1>t, NodesAssumption DEF CloseReconnected, Close, Packet,
      opVars, serverVars, cacheVars, homeVars, StagesFit
<1>21. CASE LocalWrite(n)
  BY <1>21
<1>22. CASE CallInvalidate(n)
  BY <1>22, <1>a, <1>t, NodesAssumption DEF CallInvalidate, Call, Packet,
      opVars, serverVars, cacheVars, homeVars, StagesFit
<1>23. CASE InvalidationAnswered(n)
  BY <1>23, <1>a, <1>t, NodesAssumption DEF InvalidationAnswered, Answered,
      Close, Packet, opVars, serverVars, cacheVars, homeVars, StagesFit
<1>24. CASE NextTarget(n)
  BY <1>24, <1>a, <1>t, NodesAssumption DEF NextTarget, opVars, serverVars,
      cacheVars, StagesFit
<1>25. CASE EndBroadcast(n)
  BY <1>25, <1>a, <1>t, NodesAssumption DEF EndBroadcast, Enter, LockPhase,
      WrittenAtHome, serverVars, cacheVars, StagesFit
<1>26. CASE Accept(n)
  BY <1>26, <1>a, <1>t, NodesAssumption DEF Accept, Die, opVars, homeVars,
      StagesFit
<1>27. CASE HandleReset(n)
  BY <1>27, <1>a, <1>t, NodesAssumption DEF HandleReset, cacheVars, homeVars,
      StagesFit
<1>28. CASE HandleLocks(n)
  <2>1. PICK c \in Node : HandleLocks(n)!(c)
    BY <1>28 DEF HandleLocks
  <2>2. c = Home => stage[Home] \notin {"bcast", "wbcast"}
    BY <1>a, <2>1, ServedClient
  <2> QED
    BY <2>1, <2>2, <1>t, NodesAssumption DEF Answer, opVars
<1>29. CASE HandleRead(n)
  <2>1. PICK c \in Node : HandleRead(n)!(c)
    BY <1>29 DEF HandleRead
  <2>2. c = Home => stage[Home] \notin {"bcast", "wbcast"}
    BY <1>a, <2>1, ServedClient
  <2> QED
    BY <2>1, <2>2, <1>t, NodesAssumption DEF Answer, opVars, netVars
<1>30. CASE HandleWrite(n)
  <2>1. PICK c \in Node : HandleWrite(n)!(c)
    BY <1>30 DEF HandleWrite
  <2>2. c = Home => stage[Home] \notin {"bcast", "wbcast"}
    BY <1>a, <2>1, ServedClient
  <2> QED
    BY <2>1, <2>2, <1>t, NodesAssumption DEF Answer, opVars
<1>31. CASE StartInvalidations(n)
  BY <1>31
<1>32. CASE HandleInvalidation(n)
  <2>1. PICK c \in Node : HandleInvalidation(n)!(c)
    BY <1>32 DEF HandleInvalidation
  <2> QED
    BY <2>1, <1>t, NodesAssumption DEF Answer, opVars
<1> QED
  BY <1>1, <1>2, <1>3, <1>4, <1>5, <1>6, <1>7, <1>8, <1>9, <1>10, <1>11,
      <1>12, <1>13, <1>14, <1>15, <1>16, <1>17, <1>18, <1>19, <1>20, <1>21,
      <1>22, <1>23, <1>24, <1>25, <1>26, <1>27, <1>28, <1>29, <1>30, <1>31,
      <1>32 DEF Step, StartOp, ClientStep, ServerStep

\* Home never connects for a read or a write of its own.
LEMMA HomeIsLocalStep ==
    ASSUME CoherenceInv, NEW n \in Node, Step(n)
    PROVE  /\ stage'[Home] = "access" => rpc'[Home] = "none"
           /\ stage'[Home] \notin {"recall", "reconnect"}
<1>a. Typed /\ StagesFit /\ MessagesFit /\ SessionsPaired
  BY TypesHold DEF CoherenceInv, FreshInv
<1>t. /\ stage \in [Node -> Stage] /\ rpc \in [Node -> Rpc]
      /\ serve \in [Node -> {"off", "listen", "session"}]
      /\ peer \in [Node -> Node] /\ backlog \in [Node -> SUBSET Node]
      /\ op \in [Node -> Operation] /\ msg \in [Node -> Message]
  BY <1>a DEF Typed
<1>h. /\ stage[Home] = "access" => rpc[Home] = "none"
      /\ stage[Home] \notin {"recall", "reconnect"}
  BY DEF CoherenceInv, HomeIsLocal
<1>1. CASE Serve(n)
  BY <1>1, <1>a, <1>t, <1>h, NodesAssumption DEF Serve, opVars, netVars,
      cacheVars, homeVars, StagesFit
<1>2. CASE \E a \in Addr : StartRead(n, a)
  BY <1>2, <1>a, <1>t, <1>h, NodesAssumption DEF StartRead, Start, Enter,
      LockPhase, serverVars, cacheVars, homeVars, StagesFit
<1>3. CASE \E a \in Addr, v \in Value : StartWrite(n, a, v)
  BY <1>3, <1>a, <1>t, <1>h, NodesAssumption DEF StartWrite, Start, Enter,
      LockPhase, serverVars, cacheVars, homeVars, StagesFit
<1>4. CASE Connect(n)
  BY <1>4, <1>a, <1>t, <1>h, NodesAssumption DEF Connect, opVars, cacheVars,
      homeVars, StagesFit
<1>5. CASE GiveUp(n)
  BY <1>5, <1>a, <1>t, <1>h, NodesAssumption DEF GiveUp, Die, opVars, netVars,
      serverVars, homeVars, StagesFit
<1>6. CASE LockLocally(n)
  BY <1>6, <1>a, <1>t, <1>h, NodesAssumption DEF LockLocally, SetLock, Enter,
      Wanted, AccessPhase, serverVars, cacheVars, homeVars, StagesFit
<1>7. CASE UnlockLocally(n)
  BY <1>7, <1>a, <1>t, <1>h, NodesAssumption DEF UnlockLocally, SetLock,
      Enter, serverVars, cacheVars, homeVars, StagesFit
<1>8. CASE CallLock(n)
  BY <1>8, <1>a, <1>t, <1>h, NodesAssumption DEF CallLock, Call, Packet,
      Wanted, opVars, serverVars, cacheVars, homeVars, StagesFit
<1>9. CASE LockAnswered(n)
  BY <1>9, <1>a, <1>t, <1>h, NodesAssumption DEF LockAnswered, Answered,
      Close, Packet, serverVars, cacheVars, homeVars, StagesFit
<1>10. CASE EnterAccess(n)
  BY <1>10, <1>a, <1>t, <1>h, NodesAssumption DEF EnterAccess, Enter,
      AccessPhase, serverVars, cacheVars, homeVars, StagesFit
<1>11. CASE EnterUnlock(n)
  BY <1>11, <1>a, <1>t, <1>h, NodesAssumption DEF EnterUnlock, Enter,
      LockPhase, serverVars, cacheVars, homeVars, StagesFit
<1>12. CASE Return(n)
  BY <1>12, <1>a, <1>t, <1>h, NodesAssumption DEF Return, Enter, Die,
      serverVars, homeVars, StagesFit
<1>13. CASE CachedRead(n)
  BY <1>13, <1>a, <1>t, <1>h, NodesAssumption DEF CachedRead, ReadValue,
      Enter, LockPhase, serverVars, cacheVars, homeVars, StagesFit
<1>14. CASE LocalRead(n)
  BY <1>14, <1>a, <1>t, <1>h, NodesAssumption DEF LocalRead, ReadValue, Enter,
      LockPhase, serverVars, cacheVars, homeVars, StagesFit
<1>15. CASE CallRead(n)
  BY <1>15, <1>a, <1>t, <1>h, NodesAssumption DEF CallRead, Call, Packet,
      opVars, serverVars, cacheVars, homeVars, StagesFit
<1>16. CASE ReadReturned(n)
  BY <1>16, <1>a, <1>t, <1>h, NodesAssumption DEF ReadReturned, Answered,
      ReadValue, AddCacheItem, Close, Packet, netVars, serverVars, cacheVars,
      homeVars, StagesFit
<1>17. CASE CallWrite(n)
  BY <1>17, <1>a, <1>t, <1>h, NodesAssumption DEF CallWrite, AlterCacheItem,
      AddCacheItem, Call, Packet, opVars, netVars, serverVars, homeVars,
      StagesFit
<1>18. CASE WriteReturned(n)
  BY <1>18, <1>a, <1>t, <1>h, NodesAssumption DEF WriteReturned, Answered,
      Close, Packet, opVars, serverVars, cacheVars, homeVars, StagesFit
<1>19. CASE WriteRecalled(n)
  BY <1>19, <1>a, <1>t, <1>h, NodesAssumption DEF WriteRecalled, Answered,
      Enter, cacheVars, homeVars, StagesFit
<1>20. CASE CloseReconnected(n)
  BY <1>20, <1>a, <1>t, <1>h, NodesAssumption DEF CloseReconnected, Close,
      Packet, opVars, serverVars, cacheVars, homeVars, StagesFit
<1>21. CASE LocalWrite(n)
  BY <1>21, <1>a, <1>t, <1>h, NodesAssumption DEF LocalWrite, Enter,
      LockPhase, WrittenAtHome, serverVars, cacheVars, StagesFit
<1>22. CASE CallInvalidate(n)
  BY <1>22, <1>a, <1>t, <1>h, NodesAssumption DEF CallInvalidate, Call,
      Packet, opVars, serverVars, cacheVars, homeVars, StagesFit
<1>23. CASE InvalidationAnswered(n)
  BY <1>23, <1>a, <1>t, <1>h, NodesAssumption DEF InvalidationAnswered,
      Answered, Close, Packet, opVars, serverVars, cacheVars, homeVars,
      StagesFit
<1>24. CASE NextTarget(n)
  BY <1>24, <1>a, <1>t, <1>h, NodesAssumption DEF NextTarget, opVars,
      serverVars, cacheVars, StagesFit
<1>25. CASE EndBroadcast(n)
  BY <1>25, <1>a, <1>t, <1>h, NodesAssumption DEF EndBroadcast, Enter,
      LockPhase, WrittenAtHome, serverVars, cacheVars, StagesFit
<1>26. CASE Accept(n)
  <2>1. \A i \in backlog[n] : rpc[i] = "backlog"
    BY <1>a, <1>t DEF SessionsPaired
  <2> QED
    BY <1>26, <2>1, <1>t, <1>h, NodesAssumption DEF Accept, opVars
<1>27. CASE HandleReset(n)
  BY <1>27, <1>a, <1>t, <1>h, NodesAssumption DEF HandleReset
<1>28. CASE HandleLocks(n)
  <2>1. PICK c \in Node : HandleLocks(n)!(c)
    BY <1>28 DEF HandleLocks
  <2>2. rpc[c] = "sent" /\ rpc[n] = "none"
    BY <1>a, <2>1, ServedClient DEF Receives
  <2> QED
    BY <2>1, <2>2, <1>t, <1>h, NodesAssumption DEF Answer, opVars, netVars
<1>29. CASE HandleRead(n)
  <2>1. PICK c \in Node : HandleRead(n)!(c)
    BY <1>29 DEF HandleRead
  <2>2. rpc[c] = "sent" /\ rpc[n] = "none"
    BY <1>a, <2>1, ServedClient DEF Receives
  <2> QED
    BY <2>1, <2>2, <1>t, <1>h, NodesAssumption DEF Answer, opVars, netVars
<1>30. CASE HandleWrite(n)
  <2>1. PICK c \in Node : HandleWrite(n)!(c)
    BY <1>30 DEF HandleWrite
  <2>2. rpc[c] = "sent" /\ rpc[n] = "none"
    BY <1>a, <2>1, ServedClient DEF Receives
  <2> QED
    BY <2>1, <2>2, <1>t, <1>h, NodesAssumption DEF Answer, opVars, netVars
<1>31. CASE StartInvalidations(n)
  <2>1. PICK c \in Node : StartInvalidations(n)!(c)
    BY <1>31 DEF StartInvalidations
  <2>2. rpc[c] = "sent" /\ rpc[n] = "none"
    BY <1>a, <2>1, ServedClient DEF Receives
  <2> QED
    BY <2>1, <2>2, <1>t, <1>h, NodesAssumption DEF Answer, opVars, netVars
<1>32. CASE HandleInvalidation(n)
  <2>1. PICK c \in Node : HandleInvalidation(n)!(c)
    BY <1>32 DEF HandleInvalidation
  <2>2. rpc[c] = "sent" /\ rpc[n] = "none"
    BY <1>a, <2>1, ServedClient DEF Receives
  <2> QED
    BY <2>1, <2>2, <1>t, <1>h, NodesAssumption DEF Answer, opVars, netVars
<1> QED
  BY <1>1, <1>2, <1>3, <1>4, <1>5, <1>6, <1>7, <1>8, <1>9, <1>10, <1>11,
      <1>12, <1>13, <1>14, <1>15, <1>16, <1>17, <1>18, <1>19, <1>20, <1>21,
      <1>22, <1>23, <1>24, <1>25, <1>26, <1>27, <1>28, <1>29, <1>30, <1>31,
      <1>32 DEF Step, StartOp, ClientStep, ServerStep

\* Home has no cache to speak of.
LEMMA HomeCachesNothing ==
    ASSUME CoherenceInv, NEW n \in Node, Step(n), NEW b \in Addr
    PROVE  cache'[Home][b] = None
<1>1. /\ cache[Home][b] = None
      /\ stage[Home] = "access" => rpc[Home] = "none"
  BY DEF CoherenceInv, HomeIsLocal
<1>2. ~ (ReadReturned(n) /\ Home = n) /\ ~ (CallWrite(n) /\ Home = n)
  BY <1>1 DEF ReadReturned, Answered, CallWrite
<1> QED
  BY <1>1, <1>2, CachesGrow, NodesAssumption

-----------------------------------------------------------------------------
(* Every step preserves every part of the invariant.                       *)

\* A read handled at home adds at most a sharer to each entry.
LEMMA ReaderListed ==
    ASSUME CoherenceInv, NEW n \in Node, HandleRead(n), NEW b \in Addr
    PROVE  /\ UNCHANGED <<targets, victim>>
           /\ \E c \in Node : dir'[b] \in {dir[b], SharedBy(dir[b], c)}
<1>a. Typed /\ StagesFit /\ MessagesFit /\ SessionsPaired
  BY TypesHold DEF CoherenceInv, FreshInv
<1>d. /\ dir \in [Addr -> SaveData]
      /\ \A e \in Addr : dir[e].sharers \in Seq(Node)
      /\ targets \in Seq(Node) /\ victim \in Addr
  BY <1>a DEF Typed
<1>1. PICK c \in Node : HandleRead(n)!(c)
  BY DEF HandleRead
<1>2. CASE dir[msg[c].addr].iscached = "WILD"
  BY <1>1, <1>2 DEF netVars
<1>3. CASE dir[msg[c].addr].iscached # "WILD"
  <2>1. dir' = [dir EXCEPT ![msg[c].addr] = SharedBy(dir[msg[c].addr], c)]
    BY <1>1, <1>3
  <2>2. dir'[b] \in {dir[b], SharedBy(dir[b], c)}
    BY <2>1, <1>d
  <2> QED
    BY <1>1, <2>2
<1> QED
  BY <1>2, <1>3

\* An entry with sharers is marked as shared: handleRead marks it, and every
\* write forgets the list.
LEMMA SharersMarkedStep ==
    ASSUME CoherenceInv, NEW n \in Node, Step(n)
    PROVE  SharersMarked'
<1>a. Typed /\ StagesFit /\ MessagesFit /\ SessionsPaired
  BY TypesHold DEF CoherenceInv, FreshInv
<1>d. /\ dir \in [Addr -> SaveData]
      /\ \A e \in Addr : dir[e].sharers \in Seq(Node)
      /\ targets \in Seq(Node) /\ victim \in Addr
  BY <1>a DEF Typed
<1>s. SharersMarked
  BY DEF CoherenceInv
<1>1. CASE HandleRead(n)
  <2> SUFFICES ASSUME NEW b \in Addr, dir'[b].sharers # << >>
               PROVE  dir'[b].iscached = "SHARED"
    BY DEF SharersMarked
  <2>1. PICK c \in Node : dir'[b] \in {dir[b], SharedBy(dir[b], c)}
    BY <1>1, ReaderListed
  <2> QED
    BY <2>1, <1>s DEF SharersMarked, SharedBy
<1>2. CASE HandleWrite(n)
  BY <1>2, <1>d, <1>s DEF HandleWrite, SharersMarked, Written
<1>3. CASE StartInvalidations(n)
  BY <1>3, <1>d, <1>s DEF StartInvalidations, SharersMarked, Written
<1>4. CASE LocalWrite(n)
  BY <1>4, <1>d, <1>s DEF LocalWrite, SharersMarked, WrittenAtHome
<1>5. CASE EndBroadcast(n)
  BY <1>5, <1>d, <1>s DEF EndBroadcast, SharersMarked, WrittenAtHome
<1>6. CASE UNCHANGED dir
  BY <1>6, <1>s DEF SharersMarked
<1> QED
  BY <1>1, <1>2, <1>3, <1>4, <1>5, <1>6, DirFootprint

\* Home does not forget a copy: who is listed or scheduled stays so until its
\* copy is gone.
LEMMA KnownStaysKnown ==
    ASSUME CoherenceInv, NEW n \in Node, Step(n), NEW i \in Node, NEW b \in Addr,
           i \in Sharers(b) \/ Scheduled(i, b), cache'[i][b] # None
    PROVE  (i \in Sharers(b) \/ Scheduled(i, b))'
<1>a. Typed /\ StagesFit /\ MessagesFit /\ SessionsPaired
  BY TypesHold DEF CoherenceInv, FreshInv
<1>d. /\ dir \in [Addr -> SaveData]
      /\ \A e \in Addr : dir[e].sharers \in Seq(Node)
      /\ targets \in Seq(Node) /\ victim \in Addr
  BY <1>a DEF Typed
<1>c. cache \in [Node -> [Addr -> Value \cup {None}]]
  BY <1>a DEF Typed
<1>s. SharersMarked /\ BroadcastFits
  BY DEF CoherenceInv
<1>1. CASE HandleRead(n)
  <2>1. PICK c \in Node : /\ UNCHANGED <<targets, victim>>
                         /\ dir'[b] \in {dir[b], SharedBy(dir[b], c)}
    BY <1>1, ReaderListed
  <2>2. Range(Append(dir[b].sharers, c)) = Range(dir[b].sharers) \cup {c}
    BY <1>d, RangeOfAppend
  <2>3. \/ dir'[b].sharers = dir[b].sharers
        \/ dir'[b].sharers = Append(dir[b].sharers, c)
    BY <2>1 DEF SharedBy
  <2>4. Range(dir[b].sharers) \subseteq Range(dir'[b].sharers)
    BY <2>2, <2>3
  <2> QED
    BY <2>1, <2>4 DEF Sharers, Scheduled
<1>2. CASE HandleWrite(n)
  <2>1. PICK c \in Node : HandleWrite(n)!(c)
    BY <1>2 DEF HandleWrite
  <2>2. b = msg[c].addr => dir[b].sharers = << >>
    BY <2>1, <1>s DEF RemoteNeedsInvalidation, NeedsInvalidation, SharersMarked
  <2>3. b = msg[c].addr => i \notin Sharers(b)
    BY <2>2, RangeOfEmpty DEF Sharers
  <2> QED
    BY <2>1, <2>3, <1>d DEF Sharers, Scheduled
<1>3. CASE StartInvalidations(n)
  <2>1. PICK c \in Node : StartInvalidations(n)!(c)
    BY <1>3 DEF StartInvalidations
  <2>2. targets = << >>
    BY <1>a, <2>1, ServedClient
  <2>3. i \in Sharers(b)
    BY <2>2, RangeOfEmpty DEF Scheduled
  <2> QED
    BY <2>1, <2>3, <1>d DEF Sharers, Scheduled
<1>4. CASE LocalWrite(n)
  <2>1. targets = << >>
    BY <1>4, <1>a DEF LocalWrite, StagesFit
  <2>2. i \in Sharers(b)
    BY <2>1, RangeOfEmpty DEF Scheduled
  <2>3. dir[b].sharers # << >>
    BY <2>2, RangeOfEmpty DEF Sharers
  <2>4. dir[b].iscached = "SHARED"
    BY <2>3, <1>s DEF SharersMarked
  <2> QED
    BY <1>4, <2>2, <2>3, <2>4, <1>d
    DEF LocalWrite, NeedsInvalidation, Sharers, Scheduled
<1>5. CASE NextTarget(n) \/ EndBroadcast(n)
  <2>1. n = Home /\ stage[Home] \in {"bcast", "wbcast"} /\ rpc[Home] = "closed"
        /\ targets # << >> /\ UNCHANGED cacheVars
    BY <1>5, <1>a DEF NextTarget, EndBroadcast, StagesFit
  <2>2. cache[i][b] # None
    BY <2>1 DEF cacheVars
  <2>3. cache[Head(targets)][victim] = None
    BY <2>1, <1>s DEF BroadcastFits
  <2>4. ~ (i = Head(targets) /\ b = victim)
    BY <2>2, <2>3
  <2>5. CASE NextTarget(n)
    <3>1. UNCHANGED <<dir, victim>> /\ targets' = Tail(targets)
      BY <2>5 DEF NextTarget
    <3>2. Range(targets) = {Head(targets)} \cup Range(Tail(targets))
      BY <2>1, <1>d, RangeOfTail
    <3> QED
      BY <3>1, <3>2, <2>4 DEF Sharers, Scheduled
  <2>6. CASE EndBroadcast(n)
    <3>1. Range(targets) = {Head(targets)}
      BY <2>6, <1>d, RangeOfSingle DEF EndBroadcast
    <3>2. ~ Scheduled(i, b)
      BY <3>1, <2>4 DEF Scheduled
    <3>3. CASE dir' = dir
      BY <3>2, <3>3 DEF Sharers
    <3>4. CASE dir' # dir
      <4>1. /\ stage[Home] = "wbcast"
            /\ dir' = [dir EXCEPT ![op[Home].addr] = WrittenAtHome(op[Home].val)]
        BY <2>1, <2>6, <3>4 DEF EndBroadcast
      <4>2. op[Home].addr = victim
        BY <4>1, <1>s DEF BroadcastFits
      <4>3. b # victim
        BY <4>1, <1>s, <3>1, <3>2, <2>2, <2>4 DEF BroadcastFits
      <4> QED
        BY <3>2, <4>1, <4>2, <4>3, <1>d DEF Sharers
    <3> QED
      BY <3>3, <3>4
  <2> QED
    BY <1>5, <2>5, <2>6
<1>6. CASE UNCHANGED <<dir, targets, victim>>
  BY <1>6 DEF Sharers, Scheduled
<1> QED
  BY <1>1, <1>2, <1>3, <1>4, <1>5, <1>6, DirFootprint, TargetsFootprint

\* A copy is the writer's own, or Home knows of it.
LEMMA CopiesListedStep ==
    ASSUME CoherenceInv, NEW n \in Node, Step(n)
    PROVE  CopiesListed'
<1>a. Typed /\ StagesFit /\ MessagesFit /\ SessionsPaired
  BY TypesHold DEF CoherenceInv, FreshInv
<1> SUFFICES ASSUME NEW b \in Addr, NEW i \in Node, cache'[i][b] # None
             PROVE  i \in MayWrite[b] \/ (i \in Sharers(b) \/ Scheduled(i, b))'
  BY DEF CopiesListed
<1>1. CASE cache[i][b] # None
  <2>1. i \in MayWrite[b] \/ i \in Sharers(b) \/ Scheduled(i, b)
    BY <1>1 DEF CoherenceInv, CopiesListed
  <2> QED
    BY <2>1, KnownStaysKnown
<1>2. CASE ReadReturned(n) /\ i = n /\ b = op[n].addr
  <2>1. i \in Sharers(b)
    BY <1>2 DEF ReadReturned, Answered, CoherenceInv, FreshInv, AnswersFresh
  <2> QED
    BY <2>1, KnownStaysKnown
<1>3. CASE CallWrite(n) /\ i = n /\ b = op[n].addr
  BY <1>3, <1>a DEF CallWrite, MessagesFit
<1> QED
  BY <1>1, <1>2, <1>3, CachesGrow

\* What a handled write leaves: its own value at home, its own flight ended and
\* everybody else as before.
LEMMA WriteHandled ==
    ASSUME CoherenceInv, NEW n \in Node, Step(n),
           HandleWrite(n) \/ StartInvalidations(n)
    PROVE  \E c \in Node :
               LET a == op[c].addr IN
               /\ a \in Addr /\ c \in MayWrite[a] /\ c # n /\ n = Home
               /\ stage[c] = "access" /\ op[c].kind = "WRITE" /\ rpc[c] = "sent"
               /\ stage[n] \in {"idle", "recall"} /\ rpc[n] = "none"
               /\ targets = << >>
               /\ dir' = [dir EXCEPT ![a] = Written(c, op[c].val)]
               /\ op' = op /\ cache' = cache
               /\ \A i \in Node \ {c, Home} : rpc'[i] = rpc[i] /\ stage'[i] = stage[i]
               /\ stage'[c] = "access" /\ rpc'[c] = "answered"
               /\ \/ /\ HandleWrite(n) /\ msg'[c].imm = "DEFAULT"
                     /\ targets' = << >> /\ stage' = stage /\ rpc'[Home] = "none"
                  \/ /\ StartInvalidations(n) /\ msg'[c].imm = "INVALIDATE"
                     /\ victim' = a /\ stage'[Home] = "bcast"
               /\ \A i \in Node \ {c} : msg'[i] = msg[i]
<1>a. Typed /\ StagesFit /\ MessagesFit /\ SessionsPaired
  BY TypesHold DEF CoherenceInv, FreshInv
<1>t. /\ stage \in [Node -> Stage] /\ rpc \in [Node -> Rpc]
      /\ serve \in [Node -> {"off", "listen", "session"}]
      /\ peer \in [Node -> Node] /\ backlog \in [Node -> SUBSET Node]
      /\ op \in [Node -> Operation] /\ msg \in [Node -> Message]
  BY <1>a DEF Typed
<1>c. cache \in [Node -> [Addr -> Value \cup {None}]]
  BY <1>a DEF Typed
<1>d. /\ dir \in [Addr -> SaveData]
      /\ \A e \in Addr : dir[e].sharers \in Seq(Node)
      /\ targets \in Seq(Node) /\ victim \in Addr
  BY <1>a DEF Typed
<1>1. CASE HandleWrite(n)
  <2>1. PICK c \in Node : HandleWrite(n)!(c)
    BY <1>1 DEF HandleWrite
  <2>2. /\ n # c /\ stage[n] \in {"idle", "recall"} /\ rpc[n] = "none" /\ n = Home
        /\ targets = << >> /\ stage[c] = "access" /\ op[c].kind = "WRITE"
        /\ msg[c].addr = op[c].addr /\ op[c].addr \in Addr
        /\ msg[c].val = op[c].val
    BY <1>a, <2>1, ServedClient
  <2>3. c \in MayWrite[op[c].addr] /\ rpc[c] = "sent"
    BY <1>a, <2>1, <2>2 DEF MessagesFit, Receives
  <2>4. /\ UNCHANGED <<stage, op, cache, targets, victim>>
        /\ dir' = [dir EXCEPT ![op[c].addr] = Written(c, op[c].val)]
        /\ rpc' = [rpc EXCEPT ![c] = "answered"]
        /\ msg' = [msg EXCEPT ![c] = Packet("DEFAULT", None, None)]
    BY <2>1, <2>2 DEF Answer, opVars, cacheVars
  <2> QED
    BY <1>1, <1>t, <2>2, <2>3, <2>4 DEF Packet
<1>2. CASE StartInvalidations(n)
  <2>1. PICK c \in Node : StartInvalidations(n)!(c)
    BY <1>2 DEF StartInvalidations
  <2>2. /\ n # c /\ stage[n] \in {"idle", "recall"} /\ rpc[n] = "none" /\ n = Home
        /\ targets = << >> /\ stage[c] = "access" /\ op[c].kind = "WRITE"
        /\ msg[c].addr = op[c].addr /\ op[c].addr \in Addr
        /\ msg[c].val = op[c].val
    BY <1>a, <2>1, ServedClient
  <2>3. c \in MayWrite[op[c].addr] /\ rpc[c] = "sent"
    BY <1>a, <2>1, <2>2 DEF MessagesFit, Receives
  <2>4. /\ UNCHANGED <<op, cache>>
        /\ dir' = [dir EXCEPT ![op[c].addr] = Written(c, op[c].val)]
        /\ stage' = [stage EXCEPT ![Home] = "bcast"]
        /\ rpc' = [rpc EXCEPT ![c] = "answered", ![Home] = "connect"]
        /\ msg' = [msg EXCEPT ![c] = Packet("INVALIDATE", op[c].addr, None)]
        /\ victim' = op[c].addr
    BY <2>1, <2>2 DEF cacheVars
  <2> QED
    BY <1>2, <1>t, <2>2, <2>3, <2>4, NodesAssumption DEF Packet
<1> QED
  BY <1>1, <1>2

\* What a write at home stores is Home's own.
LEMMA HomeStores ==
    ASSUME CoherenceInv, NEW n \in Node, Step(n), LocalWrite(n) \/ EndBroadcast(n)
    PROVE  /\ n = Home /\ op' = op /\ cache' = cache /\ UNCHANGED msg
           /\ \A i \in Node \ {Home} : rpc'[i] = rpc[i] /\ stage'[i] = stage[i]
           /\ \/ dir' = dir
              \/ /\ Home \in MayWrite[op[Home].addr] /\ op[Home].addr \in Addr
                 /\ op[Home].kind = "WRITE"
                 /\ dir' = [dir EXCEPT ![op[Home].addr] = WrittenAtHome(op[Home].val)]
           /\ \/ targets' = << >>
              \/ /\ LocalWrite(n) /\ stage'[Home] = "wbcast"
                 /\ victim' = op[Home].addr /\ Home \in MayWrite[op[Home].addr]
                 /\ dir' = dir
<1>a. Typed /\ StagesFit /\ MessagesFit /\ SessionsPaired
  BY TypesHold DEF CoherenceInv, FreshInv
<1>t. /\ stage \in [Node -> Stage] /\ rpc \in [Node -> Rpc]
      /\ serve \in [Node -> {"off", "listen", "session"}]
      /\ peer \in [Node -> Node] /\ backlog \in [Node -> SUBSET Node]
      /\ op \in [Node -> Operation] /\ msg \in [Node -> Message]
  BY <1>a DEF Typed
<1>1. n = Home
  BY <1>a DEF LocalWrite, EndBroadcast, StagesFit
<1>2. op' = op /\ cache' = cache /\ UNCHANGED msg
  BY DEF LocalWrite, EndBroadcast, cacheVars
<1>3. \A i \in Node \ {Home} : rpc'[i] = rpc[i] /\ stage'[i] = stage[i]
  BY <1>1, <1>t DEF LocalWrite, EndBroadcast, Enter
<1>4. op[Home].kind = "WRITE" =>
          Home \in MayWrite[op[Home].addr] /\ op[Home].addr \in Addr
  BY <1>a, NodesAssumption DEF MessagesFit, Typed
<1>5. CASE LocalWrite(n)
  <2>1. op[Home].kind = "WRITE" /\ targets = << >>
    BY <1>1, <1>5, <1>a DEF LocalWrite, StagesFit
  <2>2. CASE NeedsInvalidation(dir[op[n].addr])
    BY <1>1, <1>2, <1>3, <1>4, <1>5, <2>1, <2>2, <1>t, NodesAssumption
    DEF LocalWrite, Enter
  <2>3. CASE ~ NeedsInvalidation(dir[op[n].addr])
    BY <1>1, <1>2, <1>3, <1>4, <1>5, <2>1, <2>3 DEF LocalWrite
  <2> QED
    BY <2>2, <2>3
<1>6. CASE EndBroadcast(n)
  <2>1. stage[Home] = "wbcast" => op[Home].kind = "WRITE"
    BY <1>a, NodesAssumption DEF StagesFit
  <2> QED
    BY <1>1, <1>2, <1>3, <1>4, <1>6, <2>1 DEF EndBroadcast
<1> QED
  BY <1>5, <1>6

\* The words at home change only by a handled write or by a write of Home.
LEMMA WordsChange ==
    ASSUME CoherenceInv, NEW n \in Node, Step(n), NEW b \in Addr
    PROVE  \/ dir'[b].data = dir[b].data
           \/ HandleWrite(n) \/ StartInvalidations(n)
           \/ LocalWrite(n) \/ EndBroadcast(n)
<1>1. CASE HandleRead(n)
  BY <1>1, ReaderListed DEF SharedBy
<1>2. CASE UNCHANGED dir
  BY <1>2
<1> QED
  BY <1>1, <1>2, DirFootprint

\* The copy of a word's only writer is the word at home, or its write is in
\* flight.
LEMMA WriterFreshStep ==
    ASSUME CoherenceInv, NEW n \in Node, Step(n)
    PROVE  WriterFresh'
<1>a. Typed /\ StagesFit /\ MessagesFit /\ SessionsPaired
  BY TypesHold DEF CoherenceInv, FreshInv
<1>d. /\ dir \in [Addr -> SaveData]
      /\ \A e \in Addr : dir[e].sharers \in Seq(Node)
      /\ targets \in Seq(Node) /\ victim \in Addr
  BY <1>a DEF Typed
<1> SUFFICES ASSUME NEW b \in Addr, NEW i \in MayWrite[b], SingleWriter(b)
             PROVE  cache'[i][b] \in {None, dir'[b].data} \/ WriteInFlight(i, b)'
  BY DEF WriterFresh, SingleWriter
<1>i. i \in Node
  BY DataAssumption, NodesAssumption
<1>o. cache[i][b] \in {None, dir[b].data} \/ WriteInFlight(i, b)
  BY DEF CoherenceInv, WriterFresh
<1>1. CASE HandleWrite(n) \/ StartInvalidations(n)
  <2>1. PICK c \in Node :
            /\ op[c].addr \in Addr /\ c \in MayWrite[op[c].addr]
            /\ stage[c] = "access" /\ op[c].kind = "WRITE" /\ rpc[c] = "sent"
            /\ rpc[Home] = "none"
            /\ dir' = [dir EXCEPT ![op[c].addr] = Written(c, op[c].val)]
            /\ op' = op /\ cache' = cache
            /\ \A j \in Node \ {c, Home} : rpc'[j] = rpc[j] /\ stage'[j] = stage[j]
    BY <1>1, WriteHandled
  <2>2. CASE op[c].addr = b
    <3>1. i = c
      BY <2>1, <2>2 DEF SingleWriter
    <3>2. cache[c][b] \in {None, op[c].val}
      BY <2>1, <2>2 DEF CoherenceInv, FreshInv, CopiesFit
    <3>3. dir'[b].data = op[c].val
      BY <2>1, <2>2, <1>d DEF Written
    <3> QED
      BY <2>1, <3>1, <3>2, <3>3
  <2>3. CASE op[c].addr # b
    <3>1. dir'[b] = dir[b]
      BY <2>1, <2>3, <1>d
    <3>2. WriteInFlight(i, b) => WriteInFlight(i, b)'
      BY <1>i, <2>1, <2>3 DEF WriteInFlight
    <3> QED
      BY <1>o, <2>1, <3>1, <3>2
  <2> QED
    BY <2>2, <2>3
<1>2. CASE LocalWrite(n) \/ EndBroadcast(n)
  <2>1. /\ op' = op /\ cache' = cache
        /\ \A j \in Node \ {Home} : rpc'[j] = rpc[j] /\ stage'[j] = stage[j]
        /\ \/ dir' = dir
           \/ /\ Home \in MayWrite[op[Home].addr] /\ op[Home].addr \in Addr
              /\ dir' = [dir EXCEPT ![op[Home].addr] = WrittenAtHome(op[Home].val)]
    BY <1>2, HomeStores
  <2>2. CASE i = Home
    BY <2>2, HomeCachesNothing
  <2>3. CASE i # Home
    <3>1. dir'[b] = dir[b]
      BY <2>1, <2>3, <1>d DEF SingleWriter
    <3>2. WriteInFlight(i, b) => WriteInFlight(i, b)'
      BY <1>i, <2>1, <2>3 DEF WriteInFlight
    <3> QED
      BY <1>o, <2>1, <3>1, <3>2
  <2> QED
    BY <2>2, <2>3
<1>3. CASE ~ (HandleWrite(n) \/ StartInvalidations(n))
           /\ ~ (LocalWrite(n) \/ EndBroadcast(n))
  <2>1. dir'[b].data = dir[b].data
    BY <1>3, WordsChange
  <2>2. WriteInFlight(i, b) => WriteInFlight(i, b)'
    BY <1>3, <1>i, FlightsLast DEF CoherenceInv
  <2>3. CASE cache'[i][b] \in {None, cache[i][b]}
    BY <1>o, <2>1, <2>2, <2>3
  <2>4. CASE ReadReturned(n) /\ i = n /\ b = op[n].addr /\ cache'[i][b] = msg[n].val
    <3>1. msg[n].val = dir[b].data
      BY <2>4 DEF ReadReturned, Answered, CoherenceInv, FreshInv, AnswersFresh
    <3> QED
      BY <2>1, <2>4, <3>1
  <2>5. CASE CallWrite(n) /\ i = n /\ b = op[n].addr /\ WriteInFlight(n, b)'
    BY <2>5
  <2> QED
    BY <1>i, <2>3, <2>4, <2>5, CachesGrow
<1> QED
  BY <1>1, <1>2, <1>3

\* Home gets on with its list, and forgets nobody during a write of its own.
LEMMA BroadcastFitsStep ==
    ASSUME CoherenceInv, NEW n \in Node, Step(n)
    PROVE  BroadcastFits'
<1>a. Typed /\ StagesFit /\ MessagesFit /\ SessionsPaired
  BY TypesHold DEF CoherenceInv, FreshInv
<1>t. /\ stage \in [Node -> Stage] /\ rpc \in [Node -> Rpc]
      /\ serve \in [Node -> {"off", "listen", "session"}]
      /\ peer \in [Node -> Node] /\ backlog \in [Node -> SUBSET Node]
      /\ op \in [Node -> Operation] /\ msg \in [Node -> Message]
  BY <1>a DEF Typed
<1>c. cache \in [Node -> [Addr -> Value \cup {None}]]
  BY <1>a DEF Typed
<1>d. /\ dir \in [Addr -> SaveData]
      /\ \A e \in Addr : dir[e].sharers \in Seq(Node)
      /\ targets \in Seq(Node) /\ victim \in Addr
  BY <1>a DEF Typed
<1>b. BroadcastFits
  BY DEF CoherenceInv
<1> SUFFICES ASSUME stage'[Home] \in {"bcast", "wbcast"} PROVE BroadcastFits'
  BY DEF BroadcastFits
<1>1. CASE StartInvalidations(n)
  <2>1. stage'[Home] = "bcast"
    BY <1>1, WriteHandled
  <2>2. n = Home
    BY <1>1, WriteHandled
  <2>3. rpc'[Home] = "connect"
    <3>1. PICK c \in Node : StartInvalidations(n)!(c)
      BY <1>1 DEF StartInvalidations
    <3> QED
      BY <3>1, <2>2, <1>t
  <2> QED
    BY <2>1, <2>3 DEF BroadcastFits
<1>2. CASE LocalWrite(n)
  <2>1. n = Home /\ stage[Home] = "access" /\ UNCHANGED op
    BY <1>2 DEF LocalWrite
  <2>2. NeedsInvalidation(dir[op[n].addr])
    BY <1>2, <2>1, <1>t DEF LocalWrite, Enter
  <2>3. /\ targets' = dir[victim'].sharers /\ victim' = op[Home].addr
        /\ UNCHANGED dir /\ rpc'[Home] = "connect"
    BY <1>2, <2>1, <2>2, <1>t DEF LocalWrite, Enter
  <2> QED
    BY <2>1, <2>3 DEF BroadcastFits, Sharers
<1>3. CASE ~ StartInvalidations(n) /\ ~ LocalWrite(n)
  <2>1. /\ stage[Home] = stage'[Home]
        /\ \/ rpc'[Home] \in {"answered", "closing", "closed"} =>
                  rpc[Home] \in {"answered", "closing", "closed"}
           \/ \E c \in Node : HandleInvalidation(n)!(c) /\ c = Home
    BY <1>3, BroadcastControl
  <2>2. targets # << >> /\ Head(targets) \in Node
    BY <1>a, <1>d, <2>1 DEF StagesFit
  <2>3. ~ HandleRead(n) /\ ~ HandleWrite(n)
    <3>1. ASSUME NEW c \in Node, NEW imm, imm \in {"READ", "WRITE"},
                 Receives(n, c, imm)
          PROVE  FALSE
      BY <3>1, <1>a, <2>2, ServedClient
    <3> QED
      BY <3>1 DEF HandleRead, HandleWrite
  <2>4. ~ EndBroadcast(n)
    <3> SUFFICES ASSUME EndBroadcast(n) PROVE FALSE
      OBVIOUS
    <3>1. n = Home
      BY <1>a DEF EndBroadcast, StagesFit
    <3> QED
      BY <3>1, <1>t, <2>1 DEF EndBroadcast, Enter
  <2>5. dir' = dir
    BY <1>3, <2>3, <2>4, DirFootprint
  <2>6. op'[Home] = op[Home]
    <3>1. CASE n = Home
      BY <3>1, <2>1, OpFootprint DEF StartRead, StartWrite, Start, CachedRead,
          LocalRead, ReadReturned
    <3>2. CASE n # Home
      BY <3>2, <1>t, NodesAssumption, OpFootprint DEF StartRead, StartWrite,
          Start, CachedRead, LocalRead, ReadReturned, ReadValue
    <3> QED
      BY <3>1, <3>2
  <2>7. \A i \in Node : cache'[i][victim] \in {None, cache[i][victim]}
    BY <1>d, <2>1, CachesOnlyShrinkInBroadcast
  <2>8. CASE NextTarget(n)
    <3>1. n = Home /\ rpc[Home] = "closed" /\ rpc'[Home] = "connect"
          /\ targets' = Tail(targets) /\ victim' = victim
      BY <2>8, <1>a, <1>t DEF NextTarget, StagesFit
    <3>2. cache[Head(targets)][victim] = None
      BY <1>b, <2>1, <3>1 DEF BroadcastFits
    <3>3. Range(targets) = {Head(targets)} \cup Range(Tail(targets))
      BY <1>d, <2>2, RangeOfTail
    <3>4. Sharers(victim) \subseteq Node
      BY <1>d DEF Sharers, Range
    <3>5. stage[Home] = "wbcast" => op[Home].addr = victim
      BY <1>b DEF BroadcastFits
    <3>6. ASSUME stage[Home] = "wbcast", NEW i \in Sharers(victim), i \in Node
          PROVE  cache'[i][victim] = None \/ i \in Range(Tail(targets))
      BY <1>b, <2>7, <3>2, <3>3, <3>6 DEF BroadcastFits
    <3> QED
      BY <2>1, <2>5, <2>6, <3>1, <3>4, <3>5, <3>6 DEF BroadcastFits, Sharers
  <2>9. CASE UNCHANGED <<targets, victim>>
    <3>1. rpc'[Home] \in {"answered", "closing", "closed"} =>
              cache'[Head(targets)][victim] = None
      <4>1. CASE \E c \in Node : HandleInvalidation(n)!(c) /\ c = Home
        <5>1. HandleInvalidation(n)!(Home)
          BY <4>1
        <5>2. n = Head(targets) /\ msg[Home].addr = victim
          BY <5>1, <1>a, NodesAssumption, ServedClient
        <5> QED
          BY <5>1, <5>2, <1>c, <1>d
      <4>2. CASE rpc'[Home] \in {"answered", "closing", "closed"} =>
                     rpc[Home] \in {"answered", "closing", "closed"}
        BY <4>2, <1>b, <2>1, <2>2, <2>7 DEF BroadcastFits
      <4> QED
        BY <2>1, <4>1, <4>2
    <3>2. stage[Home] = "wbcast" => op[Home].addr = victim
      BY <1>b DEF BroadcastFits
    <3>3. ASSUME stage[Home] = "wbcast", NEW i \in Sharers(victim), i \in Node
          PROVE  cache'[i][victim] = None \/ i \in Range(targets)
      BY <1>b, <2>7, <3>3 DEF BroadcastFits
    <3>4. Sharers(victim) \subseteq Node
      BY <1>d DEF Sharers, Range
    <3> QED
      BY <2>1, <2>5, <2>6, <2>9, <3>1, <3>2, <3>3, <3>4
      DEF BroadcastFits, Sharers
  <2> QED
    BY <1>3, <2>4, <2>8, <2>9, TargetsFootprint
<1> QED
  BY <1>1, <1>2, <1>3

\* A write that is applied stays so until it returns. Its owner is answered
\* for good only while Home broadcasts nothing.
LEMMA WriteProgress ==
    ASSUME CoherenceInv, NEW n \in Node, Step(n)
    PROVE  \/ HandleWrite(n) \/ StartInvalidations(n)
           \/ LocalWrite(n) \/ EndBroadcast(n)
           \/ \A i \in Node, b \in Addr : WriteApplied(i, b)' =>
                 /\ WriteApplied(i, b) /\ op'[i] = op[i]
                 /\ Released(i)' => Released(i) \/ InSession(i)
<1>a. Typed /\ StagesFit /\ MessagesFit /\ SessionsPaired
  BY TypesHold DEF CoherenceInv, FreshInv
<1>t. /\ stage \in [Node -> Stage] /\ rpc \in [Node -> Rpc]
      /\ serve \in [Node -> {"off", "listen", "session"}]
      /\ peer \in [Node -> Node] /\ backlog \in [Node -> SUBSET Node]
      /\ op \in [Node -> Operation] /\ msg \in [Node -> Message]
  BY <1>a DEF Typed
<1>1. CASE Serve(n)
  BY <1>1, <1>a, <1>t DEF Serve, opVars, netVars, cacheVars, homeVars,
      StagesFit, WriteApplied, Released, InSession
<1>2. CASE \E a \in Addr : StartRead(n, a)
  BY <1>2, <1>a, <1>t DEF StartRead, Start, Enter, LockPhase, serverVars,
      cacheVars, homeVars, StagesFit, WriteApplied, Released, InSession
<1>3. CASE \E a \in Addr, v \in Value : StartWrite(n, a, v)
  BY <1>3, <1>a, <1>t DEF StartWrite, Start, Enter, LockPhase, serverVars,
      cacheVars, homeVars, StagesFit, WriteApplied, Released, InSession
<1>4. CASE Connect(n)
  BY <1>4, <1>a, <1>t DEF Connect, opVars, cacheVars, homeVars, StagesFit,
      WriteApplied, Released, InSession
<1>5. CASE GiveUp(n)
  BY <1>5, <1>a, <1>t DEF GiveUp, Die, opVars, netVars, serverVars, homeVars,
      StagesFit, WriteApplied, Released, InSession
<1>6. CASE LockLocally(n)
  BY <1>6, <1>a, <1>t DEF LockLocally, SetLock, Enter, Wanted, AccessPhase,
      serverVars, cacheVars, homeVars, StagesFit, WriteApplied, Released,
      InSession
<1>7. CASE UnlockLocally(n)
  BY <1>7, <1>a, <1>t DEF UnlockLocally, SetLock, Enter, serverVars,
      cacheVars, homeVars, StagesFit, WriteApplied, Released, InSession
<1>8. CASE CallLock(n)
  BY <1>8, <1>a, <1>t DEF CallLock, Call, Packet, Wanted, opVars, serverVars,
      cacheVars, homeVars, StagesFit, WriteApplied, Released, InSession
<1>9. CASE LockAnswered(n)
  BY <1>9, <1>a, <1>t DEF LockAnswered, Answered, Close, Packet, serverVars,
      cacheVars, homeVars, StagesFit, WriteApplied, Released, InSession
<1>10. CASE EnterAccess(n)
  BY <1>10, <1>a, <1>t DEF EnterAccess, Enter, AccessPhase, serverVars,
      cacheVars, homeVars, StagesFit, WriteApplied, Released, InSession
<1>11. CASE EnterUnlock(n)
  BY <1>11, <1>a, <1>t DEF EnterUnlock, Enter, LockPhase, serverVars,
      cacheVars, homeVars, StagesFit, WriteApplied, Released, InSession
<1>12. CASE Return(n)
  BY <1>12, <1>a, <1>t DEF Return, Enter, Die, serverVars, homeVars,
      StagesFit, WriteApplied, Released, InSession
<1>13. CASE CachedRead(n)
  BY <1>13, <1>a, <1>t DEF CachedRead, ReadValue, Enter, LockPhase,
      serverVars, cacheVars, homeVars, StagesFit, WriteApplied, Released,
      InSession
<1>14. CASE LocalRead(n)
  BY <1>14, <1>a, <1>t DEF LocalRead, ReadValue, Enter, LockPhase, serverVars,
      cacheVars, homeVars, StagesFit, WriteApplied, Released, InSession
<1>15. CASE CallRead(n)
  BY <1>15, <1>a, <1>t DEF CallRead, Call, Packet, opVars, serverVars,
      cacheVars, homeVars, StagesFit, WriteApplied, Released, InSession
<1>16. CASE ReadReturned(n)
  BY <1>16, <1>a, <1>t DEF ReadReturned, Answered, ReadValue, AddCacheItem,
      Close, Packet, netVars, serverVars, cacheVars, homeVars, StagesFit,
      WriteApplied, Released, InSession
<1>17. CASE CallWrite(n)
  BY <1>17, <1>a, <1>t DEF CallWrite, AlterCacheItem, AddCacheItem, Call,
      Packet, opVars, netVars, serverVars, homeVars, StagesFit, WriteApplied,
      Released, InSession
<1>18. CASE WriteReturned(n)
  BY <1>18, <1>a, <1>t DEF WriteReturned, Answered, Close, Packet, opVars,
      serverVars, cacheVars, homeVars, StagesFit, WriteApplied, Released,
      InSession
<1>19. CASE WriteRecalled(n)
  BY <1>19, <1>a, <1>t DEF WriteRecalled, Answered, Enter, cacheVars,
      homeVars, StagesFit, WriteApplied, Released, InSession
<1>20. CASE CloseReconnected(n)
  BY <1>20, <1>a, <1>t DEF CloseReconnected, Close, Packet, opVars,
      serverVars, cacheVars, homeVars, StagesFit, WriteApplied, Released,
      InSession
<1>21. CASE LocalWrite(n)
  BY <1>21
<1>22. CASE CallInvalidate(n)
  BY <1>22, <1>a, <1>t DEF CallInvalidate, Call, Packet, opVars, serverVars,
      cacheVars, homeVars, StagesFit, WriteApplied, Released, InSession
<1>23. CASE InvalidationAnswered(n)
  BY <1>23, <1>a, <1>t DEF InvalidationAnswered, Answered, Close, Packet,
      opVars, serverVars, cacheVars, homeVars, StagesFit, WriteApplied,
      Released, InSession
<1>24. CASE NextTarget(n)
  BY <1>24, <1>a, <1>t DEF NextTarget, opVars, serverVars, cacheVars,
      StagesFit, WriteApplied, Released, InSession
<1>25. CASE EndBroadcast(n)
  BY <1>25
<1>26. CASE Accept(n)
  <2>1. \A i \in backlog[n] : rpc[i] = "backlog"
    BY <1>a, <1>t DEF SessionsPaired
  <2> QED
    BY <1>26, <2>1, <1>t DEF Accept, opVars, WriteApplied, Released, InSession
<1>27. CASE HandleReset(n)
  BY <1>27, <1>a, <1>t DEF HandleReset, cacheVars, homeVars, StagesFit,
      WriteApplied, Released, InSession
<1>28. CASE HandleLocks(n)
  <2>1. PICK c \in Node : HandleLocks(n)!(c)
    BY <1>28 DEF HandleLocks
  <2>2. rpc[c] = "sent" /\ stage[c] # "access" /\ (stage[c] = "unlock" \/ stage[c] = "lock")
    BY <1>a, <2>1, ServedClient DEF Receives
  <2> QED
    BY <2>1, <2>2, <1>t DEF Answer, Packet, opVars, netVars, WriteApplied,
        Released, InSession
<1>29. CASE HandleRead(n)
  <2>1. PICK c \in Node : HandleRead(n)!(c)
    BY <1>29 DEF HandleRead
  <2>2. rpc[c] = "sent" /\ op[c].kind = "READ"
    BY <1>a, <2>1, ServedClient DEF Receives
  <2> QED
    BY <2>1, <2>2, <1>t DEF Answer, Packet, opVars, netVars, WriteApplied,
        Released, InSession
<1>30. CASE HandleWrite(n)
  BY <1>30
<1>31. CASE StartInvalidations(n)
  BY <1>31
<1>32. CASE HandleInvalidation(n)
  <2>1. PICK c \in Node : HandleInvalidation(n)!(c)
    BY <1>32 DEF HandleInvalidation
  <2>2. rpc[c] = "sent" /\ stage[c] \in {"bcast", "wbcast"}
    BY <1>a, <2>1, ServedClient DEF Receives
  <2> QED
    BY <2>1, <2>2, <1>t DEF Answer, Packet, opVars, netVars, WriteApplied,
        Released, InSession
<1> QED
  BY <1>1, <1>2, <1>3, <1>4, <1>5, <1>6, <1>7, <1>8, <1>9, <1>10, <1>11,
      <1>12, <1>13, <1>14, <1>15, <1>16, <1>17, <1>18, <1>19, <1>20, <1>21,
      <1>22, <1>23, <1>24, <1>25, <1>26, <1>27, <1>28, <1>29, <1>30, <1>31,
      <1>32 DEF Step, StartOp, ClientStep, ServerStep

\* When Home's own write is applied, its word is stored and its list is empty.
LEMMA HomeApplies ==
    ASSUME CoherenceInv, NEW n \in Node, Step(n), LocalWrite(n) \/ EndBroadcast(n),
           NEW b \in Addr, WriteApplied(Home, b)'
    PROVE  /\ stage'[Home] = "unlock" /\ op[Home].addr = b /\ targets' = << >>
           /\ dir' = [dir EXCEPT ![b] = WrittenAtHome(op[Home].val)]
<1>a. Typed /\ StagesFit /\ MessagesFit /\ SessionsPaired
  BY TypesHold DEF CoherenceInv, FreshInv
<1>t. /\ stage \in [Node -> Stage] /\ rpc \in [Node -> Rpc]
      /\ serve \in [Node -> {"off", "listen", "session"}]
      /\ peer \in [Node -> Node] /\ backlog \in [Node -> SUBSET Node]
      /\ op \in [Node -> Operation] /\ msg \in [Node -> Message]
  BY <1>a DEF Typed
<1>1. n = Home /\ op' = op
  BY HomeStores
<1>2. op[Home].addr = b
  BY <1>1 DEF WriteApplied
<1>3. CASE LocalWrite(n)
  <2>1. targets = << >>
    BY <1>1, <1>3, <1>a DEF LocalWrite, StagesFit
  <2>2. ~ NeedsInvalidation(dir[op[n].addr])
    BY <1>1, <1>3, <1>t DEF LocalWrite, Enter, WriteApplied
  <2> QED
    BY <1>1, <1>2, <1>3, <2>1, <2>2, <1>t DEF LocalWrite, Enter
<1>4. CASE EndBroadcast(n)
  BY <1>1, <1>2, <1>4, <1>t DEF EndBroadcast, Enter, WriteApplied
<1> QED
  BY <1>3, <1>4

\* The only writer's applied write stays at home, and Home has nothing left to
\* invalidate when the writer is released.
LEMMA WritesAppliedStep ==
    ASSUME CoherenceInv, NEW n \in Node, Step(n)
    PROVE  WritesApplied'
<1>a. Typed /\ StagesFit /\ MessagesFit /\ SessionsPaired
  BY TypesHold DEF CoherenceInv, FreshInv
<1>t. /\ stage \in [Node -> Stage] /\ rpc \in [Node -> Rpc]
      /\ serve \in [Node -> {"off", "listen", "session"}]
      /\ peer \in [Node -> Node] /\ backlog \in [Node -> SUBSET Node]
      /\ op \in [Node -> Operation] /\ msg \in [Node -> Message]
  BY <1>a DEF Typed
<1>d. /\ dir \in [Addr -> SaveData]
      /\ \A e \in Addr : dir[e].sharers \in Seq(Node)
      /\ targets \in Seq(Node) /\ victim \in Addr
  BY <1>a DEF Typed
<1> SUFFICES ASSUME NEW b \in Addr, NEW i \in Node, SingleWriter(b),
                    WriteApplied(i, b)'
             PROVE  /\ dir'[b].data = op'[i].val
                    /\ Released(i)' => targets' = << >> \/ victim' # b
  BY DEF WritesApplied, SingleWriter, Released
<1>w. WriteApplied(i, b) =>
          /\ i \in MayWrite[b] /\ dir[b].data = op[i].val
          /\ Released(i) => targets = << >> \/ victim # b
  BY <1>a DEF CoherenceInv, WritesApplied, Released, WriteApplied, MessagesFit
<1>1. CASE HandleWrite(n) \/ StartInvalidations(n)
  <2>1. PICK c \in Node :
            /\ op[c].addr \in Addr /\ c \in MayWrite[op[c].addr] /\ c # n /\ n = Home
            /\ stage[c] = "access" /\ rpc[c] = "sent"
            /\ stage[n] \in {"idle", "recall"} /\ rpc[n] = "none"
            /\ targets = << >>
            /\ dir' = [dir EXCEPT ![op[c].addr] = Written(c, op[c].val)]
            /\ op' = op
            /\ \A j \in Node \ {c, Home} : rpc'[j] = rpc[j] /\ stage'[j] = stage[j]
            /\ stage'[c] = "access" /\ rpc'[c] = "answered"
            /\ \/ targets' = << >> /\ stage'[Home] = stage[Home] /\ rpc'[Home] = "none"
               \/ /\ msg'[c].imm = "INVALIDATE" /\ victim' = op[c].addr
                  /\ stage'[Home] = "bcast"
    BY <1>1, WriteHandled
  <2>2. CASE i = c
    <3>1. op[c].addr = b
      BY <2>1, <2>2 DEF WriteApplied
    <3>2. dir'[b].data = op'[i].val
      BY <2>1, <2>2, <3>1, <1>d DEF Written
    <3>3. Released(i)' => targets' = << >>
      BY <2>1, <2>2 DEF Released, InSession
    <3> QED
      BY <3>2, <3>3
  <2>3. CASE i # c
    <3>1. WriteApplied(i, b)
      BY <2>1, <2>3, NodesAssumption DEF WriteApplied
    <3>2. op[c].addr # b
      BY <3>1, <1>w, <2>1, <2>3 DEF SingleWriter
    <3>3. dir'[b] = dir[b]
      BY <2>1, <3>2, <1>d
    <3> QED
      BY <1>w, <2>1, <3>1, <3>2, <3>3
  <2> QED
    BY <2>2, <2>3
<1>2. CASE LocalWrite(n) \/ EndBroadcast(n)
  <2>1. /\ op' = op /\ UNCHANGED msg
        /\ \A j \in Node \ {Home} : rpc'[j] = rpc[j] /\ stage'[j] = stage[j]
        /\ \/ dir' = dir
           \/ /\ Home \in MayWrite[op[Home].addr] /\ op[Home].addr \in Addr
              /\ dir' = [dir EXCEPT ![op[Home].addr] = WrittenAtHome(op[Home].val)]
        /\ \/ targets' = << >>
           \/ /\ stage'[Home] = "wbcast" /\ victim' = op[Home].addr
              /\ Home \in MayWrite[op[Home].addr]
              /\ dir' = dir
    BY <1>2, HomeStores
  <2>2. CASE i # Home
    <3>1. WriteApplied(i, b) /\ i \in MayWrite[b]
      BY <1>w, <2>1, <2>2 DEF WriteApplied
    <3>2. dir'[b] = dir[b]
      BY <2>1, <2>2, <3>1, <1>d DEF SingleWriter
    <3>3. targets' = << >> \/ victim' # b
      BY <2>1, <2>2, <3>1 DEF SingleWriter
    <3> QED
      BY <1>w, <2>1, <3>1, <3>2, <3>3
  <2>3. CASE i = Home
    <3>1. /\ stage'[Home] = "unlock" /\ op[Home].addr = b
          /\ targets' = << >>
          /\ dir' = [dir EXCEPT ![b] = WrittenAtHome(op[Home].val)]
      BY <1>2, <2>3, HomeApplies
    <3> QED
      BY <2>1, <2>3, <3>1, <1>d DEF WrittenAtHome
  <2> QED
    BY <2>2, <2>3
<1>3. CASE ~ (HandleWrite(n) \/ StartInvalidations(n))
           /\ ~ (LocalWrite(n) \/ EndBroadcast(n))
  <2>1. /\ WriteApplied(i, b) /\ op'[i] = op[i]
        /\ Released(i)' => Released(i) \/ InSession(i)
    BY <1>3, WriteProgress
  <2>2. dir'[b].data = dir[b].data
    BY <1>3, WordsChange
  <2>3. Released(i)' => targets = << >> \/ victim # b
    <3>1. stage[i] \in {"access", "reconnect"} /\ InSession(i) => targets = << >>
      BY QuietHome
    <3>2. stage[i] \in {"unlock", "recall"} /\ InSession(i) => Released(i)
      BY <1>a DEF Released, StagesFit, InSession
    <3> QED
      BY <1>w, <2>1, <3>1, <3>2 DEF WriteApplied
  <2>4. (targets = << >> \/ victim # b) => (targets' = << >> \/ victim' # b)
    BY <1>3, TargetsFootprint DEF NextTarget
  <2> QED
    BY <1>w, <2>1, <2>2, <2>3, <2>4
<1> QED
  BY <1>1, <1>2, <1>3

-----------------------------------------------------------------------------
(* The invariant, and what it says of every behaviour.                     *)

\* The invariant holds when the processes start.
LEMMA CoherenceInvInit == ASSUME Init PROVE CoherenceInv
<1>1. FreshInv
  BY FreshInvInit
<1>2. SharersMarked
  BY DEF Init, SharersMarked
<1>3. CopiesListed /\ WriterFresh
  BY DataAssumption, NodesAssumption DEF Init, CopiesListed, WriterFresh
<1>4. HomeIsLocal /\ BroadcastFits
  BY NodesAssumption DEF Init, HomeIsLocal, BroadcastFits
<1>5. WritesApplied
  BY DEF Init, WritesApplied, WriteApplied
<1> QED
  BY <1>1, <1>2, <1>3, <1>4, <1>5 DEF CoherenceInv

\* No step of any process breaks the invariant.
LEMMA CoherenceInvStep == ASSUME CoherenceInv, [Next]_vars PROVE CoherenceInv'
<1>1. FreshInv'
  BY FreshInvStep DEF CoherenceInv
<1>2. ASSUME NEW n \in Node, Step(n) PROVE CoherenceInv'
  <2>1. HomeIsLocal'
    BY <1>2, HomeIsLocalStep, HomeCachesNothing DEF HomeIsLocal
  <2> QED
    BY <1>1, <1>2, <2>1, SharersMarkedStep, CopiesListedStep, WriterFreshStep,
       BroadcastFitsStep, WritesAppliedStep DEF CoherenceInv
<1>3. CASE UNCHANGED vars
  BY <1>1, <1>3 DEF vars, CoherenceInv, SharersMarked, CopiesListed, Sharers,
     Scheduled, WriterFresh, WriteInFlight, HomeIsLocal, BroadcastFits,
     WritesApplied, WriteApplied, Released, InSession
<1> QED
  BY <1>2, <1>3 DEF Next

\* Home knows of every copy, and of what its broadcast has still to do.
THEOREM CoherenceInvariant == Spec => []CoherenceInv
  BY CoherenceInvInit, CoherenceInvStep, PTL DEF Spec

\* A copy that is listed is fresh, and so is the writer's.
LEMMA CoherentByInvariant == ASSUME CoherenceInv PROVE SingleWriterCoherence
<1> SUFFICES ASSUME NEW a \in Addr, SingleWriter(a), NEW n \in Node,
                    cache[n][a] # None, ~ Scheduled(n, a)
             PROVE  cache[n][a] \in {None, dir[a].data} \/ WriteInFlight(n, a)
  BY DEF SingleWriterCoherence
<1>1. n \in MayWrite[a] \/ n \in Sharers(a)
  BY DEF CoherenceInv, CopiesListed
<1>2. CASE n \in MayWrite[a]
  BY <1>2 DEF CoherenceInv, WriterFresh
<1>3. CASE n \in Sharers(a)
  BY <1>3 DEF CoherenceInv, FreshInv, DirectoryFresh
<1> QED
  BY <1>1, <1>2, <1>3

\* In any deployment, with any failures: when one node does all the writing of
\* an address, a copy is the word at home, or its own write on its way, or on
\* the list that startInvalidations or write is working through.
THEOREM SingleWriterStaysCoherent == Spec => []SingleWriterCoherence
  BY CoherentByInvariant, CoherenceInvariant, PTL

\* In any deployment, with any failures: when the only writer of an address
\* goes on to release its lock, no node has an old copy any more.
THEOREM WritesReturnVisible == Spec => []WriteVisibleWhenReturned
<1>1. ASSUME CoherenceInv PROVE WriteVisibleWhenReturned
  <2> SUFFICES ASSUME NEW a \in Addr, NEW n \in Node, SingleWriter(a),
                      WriteApplied(n, a), stage[n] = "unlock"
               PROVE  /\ dir[a].data = op[n].val
                      /\ \A m \in Node : cache[m][a] \in {None, op[n].val}
    BY DEF WriteVisibleWhenReturned
  <2>1. dir[a].data = op[n].val /\ (targets = << >> \/ victim # a)
    BY <1>1 DEF CoherenceInv, WritesApplied, Released
  <2>2. ASSUME NEW m \in Node PROVE ~ Scheduled(m, a) /\ ~ WriteInFlight(m, a)
    <3>1. ~ Scheduled(m, a)
      BY <2>1, RangeOfEmpty DEF Scheduled
    <3>2. WriteInFlight(m, a) => m = n
      BY <1>1 DEF CoherenceInv, FreshInv, MessagesFit, WriteInFlight,
          WriteApplied, SingleWriter
    <3> QED
      BY <3>1, <3>2 DEF WriteInFlight
  <2> QED
    BY <1>1, <2>1, <2>2, CoherentByInvariant DEF SingleWriterCoherence
<1> QED
  BY <1>1, CoherenceInvariant, PTL

-----------------------------------------------------------------------------
(* Reads.                                                                  *)


\* A read that is over has its value.
LEMMA ReadsAnsweredStep ==
    ASSUME AtomicityInv, NEW n \in Node, Step(n)
    PROVE  ReadsAnswered'
<1>a. Typed /\ StagesFit /\ MessagesFit /\ SessionsPaired
  BY TypesHold DEF AtomicityInv, CoherenceInv, FreshInv
<1>t. /\ stage \in [Node -> Stage] /\ rpc \in [Node -> Rpc]
      /\ serve \in [Node -> {"off", "listen", "session"}]
      /\ peer \in [Node -> Node] /\ backlog \in [Node -> SUBSET Node]
      /\ op \in [Node -> Operation] /\ msg \in [Node -> Message]
  BY <1>a DEF Typed
<1>r. ReadsAnswered /\ ReadsHit /\ HomeIsLocal
  BY DEF AtomicityInv, CoherenceInv
<1>1. CASE Serve(n)
  BY <1>1, <1>a, <1>t, <1>r, NodesAssumption DEF Serve, opVars, netVars,
      cacheVars, homeVars, StagesFit, ReadsAnswered
<1>2. CASE \E a \in Addr : StartRead(n, a)
  BY <1>2, <1>a, <1>t, <1>r, NodesAssumption DEF StartRead, Start, Enter,
      LockPhase, serverVars, cacheVars, homeVars, StagesFit, ReadsAnswered
<1>3. CASE \E a \in Addr, v \in Value : StartWrite(n, a, v)
  BY <1>3, <1>a, <1>t, <1>r, NodesAssumption DEF StartWrite, Start, Enter,
      LockPhase, serverVars, cacheVars, homeVars, StagesFit, ReadsAnswered
<1>4. CASE Connect(n)
  BY <1>4, <1>a, <1>t, <1>r, NodesAssumption DEF Connect, opVars, cacheVars,
      homeVars, StagesFit, ReadsAnswered
<1>5. CASE GiveUp(n)
  BY <1>5, <1>a, <1>t, <1>r, NodesAssumption DEF GiveUp, Die, opVars, netVars,
      serverVars, homeVars, StagesFit, ReadsAnswered
<1>6. CASE LockLocally(n)
  BY <1>6, <1>a, <1>t, <1>r, NodesAssumption DEF LockLocally, SetLock, Enter,
      Wanted, AccessPhase, serverVars, cacheVars, homeVars, StagesFit,
      ReadsAnswered
<1>7. CASE UnlockLocally(n)
  BY <1>7, <1>a, <1>t, <1>r, NodesAssumption DEF UnlockLocally, SetLock, Enter,
      serverVars, cacheVars, homeVars, StagesFit, ReadsAnswered
<1>8. CASE CallLock(n)
  BY <1>8, <1>a, <1>t, <1>r, NodesAssumption DEF CallLock, Call, Packet,
      Wanted, opVars, serverVars, cacheVars, homeVars, StagesFit, ReadsAnswered
<1>9. CASE LockAnswered(n)
  BY <1>9, <1>a, <1>t, <1>r, NodesAssumption DEF LockAnswered, Answered, Close,
      Packet, serverVars, cacheVars, homeVars, StagesFit, ReadsAnswered
<1>10. CASE EnterAccess(n)
  BY <1>10, <1>a, <1>t, <1>r, NodesAssumption DEF EnterAccess, Enter,
      AccessPhase, serverVars, cacheVars, homeVars, StagesFit, ReadsAnswered
<1>11. CASE EnterUnlock(n)
  BY <1>11, <1>a, <1>t, <1>r, NodesAssumption DEF EnterUnlock, Enter, StagesFit,
      HomeIsLocal, ReadsAnswered
<1>12. CASE Return(n)
  BY <1>12, <1>a, <1>t, <1>r, NodesAssumption DEF Return, Enter, Die,
      serverVars, homeVars, StagesFit, ReadsAnswered
<1>13. CASE CachedRead(n)
  <2>1. cache[n][op[n].addr] # None
    BY <1>13, <1>r DEF CachedRead, ReadsHit
  <2> QED
    BY <1>13, <2>1, <1>a, <1>t, <1>r DEF CachedRead, ReadValue, Enter,
        LockPhase, ReadsAnswered
<1>14. CASE LocalRead(n)
  BY <1>14, <1>a, <1>t, <1>r DEF LocalRead, ReadValue, Enter, ReadsAnswered
<1>15. CASE CallRead(n)
  BY <1>15, <1>a, <1>t, <1>r, NodesAssumption DEF CallRead, Call, Packet,
      opVars, serverVars, cacheVars, homeVars, StagesFit, ReadsAnswered
<1>16. CASE ReadReturned(n)
  <2>1. msg[n].val # None
    BY <1>16, <1>a, DataAssumption DEF ReadReturned, Answered, MessagesFit
  <2> QED
    BY <1>16, <2>1, <1>a, <1>t, <1>r DEF ReadReturned, Answered, ReadValue, Close,
        netVars, ReadsAnswered
<1>17. CASE CallWrite(n)
  BY <1>17, <1>a, <1>t, <1>r, NodesAssumption DEF CallWrite, AlterCacheItem,
      AddCacheItem, Call, Packet, opVars, netVars, serverVars, homeVars,
      StagesFit, ReadsAnswered
<1>18. CASE WriteReturned(n)
  BY <1>18, <1>a, <1>t, <1>r, NodesAssumption DEF WriteReturned, Answered,
      Close, Packet, opVars, serverVars, cacheVars, homeVars, StagesFit,
      ReadsAnswered
<1>19. CASE WriteRecalled(n)
  BY <1>19, <1>a, <1>t, <1>r, NodesAssumption DEF WriteRecalled, Answered,
      Enter, cacheVars, homeVars, StagesFit, ReadsAnswered
<1>20. CASE CloseReconnected(n)
  BY <1>20, <1>a, <1>t, <1>r, NodesAssumption DEF CloseReconnected, Close,
      Packet, opVars, serverVars, cacheVars, homeVars, StagesFit, ReadsAnswered
<1>21. CASE LocalWrite(n)
  BY <1>21, <1>a, <1>t, <1>r, NodesAssumption DEF LocalWrite, Enter, LockPhase,
      WrittenAtHome, serverVars, cacheVars, StagesFit, ReadsAnswered
<1>22. CASE CallInvalidate(n)
  BY <1>22, <1>a, <1>t, <1>r, NodesAssumption DEF CallInvalidate, Call, Packet,
      opVars, serverVars, cacheVars, homeVars, StagesFit, ReadsAnswered
<1>23. CASE InvalidationAnswered(n)
  BY <1>23, <1>a, <1>t, <1>r, NodesAssumption DEF InvalidationAnswered,
      Answered, Close, Packet, opVars, serverVars, cacheVars, homeVars,
      StagesFit, ReadsAnswered
<1>24. CASE NextTarget(n)
  BY <1>24, <1>a, <1>t, <1>r, NodesAssumption DEF NextTarget, opVars,
      serverVars, cacheVars, StagesFit, ReadsAnswered
<1>25. CASE EndBroadcast(n)
  BY <1>25, <1>a, <1>t, <1>r, NodesAssumption DEF EndBroadcast, Enter,
      LockPhase, WrittenAtHome, serverVars, cacheVars, StagesFit, ReadsAnswered
<1>26. CASE Accept(n)
  <2>1. \A i \in backlog[n] : rpc[i] = "backlog"
    BY <1>a, <1>t DEF SessionsPaired
  <2> QED
    BY <1>26, <2>1, <1>a, <1>t, <1>r, NodesAssumption DEF Accept, opVars, Die,
        StagesFit, ReadsAnswered
<1>27. CASE HandleReset(n)
  BY <1>27, <1>a, <1>t, <1>r, NodesAssumption DEF HandleReset, cacheVars,
      homeVars, StagesFit, ReadsAnswered
<1>28. CASE HandleLocks(n)
  <2>1. PICK c \in Node : HandleLocks(n)!(c)
    BY <1>28 DEF HandleLocks
  <2>2. rpc[c] = "sent" /\ stage[c] \in {"lock", "unlock"}
    BY <1>a, <2>1, ServedClient DEF Receives
  <2> QED
    BY <2>1, <2>2, <1>a, <1>t, <1>r, NodesAssumption DEF Answer, Packet,
        opVars, netVars, StagesFit, ReadsAnswered
<1>29. CASE HandleRead(n)
  <2>1. PICK c \in Node : HandleRead(n)!(c)
    BY <1>29 DEF HandleRead
  <2>2. rpc[c] = "sent" /\ stage[c] = "access" /\ op[c].kind = "READ"
    BY <1>a, <2>1, ServedClient DEF Receives
  <2> QED
    BY <2>1, <2>2, <1>a, <1>t, <1>r, NodesAssumption DEF Answer, Packet,
        opVars, netVars, StagesFit, ReadsAnswered
<1>30. CASE HandleWrite(n)
  <2>1. PICK c \in Node : HandleWrite(n)!(c)
    BY <1>30 DEF HandleWrite
  <2>2. rpc[c] = "sent" /\ stage[c] = "access" /\ op[c].kind = "WRITE"
    BY <1>a, <2>1, ServedClient DEF Receives
  <2> QED
    BY <2>1, <2>2, <1>a, <1>t, <1>r, NodesAssumption DEF Answer, Packet,
        opVars, netVars, StagesFit, ReadsAnswered
<1>31. CASE StartInvalidations(n)
  <2>1. PICK c \in Node : StartInvalidations(n)!(c)
    BY <1>31 DEF StartInvalidations
  <2>2. rpc[c] = "sent" /\ stage[c] = "access" /\ op[c].kind = "WRITE"
    BY <1>a, <2>1, ServedClient DEF Receives
  <2> QED
    BY <2>1, <2>2, <1>a, <1>t, <1>r, NodesAssumption DEF Packet, opVars,
        netVars, cacheVars, StagesFit, ReadsAnswered
<1>32. CASE HandleInvalidation(n)
  <2>1. PICK c \in Node : HandleInvalidation(n)!(c)
    BY <1>32 DEF HandleInvalidation
  <2>2. rpc[c] = "sent" /\ stage[c] \in {"bcast", "wbcast"}
    BY <1>a, <2>1, ServedClient DEF Receives
  <2> QED
    BY <2>1, <2>2, <1>a, <1>t, <1>r, NodesAssumption DEF Answer, Packet,
        opVars, netVars, StagesFit, ReadsAnswered
<1> QED
  BY <1>1, <1>2, <1>3, <1>4, <1>5, <1>6, <1>7, <1>8, <1>9, <1>10, <1>11, <1>12,
      <1>13, <1>14, <1>15, <1>16, <1>17, <1>18, <1>19, <1>20, <1>21, <1>22,
      <1>23, <1>24, <1>25, <1>26, <1>27, <1>28, <1>29, <1>30, <1>31, <1>32 DEF
      Step, StartOp, ClientStep, ServerStep

\* A reader that found the item in its cache does not lose it.
LEMMA ReadsHitStep ==
    ASSUME AtomicityInv, NEW n \in Node, Step(n)
    PROVE  ReadsHit'
<1>a. Typed /\ StagesFit /\ MessagesFit /\ SessionsPaired
  BY TypesHold DEF AtomicityInv, CoherenceInv, FreshInv
<1>t. /\ stage \in [Node -> Stage] /\ rpc \in [Node -> Rpc]
      /\ serve \in [Node -> {"off", "listen", "session"}]
      /\ peer \in [Node -> Node] /\ backlog \in [Node -> SUBSET Node]
      /\ op \in [Node -> Operation] /\ msg \in [Node -> Message]
  BY <1>a DEF Typed
<1>r. ReadsHit
  BY DEF AtomicityInv
<1>b. \A i \in Node : op[i].addr \in Addr
  BY <1>a DEF Typed
<1>c. /\ cache \in [Node -> [Addr -> Value \cup {None}]]
      /\ status \in [Node -> Status]
  BY <1>a DEF Typed, AtomicityInv, CoherenceInv, FreshInv, TypeOK, ControlTypeOK
<1>1. CASE Serve(n)
  BY <1>1, <1>a, <1>t, <1>r, <1>c DEF Serve, opVars, netVars, cacheVars,
      homeVars, StagesFit, ReadsHit
<1>2. CASE \E a \in Addr : StartRead(n, a)
  BY <1>2, <1>a, <1>t, <1>r, <1>c DEF StartRead, Start, Enter, LockPhase,
      serverVars, cacheVars, homeVars, StagesFit, ReadsHit
<1>3. CASE \E a \in Addr, v \in Value : StartWrite(n, a, v)
  BY <1>3, <1>a, <1>t, <1>r, <1>c DEF StartWrite, Start, Enter, LockPhase,
      serverVars, cacheVars, homeVars, StagesFit, ReadsHit
<1>4. CASE Connect(n)
  BY <1>4, <1>a, <1>t, <1>r, <1>c DEF Connect, opVars, cacheVars, homeVars,
      StagesFit, ReadsHit
<1>5. CASE GiveUp(n)
  BY <1>5, <1>t, <1>r, <1>c DEF GiveUp, Die, opVars, netVars, ReadsHit
<1>6. CASE LockLocally(n)
  BY <1>6, <1>a, <1>t, <1>r, <1>c DEF LockLocally, SetLock, Enter, Wanted,
      AccessPhase, serverVars, cacheVars, homeVars, StagesFit, ReadsHit
<1>7. CASE UnlockLocally(n)
  BY <1>7, <1>a, <1>t, <1>r, <1>c DEF UnlockLocally, SetLock, Enter,
      serverVars, cacheVars, homeVars, StagesFit, ReadsHit
<1>8. CASE CallLock(n)
  BY <1>8, <1>t, <1>r DEF CallLock, Call, opVars, cacheVars, ReadsHit
<1>9. CASE LockAnswered(n)
  BY <1>9, <1>a, <1>t, <1>r, <1>c DEF LockAnswered, Answered, Close, Packet,
      serverVars, cacheVars, homeVars, StagesFit, ReadsHit
<1>10. CASE EnterAccess(n)
  BY <1>10, <1>a, <1>t, <1>r, <1>c DEF EnterAccess, Enter, AccessPhase,
      serverVars, cacheVars, homeVars, StagesFit, ReadsHit
<1>11. CASE EnterUnlock(n)
  BY <1>11, <1>a, <1>t, <1>r, <1>c DEF EnterUnlock, Enter, LockPhase,
      serverVars, cacheVars, homeVars, StagesFit, ReadsHit
<1>12. CASE Return(n)
  BY <1>12, <1>a, <1>t, <1>r, <1>c DEF Return, Enter, Die, serverVars,
      homeVars, StagesFit, ReadsHit
<1>13. CASE CachedRead(n)
  BY <1>13, <1>a, <1>t, <1>r, <1>c DEF CachedRead, ReadValue, Enter, LockPhase,
      serverVars, cacheVars, homeVars, StagesFit, ReadsHit
<1>14. CASE LocalRead(n)
  BY <1>14, <1>a, <1>t, <1>r, <1>c DEF LocalRead, ReadValue, Enter, LockPhase,
      serverVars, cacheVars, homeVars, StagesFit, ReadsHit
<1>15. CASE CallRead(n)
  BY <1>15, <1>a, <1>t, <1>r, <1>c DEF CallRead, Call, Packet, opVars,
      serverVars, cacheVars, homeVars, StagesFit, ReadsHit
<1>16. CASE ReadReturned(n)
  <2>1. \A i \in Node \ {n}, b \in Addr : cache'[i][b] = cache[i][b]
    BY <1>16, <1>c DEF ReadReturned, AddCacheItem, cacheVars
  <2>2. /\ \A i \in Node \ {n} : rpc'[i] = rpc[i] /\ op'[i] = op[i]
        /\ stage' = stage /\ rpc'[n] # "none"
    BY <1>16, <1>t DEF ReadReturned, Answered, ReadValue, Close, netVars
  <2>3. \A i \in Node \ {n} : status'[i] = status[i]
    BY <1>16, <1>c DEF ReadReturned, AddCacheItem
  <2> QED
    BY <2>1, <2>2, <2>3, <1>b, <1>r DEF ReadsHit
<1>17. CASE CallWrite(n)
  <2>1. \A i \in Node \ {n}, b \in Addr : cache'[i][b] = cache[i][b]
    BY <1>17, <1>c DEF CallWrite, AlterCacheItem, AddCacheItem, cacheVars
  <2>2. \A i \in Node \ {n} : rpc'[i] = rpc[i] /\ op'[i] = op[i]
    BY <1>17, <1>t DEF CallWrite, Call, opVars, netVars
  <2>3. stage' = stage /\ rpc'[n] # "none"
    BY <1>17, <1>t DEF CallWrite, Call, opVars, netVars
  <2>4. \A i \in Node \ {n} : status'[i] = status[i]
    BY <1>17, <1>c DEF CallWrite, AlterCacheItem, AddCacheItem
  <2> QED
    BY <2>1, <2>2, <2>3, <2>4, <1>b, <1>r DEF ReadsHit
<1>18. CASE WriteReturned(n)
  BY <1>18, <1>a, <1>t, <1>r, <1>c DEF WriteReturned, Answered, Close, Packet,
      opVars, serverVars, cacheVars, homeVars, StagesFit, ReadsHit
<1>19. CASE WriteRecalled(n)
  BY <1>19, <1>a, <1>t, <1>r, <1>c DEF WriteRecalled, Answered, Enter,
      cacheVars, homeVars, StagesFit, ReadsHit
<1>20. CASE CloseReconnected(n)
  BY <1>20, <1>a, <1>t, <1>r, <1>c DEF CloseReconnected, Close, Packet, opVars,
      serverVars, cacheVars, homeVars, StagesFit, ReadsHit
<1>21. CASE LocalWrite(n)
  BY <1>21, <1>a, <1>t, <1>r, <1>c DEF LocalWrite, Enter, LockPhase,
      WrittenAtHome, serverVars, cacheVars, StagesFit, ReadsHit
<1>22. CASE CallInvalidate(n)
  BY <1>22, <1>a, <1>t, <1>r, <1>c DEF CallInvalidate, Call, Packet, opVars,
      serverVars, cacheVars, homeVars, StagesFit, ReadsHit
<1>23. CASE InvalidationAnswered(n)
  BY <1>23, <1>a, <1>t, <1>r, <1>c DEF InvalidationAnswered, Answered, Close,
      Packet, opVars, serverVars, cacheVars, homeVars, StagesFit, ReadsHit
<1>24. CASE NextTarget(n)
  BY <1>24, <1>a, <1>t, <1>r, <1>c DEF NextTarget, opVars, serverVars,
      cacheVars, StagesFit, ReadsHit
<1>25. CASE EndBroadcast(n)
  BY <1>25, <1>a, <1>t, <1>r, <1>c DEF EndBroadcast, Enter, LockPhase,
      WrittenAtHome, serverVars, cacheVars, StagesFit, ReadsHit
<1>26. CASE Accept(n)
  <2>1. \A i \in backlog[n] : rpc[i] = "backlog"
    BY <1>a, <1>t DEF SessionsPaired
  <2> QED
    BY <1>26, <2>1, <1>a, <1>t, <1>r, <1>c DEF Accept, opVars, Die, StagesFit,
        ReadsHit
<1>27. CASE HandleReset(n)
  <2>1. /\ op' = op /\ cache' = cache /\ status' = status
        /\ \A i \in Node : /\ stage'[i] = "access" => stage[i] = "access"
                           /\ rpc'[i] = "none" => rpc[i] = "none"
    BY <1>27, <1>t DEF HandleReset, cacheVars
  <2> QED
    BY <2>1, <1>r DEF ReadsHit
<1>28. CASE HandleLocks(n)
  <2>1. PICK c \in Node : HandleLocks(n)!(c)
    BY <1>28 DEF HandleLocks
  <2>2. rpc[c] = "sent" /\ stage[c] \in {"lock", "unlock"}
    BY <1>a, <2>1, ServedClient DEF Receives
  <2> QED
    BY <2>1, <2>2, <1>a, <1>t, <1>r, <1>c DEF Answer, Packet, opVars, netVars,
        cacheVars, Die, StagesFit, ReadsHit
<1>29. CASE HandleRead(n)
  <2>1. PICK c \in Node : HandleRead(n)!(c)
    BY <1>29 DEF HandleRead
  <2>2. op' = op /\ stage' = stage
    BY <2>1 DEF opVars
  <2>3. \A i \in Node : rpc'[i] = "none" => rpc[i] = "none"
    BY <2>1, <1>t DEF Answer, netVars
  <2>4. \A i \in Node, b \in Addr :
            status'[i] = "up" => status[i] = "up" /\ cache'[i][b] = cache[i][b]
    BY <2>1, <1>c DEF Die
  <2> QED
    BY <2>2, <2>3, <2>4, <1>b, <1>r DEF ReadsHit
<1>30. CASE HandleWrite(n)
  <2>1. PICK c \in Node : HandleWrite(n)!(c)
    BY <1>30 DEF HandleWrite
  <2>2. rpc[c] = "sent" /\ stage[c] = "access" /\ op[c].kind = "WRITE"
    BY <1>a, <2>1, ServedClient DEF Receives
  <2> QED
    BY <2>1, <2>2, <1>a, <1>t, <1>r, <1>c DEF Answer, Packet, opVars, netVars,
        cacheVars, Die, StagesFit, ReadsHit
<1>31. CASE StartInvalidations(n)
  <2>1. PICK c \in Node : StartInvalidations(n)!(c)
    BY <1>31 DEF StartInvalidations
  <2>2. rpc[c] = "sent" /\ stage[c] = "access" /\ op[c].kind = "WRITE"
    BY <1>a, <2>1, ServedClient DEF Receives
  <2> QED
    BY <2>1, <2>2, <1>a, <1>t, <1>r, <1>c DEF Packet, opVars, netVars,
        cacheVars, Die, StagesFit, ReadsHit
<1>32. CASE HandleInvalidation(n)
  <2>1. PICK c \in Node : HandleInvalidation(n)!(c)
    BY <1>32 DEF HandleInvalidation
  <2>2. rpc[c] = "sent" /\ stage[c] \in {"bcast", "wbcast"} /\ stage[n] \in {"idle", "recall"}
    BY <1>a, <2>1, ServedClient DEF Receives
  <2> QED
    BY <2>1, <2>2, <1>t, <1>r, <1>c DEF Answer, opVars, ReadsHit
<1> QED
  BY <1>1, <1>2, <1>3, <1>4, <1>5, <1>6, <1>7, <1>8, <1>9, <1>10, <1>11, <1>12,
      <1>13, <1>14, <1>15, <1>16, <1>17, <1>18, <1>19, <1>20, <1>21, <1>22,
      <1>23, <1>24, <1>25, <1>26, <1>27, <1>28, <1>29, <1>30, <1>31, <1>32 DEF
      Step, StartOp, ClientStep, ServerStep

-----------------------------------------------------------------------------
(* Old copies.                                                             *)

\* An applied write stays applied until its writer is released.
LEMMA WritesRemain ==
    ASSUME CoherenceInv, NEW n \in Node, Step(n), NEW i \in Node, NEW b \in Addr,
           WriteApplied(i, b), ~ Released(i)
    PROVE  WriteApplied(i, b)'
<1>a. Typed /\ StagesFit /\ MessagesFit /\ SessionsPaired
  BY TypesHold DEF CoherenceInv, FreshInv
<1>t. /\ stage \in [Node -> Stage] /\ rpc \in [Node -> Rpc]
      /\ serve \in [Node -> {"off", "listen", "session"}]
      /\ peer \in [Node -> Node] /\ backlog \in [Node -> SUBSET Node]
      /\ op \in [Node -> Operation] /\ msg \in [Node -> Message]
  BY <1>a DEF Typed
<1>h. HomeIsLocal
  BY DEF CoherenceInv
<1>1. CASE Serve(n)
  BY <1>1, <1>a, <1>t DEF Serve, opVars, netVars, cacheVars, homeVars,
      StagesFit, WriteApplied, Released
<1>2. CASE \E a \in Addr : StartRead(n, a)
  BY <1>2, <1>a, <1>t DEF StartRead, Start, Enter, LockPhase, serverVars,
      cacheVars, homeVars, StagesFit, WriteApplied, Released
<1>3. CASE \E a \in Addr, v \in Value : StartWrite(n, a, v)
  BY <1>3, <1>a, <1>t DEF StartWrite, Start, Enter, LockPhase, serverVars,
      cacheVars, homeVars, StagesFit, WriteApplied, Released
<1>4. CASE Connect(n)
  BY <1>4, <1>a, <1>t DEF Connect, opVars, cacheVars, homeVars, StagesFit,
      WriteApplied, Released
<1>5. CASE GiveUp(n)
  BY <1>5, <1>a, <1>t DEF GiveUp, Die, opVars, netVars, serverVars, homeVars,
      StagesFit, WriteApplied, Released
<1>6. CASE LockLocally(n)
  BY <1>6, <1>a, <1>t DEF LockLocally, SetLock, Enter, Wanted, AccessPhase,
      serverVars, cacheVars, homeVars, StagesFit, WriteApplied, Released
<1>7. CASE UnlockLocally(n)
  BY <1>7, <1>a, <1>t DEF UnlockLocally, SetLock, Enter, serverVars, cacheVars,
      homeVars, StagesFit, WriteApplied, Released
<1>8. CASE CallLock(n)
  BY <1>8, <1>a, <1>t DEF CallLock, Call, Packet, Wanted, opVars, serverVars,
      cacheVars, homeVars, StagesFit, WriteApplied, Released
<1>9. CASE LockAnswered(n)
  BY <1>9, <1>a, <1>t DEF LockAnswered, Answered, Close, Packet, serverVars,
      cacheVars, homeVars, StagesFit, WriteApplied, Released
<1>10. CASE EnterAccess(n)
  BY <1>10, <1>a, <1>t DEF EnterAccess, Enter, AccessPhase, serverVars,
      cacheVars, homeVars, StagesFit, WriteApplied, Released
<1>11. CASE EnterUnlock(n)
  BY <1>11, <1>a, <1>t DEF EnterUnlock, Enter, LockPhase, serverVars,
      cacheVars, homeVars, StagesFit, WriteApplied, Released
<1>12. CASE Return(n)
  BY <1>12, <1>a, <1>t DEF Return, Enter, Die, serverVars, homeVars, StagesFit,
      WriteApplied, Released
<1>13. CASE CachedRead(n)
  BY <1>13, <1>a, <1>t DEF CachedRead, ReadValue, Enter, LockPhase, serverVars,
      cacheVars, homeVars, StagesFit, WriteApplied, Released
<1>14. CASE LocalRead(n)
  BY <1>14, <1>a, <1>t DEF LocalRead, ReadValue, Enter, LockPhase, serverVars,
      cacheVars, homeVars, StagesFit, WriteApplied, Released
<1>15. CASE CallRead(n)
  BY <1>15, <1>a, <1>t DEF CallRead, Call, Packet, opVars, serverVars,
      cacheVars, homeVars, StagesFit, WriteApplied, Released
<1>16. CASE ReadReturned(n)
  BY <1>16, <1>a, <1>t DEF ReadReturned, Answered, ReadValue, AddCacheItem,
      Close, Packet, netVars, serverVars, cacheVars, homeVars, StagesFit,
      WriteApplied, Released
<1>17. CASE CallWrite(n)
  BY <1>17, <1>a, <1>t DEF CallWrite, AlterCacheItem, AddCacheItem, Call,
      Packet, opVars, netVars, serverVars, homeVars, StagesFit, WriteApplied,
      Released
<1>18. CASE WriteReturned(n)
  BY <1>18, <1>a, <1>t DEF WriteReturned, Answered, Close, Packet, opVars,
      serverVars, cacheVars, homeVars, StagesFit, WriteApplied, Released
<1>19. CASE WriteRecalled(n)
  BY <1>19, <1>a, <1>t DEF WriteRecalled, Answered, Enter, cacheVars, homeVars,
      StagesFit, WriteApplied, Released
<1>20. CASE CloseReconnected(n)
  BY <1>20, <1>a, <1>t DEF CloseReconnected, Close, Packet, opVars, serverVars,
      cacheVars, homeVars, StagesFit, WriteApplied, Released
<1>21. CASE LocalWrite(n)
  BY <1>21, <1>a, <1>t DEF LocalWrite, Enter, LockPhase, WrittenAtHome,
      serverVars, cacheVars, StagesFit, WriteApplied, Released
<1>22. CASE CallInvalidate(n)
  BY <1>22, <1>a, <1>t DEF CallInvalidate, Call, Packet, opVars, serverVars,
      cacheVars, homeVars, StagesFit, WriteApplied, Released
<1>23. CASE InvalidationAnswered(n)
  BY <1>23, <1>a, <1>t DEF InvalidationAnswered, Answered, Close, Packet,
      opVars, serverVars, cacheVars, homeVars, StagesFit, WriteApplied,
      Released
<1>24. CASE NextTarget(n)
  BY <1>24, <1>a, <1>t DEF NextTarget, opVars, serverVars, cacheVars,
      StagesFit, WriteApplied, Released
<1>25. CASE EndBroadcast(n)
  BY <1>25, <1>a, <1>t DEF EndBroadcast, Enter, LockPhase, WrittenAtHome,
      serverVars, cacheVars, StagesFit, WriteApplied, Released
<1>26. CASE Accept(n)
  <2>1. \A c \in backlog[n] : rpc[c] = "backlog"
    BY <1>a, <1>t DEF SessionsPaired
  <2> QED
    BY <1>26, <2>1, <1>a, <1>t DEF Accept, opVars, Die, StagesFit,
        WriteApplied, Released
<1>27. CASE HandleReset(n)
  BY <1>27, <1>a, <1>t DEF HandleReset, cacheVars, homeVars, StagesFit,
      WriteApplied, Released
<1>28. CASE HandleLocks(n)
  <2>1. PICK c \in Node : HandleLocks(n)!(c)
    BY <1>28 DEF HandleLocks
  <2>2. rpc[c] = "sent" /\ stage[c] \in {"lock", "unlock"}
    BY <1>a, <2>1, ServedClient DEF Receives
  <2> QED
    BY <2>1, <2>2, <1>a, <1>t DEF Answer, Packet, opVars, netVars, StagesFit,
        WriteApplied, Released
<1>29. CASE HandleRead(n)
  <2>1. PICK c \in Node : HandleRead(n)!(c)
    BY <1>29 DEF HandleRead
  <2>2. rpc[c] = "sent" /\ stage[c] = "access" /\ op[c].kind = "READ"
    BY <1>a, <2>1, ServedClient DEF Receives
  <2> QED
    BY <2>1, <2>2, <1>a, <1>t DEF Answer, Packet, opVars, netVars, StagesFit,
        WriteApplied, Released
<1>30. CASE HandleWrite(n)
  BY <1>30, <1>h, WriteHandled, NodesAssumption DEF WriteApplied, HomeIsLocal
<1>31. CASE StartInvalidations(n)
  BY <1>31, <1>h, WriteHandled, NodesAssumption DEF WriteApplied, HomeIsLocal
<1>32. CASE HandleInvalidation(n)
  <2>1. PICK c \in Node : HandleInvalidation(n)!(c)
    BY <1>32 DEF HandleInvalidation
  <2>2. rpc[c] = "sent" /\ stage[c] \in {"bcast", "wbcast"}
    BY <1>a, <2>1, ServedClient DEF Receives
  <2> QED
    BY <2>1, <2>2, <1>a, <1>t DEF Answer, Packet, opVars, netVars, StagesFit,
        WriteApplied, Released
<1> QED
  BY <1>1, <1>2, <1>3, <1>4, <1>5, <1>6, <1>7, <1>8, <1>9, <1>10, <1>11, <1>12,
      <1>13, <1>14, <1>15, <1>16, <1>17, <1>18, <1>19, <1>20, <1>21, <1>22,
      <1>23, <1>24, <1>25, <1>26, <1>27, <1>28, <1>29, <1>30, <1>31, <1>32 DEF
      Step, StartOp, ClientStep, ServerStep

\* Whoever holds an old copy is on Home's list, so that Home broadcasts.
LEMMA OldCopiesScheduled ==
    ASSUME CoherenceInv, NEW a \in Addr, SingleWriter(a),
           NEW i \in StaleHolders(a)
    PROVE  /\ i \in Node \ MayWrite[a] /\ Scheduled(i, a) /\ targets # << >>
           /\ stage[Home] \in {"bcast", "wbcast"}
<1>1. Scheduled(i, a)
  BY CoherentByInvariant DEF SingleWriterCoherence, StaleHolders
<1>2. i \notin MayWrite[a]
  BY DEF CoherenceInv, WriterFresh, StaleHolders
<1>3. targets # << >>
  BY <1>1, RangeOfEmpty DEF Scheduled
<1> QED
  BY <1>1, <1>2, <1>3 DEF StaleHolders, CoherenceInv, FreshInv, StagesFit

\* The coherence of the invariant, of the next state.
LEMMA CoherentNext == CoherenceInv' => SingleWriterCoherence'
<1>1. CoherenceInv => SingleWriterCoherence
  BY CoherentByInvariant
<1> QED
  BY <1>1, PTL

\* The same of the next state.
LEMMA OldCopiesScheduledNext ==
    ASSUME CoherenceInv', NEW a \in Addr, SingleWriter(a),
           NEW i \in StaleHolders(a)'
    PROVE  /\ i \in Node \ MayWrite[a] /\ Scheduled(i, a)' /\ targets' # << >>
           /\ stage'[Home] \in {"bcast", "wbcast"}
<1>1. SingleWriterCoherence'
  BY CoherentNext
<1>2. Scheduled(i, a)'
  BY <1>1 DEF SingleWriterCoherence, StaleHolders, SingleWriter
<1>3. i \notin MayWrite[a]
  BY DEF CoherenceInv, WriterFresh, StaleHolders, SingleWriter
<1>4. targets' # << >>
  BY <1>2, RangeOfEmpty DEF Scheduled
<1> QED
  BY <1>2, <1>3, <1>4 DEF StaleHolders, CoherenceInv, FreshInv, StagesFit

\* Between the writes that reach Home, no copy becomes old and no old copy
\* changes.
LEMMA OldCopiesShrink ==
    ASSUME CoherenceInv, NEW n \in Node, Step(n), NEW b \in Addr,
           ~ HandleWrite(n), ~ StartInvalidations(n),
           ~ LocalWrite(n), ~ EndBroadcast(n)
    PROVE  \A i \in StaleHolders(b)' :
               i \in StaleHolders(b) /\ cache'[i][b] = cache[i][b]
<1> SUFFICES ASSUME NEW i \in StaleHolders(b)'
             PROVE  i \in StaleHolders(b) /\ cache'[i][b] = cache[i][b]
  OBVIOUS
<1>1. i \in Node /\ cache'[i][b] \notin {None, dir'[b].data} /\ ~ WriteInFlight(i, b)'
  BY DEF StaleHolders
<1>2. dir'[b].data = dir[b].data
  BY WordsChange
<1>3. ~ WriteInFlight(i, b)
  BY <1>1, FlightsLast DEF CoherenceInv
<1>4. ~ (/\ ReadReturned(n) /\ i = n /\ b = op[n].addr
         /\ cache'[i][b] = msg[n].val)
  BY <1>1, <1>2 DEF ReadReturned, Answered, CoherenceInv, FreshInv, AnswersFresh
<1>5. cache'[i][b] = cache[i][b]
  BY <1>1, <1>4, CachesGrow
<1> QED
  BY <1>1, <1>2, <1>3, <1>5 DEF StaleHolders

\* Home broadcasts nothing when it handles a write: there is no old copy.
LEMMA NoOldCopies ==
    ASSUME CoherenceInv, targets = << >>, NEW b \in Addr, SingleWriter(b)
    PROVE  StaleHolders(b) = {}
  BY OldCopiesScheduled

\* The same of the next state.
LEMMA NoOldCopiesNext ==
    ASSUME CoherenceInv', targets' = << >>, NEW b \in Addr, SingleWriter(b)
    PROVE  StaleHolders(b)' = {}
  BY OldCopiesScheduledNext

\* The writes that reach Home and the end of a broadcast: no copy is old
\* before, and afterwards only what startInvalidations has still to take back.
LEMMA OldCopiesArise ==
    ASSUME CoherenceInv, CoherenceInv', NEW n \in Node, Step(n),
           NEW b \in Addr, SingleWriter(b),
           \/ HandleWrite(n) \/ StartInvalidations(n)
           \/ LocalWrite(n) \/ EndBroadcast(n)
    PROVE  /\ StaleHolders(b) = {} /\ cache' = cache
           /\ StaleHolders(b)' # {} =>
                 /\ StartInvalidations(n)
                 /\ \E c \in MayWrite[b] : op[c].addr = b /\ WriteApplied(c, b)'
                 /\ \A i \in Node \ MayWrite[b] : cache[i][b] \in {None, dir[b].data}
<1>a. Typed /\ StagesFit /\ MessagesFit /\ SessionsPaired
  BY TypesHold DEF CoherenceInv, FreshInv
<1>t. /\ stage \in [Node -> Stage] /\ rpc \in [Node -> Rpc]
      /\ serve \in [Node -> {"off", "listen", "session"}]
      /\ peer \in [Node -> Node] /\ backlog \in [Node -> SUBSET Node]
      /\ op \in [Node -> Operation] /\ msg \in [Node -> Message]
  BY <1>a DEF Typed
<1>1. CASE HandleWrite(n) \/ StartInvalidations(n)
  <2>1. PICK c \in Node :
            /\ op[c].addr \in Addr /\ c \in MayWrite[op[c].addr]
            /\ op[c].kind = "WRITE" /\ targets = << >>
            /\ dir' = [dir EXCEPT ![op[c].addr] = Written(c, op[c].val)]
            /\ op' = op /\ cache' = cache
            /\ stage'[c] = "access" /\ rpc'[c] = "answered"
            /\ \/ targets' = << >>
               \/ StartInvalidations(n) /\ victim' = op[c].addr
    BY <1>1, WriteHandled
  <2>2. StaleHolders(b) = {}
    BY <2>1, NoOldCopies
  <2>3. CASE targets' = << >>
    BY <2>1, <2>2, <2>3, NoOldCopiesNext
  <2>4. CASE StartInvalidations(n) /\ victim' = op[c].addr
    <3>1. StaleHolders(b)' # {} => op[c].addr = b
      BY <2>4, OldCopiesScheduledNext DEF Scheduled
    <3>2. op[c].addr = b => WriteApplied(c, b)'
      BY <2>1 DEF WriteApplied
    <3>3. ASSUME NEW i \in Node \ MayWrite[b]
          PROVE  cache[i][b] \in {None, dir[b].data}
      BY <2>2, <1>a DEF StaleHolders, WriteInFlight, MessagesFit
    <3> QED
      BY <2>1, <2>2, <2>4, <3>1, <3>2, <3>3
  <2> QED
    BY <2>1, <2>3, <2>4
<1>2. CASE LocalWrite(n)
  <2>1. n = Home /\ cache' = cache
    BY <1>2, HomeStores
  <2>2. targets = << >>
    BY <1>2, <2>1, <1>a DEF LocalWrite, StagesFit
  <2>3. StaleHolders(b) = {}
    BY <2>2, NoOldCopies
  <2>4. targets' = << >> \/ dir' = dir
    BY <1>2, HomeStores
  <2>5. CASE dir' = dir
    <3>1. \A i \in Node : WriteInFlight(i, b) => WriteInFlight(i, b)'
      BY <1>2, FlightsLast, <1>a, <1>t, <2>1
      DEF CoherenceInv, LocalWrite, WriteInFlight, Enter
    <3> QED
      BY <2>1, <2>3, <2>5, <3>1 DEF StaleHolders
  <2> QED
    BY <2>1, <2>2, <2>3, <2>4, <2>5, NoOldCopiesNext
<1>3. CASE EndBroadcast(n)
  <2>1. n = Home /\ cache' = cache /\ targets' = << >>
    BY <1>3, HomeStores DEF EndBroadcast
  <2>2. stage[Home] \in {"bcast", "wbcast"} /\ rpc[Home] = "closed"
    BY <1>3, <2>1 DEF EndBroadcast
  <2>3. cache[Head(targets)][victim] = None
    BY <2>2 DEF CoherenceInv, BroadcastFits
  <2>4. targets \in Seq(Node) /\ Len(targets) = 1
    BY <1>3, <1>a DEF EndBroadcast, Typed
  <2>5. Range(targets) = {Head(targets)}
    BY <2>4, RangeOfSingle
  <2>6. StaleHolders(b) = {}
    BY <2>3, <2>5, OldCopiesScheduled DEF Scheduled, StaleHolders
  <2> QED
    BY <2>1, <2>6, NoOldCopiesNext
<1> QED
  BY <1>1, <1>2, <1>3

\* Old copies stay equally old.
LEMMA OldCopiesAgreeStep ==
    ASSUME AtomicityInv, CoherenceInv', NEW n \in Node, Step(n)
    PROVE  OldCopiesAgree'
<1>a. CoherenceInv /\ OldCopiesAgree
  BY DEF AtomicityInv
<1> SUFFICES ASSUME NEW b \in Addr, SingleWriter(b),
                    NEW m \in StaleHolders(b)', NEW i \in Node \ MayWrite[b]
             PROVE  cache'[i][b] \in {None, cache'[m][b]}
  BY DEF OldCopiesAgree, SingleWriter
<1>1. CASE \/ HandleWrite(n) \/ StartInvalidations(n)
           \/ LocalWrite(n) \/ EndBroadcast(n)
  <2>1. /\ cache' = cache
        /\ \A j \in Node \ MayWrite[b] : cache[j][b] \in {None, dir[b].data}
    BY <1>1, <1>a, OldCopiesArise
  <2>2. m \in Node \ MayWrite[b] /\ cache'[m][b] # None
    BY OldCopiesScheduledNext DEF StaleHolders
  <2> QED
    BY <2>1, <2>2
<1>2. CASE /\ ~ HandleWrite(n) /\ ~ StartInvalidations(n)
           /\ ~ LocalWrite(n) /\ ~ EndBroadcast(n)
  <2>1. m \in StaleHolders(b) /\ cache'[m][b] = cache[m][b]
    BY <1>2, <1>a, OldCopiesShrink
  <2>2. cache'[i][b] \in {None, cache[i][b]}
    BY <2>1, <1>a, OldCopiesScheduled, CachesOnlyShrinkInBroadcast
  <2>3. cache[i][b] \in {None, cache[m][b]}
    BY <2>1, <1>a DEF OldCopiesAgree
  <2> QED
    BY <2>1, <2>2, <2>3
<1> QED
  BY <1>1, <1>2

\* The writer of an old copy stays where it waits for Home.
LEMMA OldCopiesAwaitStep ==
    ASSUME AtomicityInv, CoherenceInv', NEW n \in Node, Step(n)
    PROVE  OldCopiesAwaitWriter'
<1>a. CoherenceInv /\ OldCopiesAwaitWriter
  BY DEF AtomicityInv
<1> SUFFICES ASSUME NEW b \in Addr, SingleWriter(b), StaleHolders(b)' # {}
             PROVE  \E w \in MayWrite[b] : WriteApplied(w, b)'
  BY DEF OldCopiesAwaitWriter, SingleWriter
<1>1. CASE \/ HandleWrite(n) \/ StartInvalidations(n)
           \/ LocalWrite(n) \/ EndBroadcast(n)
  BY <1>1, <1>a, OldCopiesArise
<1>2. CASE /\ ~ HandleWrite(n) /\ ~ StartInvalidations(n)
           /\ ~ LocalWrite(n) /\ ~ EndBroadcast(n)
  <2>1. StaleHolders(b) # {}
    BY <1>2, <1>a, OldCopiesShrink
  <2>2. PICK w \in MayWrite[b] : WriteApplied(w, b)
    BY <2>1, <1>a DEF OldCopiesAwaitWriter
  <2>3. w \in Node
    BY DataAssumption, NodesAssumption
  <2>4. targets # << >> /\ victim = b
    BY <2>1, <1>a, OldCopiesScheduled DEF Scheduled
  <2>5. ~ Released(w)
    BY <2>2, <2>3, <2>4, <1>a DEF CoherenceInv, WritesApplied
  <2> QED
    BY <2>2, <2>3, <2>5, <1>a, WritesRemain
<1> QED
  BY <1>1, <1>2

\* The invariant holds when the processes start.
LEMMA AtomicityInvInit == ASSUME Init PROVE AtomicityInv
<1>1. CoherenceInv
  BY CoherenceInvInit
<1>2. ReadsHit /\ ReadsAnswered
  BY DEF Init, ReadsHit, ReadsAnswered
<1>3. \A b \in Addr : StaleHolders(b) = {}
  BY DEF Init, StaleHolders
<1> QED
  BY <1>1, <1>2, <1>3 DEF AtomicityInv, OldCopiesAgree, OldCopiesAwaitWriter

\* No step of any process breaks the invariant.
LEMMA AtomicityInvStep == ASSUME AtomicityInv, [Next]_vars PROVE AtomicityInv'
<1>1. CoherenceInv'
  BY CoherenceInvStep DEF AtomicityInv
<1>2. ASSUME NEW n \in Node, Step(n) PROVE AtomicityInv'
  BY <1>1, <1>2, ReadsHitStep, ReadsAnsweredStep, OldCopiesAgreeStep,
     OldCopiesAwaitStep DEF AtomicityInv
<1>3. CASE UNCHANGED vars
  BY <1>1, <1>3 DEF vars, AtomicityInv, ReadsHit, ReadsAnswered,
     OldCopiesAgree, OldCopiesAwaitWriter, StaleHolders, WriteInFlight,
     WriteApplied, SingleWriter
<1> QED
  BY <1>2, <1>3 DEF Next

\* In any deployment, with any failures: a read has its value from its answer
\* on, old copies of a word with one writer are equally old, and that writer is
\* still being served.
THEOREM AtomicityInvariant == Spec => []AtomicityInv
  BY AtomicityInvInit, AtomicityInvStep, PTL DEF Spec

-----------------------------------------------------------------------------
(* Calls, apart from the old copies that delay a write.                    *)

\* The operation of n has done what it has to do at home.
Applied(n) ==
    IF op[n].kind = "READ"
    THEN \/ stage[n] = "unlock" /\ op[n].val # None
         \/ stage[n] = "access" /\ rpc[n] \in {"answered", "closing", "closed"}
    ELSE WriteApplied(n, op[n].addr)

Phase(n) ==
    IF stage[n] \in {"idle", "bcast"} THEN "idle"
    ELSE IF Applied(n) THEN "done" ELSE "pending"

\* The value of n's operation, which an answer brings before n stores it.
Result(n) ==
    IF stage[n] = "access" /\ rpc[n] = "answered" /\ op[n].kind = "READ"
    THEN msg[n].val ELSE op[n].val

\* A step does not show in the call of n.
Kept(n) ==
    /\ Phase(n)' = Phase(n) /\ Result(n)' = Result(n)
    /\ op'[n].kind = op[n].kind /\ op'[n].addr = op[n].addr

\* A step calls read or write at n, answers its read, or returns from it.
Begins(n) ==
    /\ Phase(n) = "idle" /\ Phase(n)' = "pending"
    /\ op'[n].addr \in Addr /\ Result(n)' = op'[n].val
    /\ \/ op'[n].kind = "READ" /\ op'[n].val = None
       \/ op'[n].kind = "WRITE" /\ op'[n].val \in Value

Reads(n) ==
    /\ Phase(n) = "pending" /\ Phase(n)' = "done"
    /\ op[n].kind = "READ" /\ op'[n].kind = "READ" /\ op'[n].addr = op[n].addr
    /\ \/ targets = << >> /\ Result(n)' = dir[op[n].addr].data
       \/ /\ n # Home /\ cache[n][op[n].addr] # None
          /\ Result(n)' = cache[n][op[n].addr]

Ends(n) ==
    /\ Phase(n) # "idle" /\ Phase(n)' = "idle" /\ Result(n)' = Result(n)
    /\ op'[n].kind = op[n].kind /\ op'[n].addr = op[n].addr

CopiesKept == \A i \in Node, b \in Addr : cache'[i][b] = cache[i][b]

OneMoves ==
    \E c \in Node : /\ \A i \in Node \ {c} : Kept(i)
                    /\ Begins(c) \/ Reads(c) \/ Ends(c)

\* Between the steps that change a word at home, a step moves one call and no
\* copy, or copies and no call.
LEMMA CallsMove ==
    ASSUME AtomicityInv, NEW n \in Node, Step(n),
           ~ HandleWrite(n), ~ StartInvalidations(n),
           ~ LocalWrite(n), ~ EndBroadcast(n)
    PROVE  (\A i \in Node : Kept(i)) \/ (CopiesKept /\ OneMoves)
<1>a. Typed /\ StagesFit /\ MessagesFit /\ SessionsPaired
  BY TypesHold DEF AtomicityInv, CoherenceInv, FreshInv
<1>t. /\ stage \in [Node -> Stage] /\ rpc \in [Node -> Rpc]
      /\ serve \in [Node -> {"off", "listen", "session"}]
      /\ peer \in [Node -> Node] /\ backlog \in [Node -> SUBSET Node]
      /\ op \in [Node -> Operation] /\ msg \in [Node -> Message]
  BY <1>a DEF Typed
<1>h. HomeIsLocal
  BY DEF AtomicityInv, CoherenceInv
<1>1. CASE Serve(n)
  BY <1>1, <1>a, <1>t DEF Serve, opVars, netVars, cacheVars, homeVars,
      StagesFit, Kept, Phase, Applied, Result, WriteApplied
<1>2. CASE \E a \in Addr : StartRead(n, a)
  <2>1. \A i \in Node \ {n} : Kept(i)
    BY <1>2, <1>t DEF StartRead, Start, Enter, Kept, Phase, Applied, Result,
        WriteApplied
  <2>2. CopiesKept
    BY <1>2 DEF StartRead, Start, cacheVars, CopiesKept
  <2>3. Begins(n)
    BY <1>2, <1>t DEF StartRead, Start, Enter, Begins, Phase, Applied,
        Result
  <2> QED
    BY <2>1, <2>2, <2>3 DEF OneMoves
<1>3. CASE \E a \in Addr, v \in Value : StartWrite(n, a, v)
  <2>1. \A i \in Node \ {n} : Kept(i)
    BY <1>3, <1>t DEF StartWrite, Start, Enter, Kept, Phase, Applied, Result,
        WriteApplied
  <2>2. CopiesKept
    BY <1>3 DEF StartWrite, Start, cacheVars, CopiesKept
  <2>3. Begins(n)
    BY <1>3, <1>t DEF StartWrite, Start, Enter, Begins, Phase, Applied,
        Result, WriteApplied
  <2> QED
    BY <2>1, <2>2, <2>3 DEF OneMoves
<1>4. CASE Connect(n)
  BY <1>4, <1>a, <1>t DEF Connect, opVars, cacheVars, homeVars, StagesFit,
      Kept, Phase, Applied, Result, WriteApplied
<1>5. CASE GiveUp(n)
  BY <1>5, <1>a, <1>t DEF GiveUp, Die, opVars, netVars, serverVars, homeVars,
      StagesFit, Kept, Phase, Applied, Result, WriteApplied
<1>6. CASE LockLocally(n)
  <2>1. \A i \in Node \ {n} : Kept(i)
    BY <1>6, <1>t DEF LockLocally, Enter, Kept, Phase, Applied, Result,
        WriteApplied
  <2>2. CopiesKept
    BY <1>6 DEF LockLocally, cacheVars, CopiesKept
  <2>3. Kept(n) \/ Ends(n)
    BY <1>6, <1>t DEF LockLocally, Enter, AccessPhase, Kept, Ends, Phase,
        Applied, Result, WriteApplied
  <2> QED
    BY <2>1, <2>2, <2>3 DEF OneMoves
<1>7. CASE UnlockLocally(n)
  <2>1. \A i \in Node \ {n} : Kept(i)
    BY <1>7, <1>t DEF UnlockLocally, Enter, Kept, Phase, Applied, Result,
        WriteApplied
  <2>2. CopiesKept
    BY <1>7 DEF UnlockLocally, cacheVars, CopiesKept
  <2>3. Ends(n)
    BY <1>7, <1>t DEF UnlockLocally, Enter, Ends, Phase, Applied, Result
  <2> QED
    BY <2>1, <2>2, <2>3 DEF OneMoves
<1>8. CASE CallLock(n)
  BY <1>8, <1>a, <1>t DEF CallLock, Call, Packet, Wanted, opVars, serverVars,
      cacheVars, homeVars, StagesFit, Kept, Phase, Applied, Result,
      WriteApplied
<1>9. CASE LockAnswered(n)
  BY <1>9, <1>a, <1>t DEF LockAnswered, Answered, Close, Packet, serverVars,
      cacheVars, homeVars, StagesFit, Kept, Phase, Applied, Result,
      WriteApplied
<1>10. CASE EnterAccess(n)
  BY <1>10, <1>a, <1>t DEF EnterAccess, Enter, AccessPhase, serverVars,
      cacheVars, homeVars, StagesFit, Kept, Phase, Applied, Result,
      WriteApplied
<1>11. CASE EnterUnlock(n)
  <2>1. /\ op' = op /\ msg' = msg /\ stage[n] \in {"access", "reconnect"}
        /\ rpc[n] = "closed"
    BY <1>11 DEF EnterUnlock
  <2>2. /\ op[n].kind = "READ" => stage[n] = "access" /\ op[n].val # None
        /\ op[n].kind = "WRITE" => WriteApplied(n, op[n].addr)
    BY <2>1, <1>a DEF AtomicityInv, ReadsAnswered, StagesFit, WriteApplied
  <2>3. Kept(n)
    BY <1>11, <2>1, <2>2, <1>a, <1>t DEF EnterUnlock, Enter, Kept, Phase,
        Applied, Result, WriteApplied, Typed
  <2>4. \A i \in Node \ {n} : Kept(i)
    BY <1>11, <2>1, <1>t DEF EnterUnlock, Enter, Kept, Phase, Applied, Result,
        WriteApplied
  <2> QED
    BY <2>3, <2>4
<1>12. CASE Return(n)
  <2>1. \A i \in Node \ {n} : Kept(i)
    BY <1>12, <1>t DEF Return, Enter, Kept, Phase, Applied, Result,
        WriteApplied
  <2>2. CopiesKept
    <3>1. stage[n] = "unlock" /\ op[n].kind = "READ" /\ op[n].val = None => n = Home
      BY DEF AtomicityInv, ReadsAnswered
    <3>2. cache \in [Node -> [Addr -> Value \cup {None}]]
      BY <1>a DEF Typed
    <3> QED
      BY <1>12, <1>h, <3>1, <3>2 DEF Return, Die, CopiesKept, HomeIsLocal
  <2>3. Ends(n)
    BY <1>12, <1>t DEF Return, Enter, Ends, Phase, Applied, Result
  <2> QED
    BY <2>1, <2>2, <2>3 DEF OneMoves
<1>13. CASE CachedRead(n)
  <2>1. \A i \in Node \ {n} : Kept(i)
    BY <1>13, <1>t DEF CachedRead, ReadValue, Enter, Kept, Phase, Applied,
        Result, WriteApplied
  <2>2. CopiesKept
    BY <1>13 DEF CachedRead, cacheVars, CopiesKept
  <2>3. cache[n][op[n].addr] # None
    BY <1>13 DEF CachedRead, AtomicityInv, ReadsHit
  <2>4. Reads(n)
    BY <1>13, <2>3, <1>t DEF CachedRead, ReadValue, Enter, Reads, Phase,
        Applied, Result
  <2> QED
    BY <2>1, <2>2, <2>4 DEF OneMoves
<1>14. CASE LocalRead(n)
  <2>1. \A i \in Node \ {n} : Kept(i)
    BY <1>14, <1>t DEF LocalRead, ReadValue, Enter, Kept, Phase, Applied,
        Result, WriteApplied
  <2>2. CopiesKept
    BY <1>14 DEF LocalRead, cacheVars, CopiesKept
  <2>3. op[n].val = None /\ targets = << >>
    BY <1>14, <1>a DEF LocalRead, AtomicityInv, ReadsAnswered, StagesFit
  <2>4. dir[op[n].addr].data # None
    BY <1>a, DataAssumption DEF Typed
  <2>5. CASE dir[op[n].addr].iscached = "WILD"
    <3>1. Kept(n)
      BY <1>14, <2>3, <2>5, <1>t DEF LocalRead, ReadValue, Enter, Kept, Phase,
          Applied, Result
    <3> QED
      BY <2>1, <3>1
  <2>6. CASE dir[op[n].addr].iscached # "WILD"
    <3>1. Reads(n)
      BY <1>14, <2>3, <2>4, <2>6, <1>t DEF LocalRead, ReadValue, Enter, Reads,
          Phase, Applied, Result
    <3> QED
      BY <2>1, <2>2, <3>1 DEF OneMoves
  <2> QED
    BY <2>5, <2>6
<1>15. CASE CallRead(n)
  BY <1>15, <1>a, <1>t DEF CallRead, Call, Packet, opVars, serverVars,
      cacheVars, homeVars, StagesFit, Kept, Phase, Applied, Result,
      WriteApplied
<1>16. CASE ReadReturned(n)
  <2>1. \A i \in Node \ {n} : op'[i] = op[i] /\ rpc'[i] = rpc[i] /\ msg'[i] = msg[i]
    BY <1>16, <1>t DEF ReadReturned, ReadValue, Close, Packet, netVars
  <2>2. stage' = stage
    BY <1>16 DEF ReadReturned
  <2>3. Kept(n)
    BY <1>16, <1>t DEF ReadReturned, Answered, ReadValue, Close, netVars, Kept,
        Phase, Applied, Result
  <2> QED
    BY <2>1, <2>2, <2>3 DEF Kept, Phase, Applied, Result, WriteApplied
<1>17. CASE CallWrite(n)
  <2>1. stage' = stage /\ op' = op
    BY <1>17 DEF CallWrite, opVars
  <2>2. \A i \in Node \ {n} : rpc'[i] = rpc[i] /\ msg'[i] = msg[i]
    BY <1>17, <1>t DEF CallWrite, Call, Packet, netVars
  <2>3. rpc[n] = "open" /\ rpc'[n] \in {"open", "sent"} /\ op[n].kind = "WRITE"
    BY <1>17, <1>t DEF CallWrite, Call, netVars
  <2> QED
    BY <2>1, <2>2, <2>3 DEF Kept, Phase, Applied, Result, WriteApplied
<1>18. CASE WriteReturned(n)
  BY <1>18, <1>a, <1>t DEF WriteReturned, Answered, Close, Packet, opVars,
      serverVars, cacheVars, homeVars, StagesFit, Kept, Phase, Applied, Result,
      WriteApplied
<1>19. CASE WriteRecalled(n)
  BY <1>19, <1>a, <1>t DEF WriteRecalled, Answered, Enter, cacheVars, homeVars,
      StagesFit, Kept, Phase, Applied, Result, WriteApplied
<1>20. CASE CloseReconnected(n)
  BY <1>20, <1>a, <1>t DEF CloseReconnected, Close, Packet, opVars, serverVars,
      cacheVars, homeVars, StagesFit, Kept, Phase, Applied, Result,
      WriteApplied
<1>21. CASE LocalWrite(n)
  BY <1>21
<1>22. CASE CallInvalidate(n)
  BY <1>22, <1>a, <1>t DEF CallInvalidate, Call, Packet, opVars, serverVars,
      cacheVars, homeVars, StagesFit, Kept, Phase, Applied, Result,
      WriteApplied
<1>23. CASE InvalidationAnswered(n)
  BY <1>23, <1>a, <1>t DEF InvalidationAnswered, Answered, Close, Packet,
      opVars, serverVars, cacheVars, homeVars, StagesFit, Kept, Phase, Applied,
      Result, WriteApplied
<1>24. CASE NextTarget(n)
  BY <1>24, <1>a, <1>t DEF NextTarget, opVars, serverVars, cacheVars,
      StagesFit, Kept, Phase, Applied, Result, WriteApplied
<1>25. CASE EndBroadcast(n)
  BY <1>25
<1>26. CASE Accept(n)
  <2>1. stage' = stage /\ op' = op /\ msg' = msg
    BY <1>26 DEF Accept, opVars
  <2>2. \A i \in backlog[n] : rpc[i] = "backlog"
    BY <1>a, <1>t DEF SessionsPaired
  <2>3. \A i \in Node : \/ rpc'[i] = rpc[i]
                        \/ rpc[i] = "backlog" /\ rpc'[i] \in {"open", "none"}
    <3>1. \E c \in backlog[n] : rpc' = [i \in Node |->
              IF i = c THEN "open"
              ELSE IF i \in backlog[n] \ {c} THEN "none" ELSE rpc[i]]
      BY <1>26, Zenon DEF Accept
    <3> QED
      BY <2>2, <3>1
  <2> QED
    BY <2>1, <2>3 DEF Kept, Phase, Applied, Result, WriteApplied
<1>27. CASE HandleReset(n)
  BY <1>27, <1>a, <1>t DEF HandleReset, cacheVars, homeVars, StagesFit, Kept,
      Phase, Applied, Result, WriteApplied
<1>28. CASE HandleLocks(n)
  <2>1. PICK c \in Node : HandleLocks(n)!(c)
    BY <1>28 DEF HandleLocks
  <2>2. rpc[c] = "sent" /\ stage[c] \in {"lock", "unlock"}
    BY <1>a, <2>1, ServedClient DEF Receives
  <2> QED
    BY <2>1, <2>2, <1>a, <1>t DEF Answer, Packet, opVars, netVars, StagesFit,
        Kept, Phase, Applied, Result, WriteApplied
<1>29. CASE HandleRead(n)
  <2>1. PICK c \in Node : HandleRead(n)!(c)
    BY <1>29 DEF HandleRead
  <2>2. /\ rpc[c] = "sent" /\ stage[c] = "access" /\ op[c].kind = "READ"
        /\ msg[c].addr = op[c].addr /\ n = Home /\ targets = << >>
    BY <1>a, <2>1, ServedClient DEF Receives
  <2>3. stage' = stage /\ op' = op
    BY <2>1 DEF opVars
  <2>4. CASE dir[msg[c].addr].iscached = "WILD"
    <3>1. rpc' = rpc /\ msg' = msg
      BY <2>1, <2>4 DEF netVars
    <3> QED
      BY <2>3, <3>1 DEF Kept, Phase, Applied, Result, WriteApplied
  <2>5. CASE dir[msg[c].addr].iscached # "WILD"
    <3>1. /\ rpc' = [rpc EXCEPT ![c] = "answered"] /\ cache' = cache
          /\ msg' = [msg EXCEPT ![c] = Packet("DEFAULT", None, dir[msg[c].addr].data)]
      BY <2>1, <2>5 DEF Answer
    <3>2. \A i \in Node \ {c} : Kept(i)
      BY <2>3, <3>1, <1>t DEF Kept, Phase, Applied, Result, WriteApplied
    <3>3. Reads(c)
      BY <2>2, <2>3, <3>1, <1>t DEF Reads, Phase, Applied, Result, Packet
    <3> QED
      BY <3>1, <3>2, <3>3 DEF CopiesKept, OneMoves
  <2> QED
    BY <2>4, <2>5
<1>30. CASE HandleWrite(n)
  BY <1>30
<1>31. CASE StartInvalidations(n)
  BY <1>31
<1>32. CASE HandleInvalidation(n)
  <2>1. PICK c \in Node : HandleInvalidation(n)!(c)
    BY <1>32 DEF HandleInvalidation
  <2>2. rpc[c] = "sent" /\ stage[c] \in {"bcast", "wbcast"}
    BY <1>a, <2>1, ServedClient DEF Receives
  <2> QED
    BY <2>1, <2>2, <1>a, <1>t DEF Answer, Packet, opVars, netVars, StagesFit,
        Kept, Phase, Applied, Result, WriteApplied
<1> QED
  BY <1>1, <1>2, <1>3, <1>4, <1>5, <1>6, <1>7, <1>8, <1>9, <1>10, <1>11, <1>12,
      <1>13, <1>14, <1>15, <1>16, <1>17, <1>18, <1>19, <1>20, <1>21, <1>22,
      <1>23, <1>24, <1>25, <1>26, <1>27, <1>28, <1>29, <1>30, <1>31, <1>32 DEF
      Step, StartOp, ClientStep, ServerStep

-----------------------------------------------------------------------------
(* From the calls to the memory.                                           *)

\* A write waits until the last old copy is gone.
CallPhase(n) ==
    IF op[n].kind = "WRITE" /\ StaleHolders(op[n].addr) # {} /\ Phase(n) = "done"
    THEN "pending" ELSE Phase(n)

Shown ==
    \A n \in Node : MemoryCall(n) =
        [phase |-> CallPhase(n), kind |-> op[n].kind, addr |-> op[n].addr,
         val |-> Result(n)]

\* A call is its phase, its operation and its value.
LEMMA CallsShown == AtomicityInv => Shown
<1> SUFFICES ASSUME AtomicityInv, NEW n \in Node
             PROVE  MemoryCall(n) =
                        [phase |-> CallPhase(n), kind |-> op[n].kind,
                         addr |-> op[n].addr, val |-> Result(n)]
  BY DEF Shown
<1>1. op[n].kind \in {"READ", "WRITE"}
  BY TypesHold DEF AtomicityInv, CoherenceInv, FreshInv, Typed
<1>2. MemoryCall(n).phase = CallPhase(n)
  BY <1>1 DEF MemoryCall, TookEffect, CallPhase, Phase, Applied
<1> QED
  BY <1>2 DEF MemoryCall, Result

\* The same of the next state.
LEMMA CallsShownNext == AtomicityInv' => Shown'
  BY CallsShown, PTL

\* A step leaves the call of n as it is.
SameCall(n) ==
    /\ CallPhase(n)' = CallPhase(n) /\ Result(n)' = Result(n)
    /\ op'[n].kind = op[n].kind /\ op'[n].addr = op[n].addr

SameWords == \A a \in Addr : MemoryValue(a)' = MemoryValue(a)

\* A call whose parts stay stays.
LEMMA SameCallShown ==
    ASSUME Shown, Shown', NEW n \in Node, SameCall(n)
    PROVE  MemoryCall(n)' = MemoryCall(n)
  BY DEF Shown, SameCall

\* Where no word and no call changes, the memory does nothing.
LEMMA StepStutters ==
    ASSUME Shown, Shown', SameWords, \A i \in Node : SameCall(i)
    PROVE  UNCHANGED Memory!memoryVars
  BY SameCallShown DEF Memory!memoryVars, SameWords

\* A call begins.
LEMMA StepInvokes ==
    ASSUME Shown, Shown', SameWords, NEW c \in Node,
           \A i \in Node \ {c} : SameCall(i),
           CallPhase(c) = "idle", CallPhase(c)' = "pending",
           op'[c].addr \in Addr, Result(c)' = op'[c].val,
           \/ op'[c].kind = "READ" /\ op'[c].val = None
           \/ op'[c].kind = "WRITE" /\ op'[c].val \in Value
    PROVE  Memory!Invoke(c)
<1> DEFINE call == [n \in Node |-> MemoryCall(n)]
           new == [phase |-> "pending", kind |-> op'[c].kind,
                   addr |-> op'[c].addr, val |-> op'[c].val]
<1>1. call' = [call EXCEPT ![c] = new]
  <2>1. MemoryCall(c)' = new
    BY DEF Shown
  <2> QED
    BY <2>1, SameCallShown
<1>2. call[c].phase = "idle"
  BY DEF Shown
<1>3. UNCHANGED [a \in Addr |-> MemoryValue(a)]
  BY DEF SameWords
<1>4. \E v \in Value :
          new \in {[phase |-> "pending", kind |-> "READ", addr |-> op'[c].addr,
                   val |-> None],
                  [phase |-> "pending", kind |-> "WRITE", addr |-> op'[c].addr,
                   val |-> v]}
  BY DataAssumption
<1> HIDE DEF new
<1>5. \E a \in Addr, v \in Value :
          \E d \in {[phase |-> "pending", kind |-> "READ", addr |-> a, val |-> None],
                   [phase |-> "pending", kind |-> "WRITE", addr |-> a, val |-> v]} :
              call' = [call EXCEPT ![c] = d]
  BY <1>1, <1>4
<1> QED
  BY <1>2, <1>3, <1>5 DEF Memory!Invoke

\* A call returns.
LEMMA StepReturns ==
    ASSUME Shown, Shown', SameWords, NEW c \in Node,
           \A i \in Node \ {c} : SameCall(i),
           CallPhase(c) \in {"pending", "done"}, CallPhase(c)' = "idle",
           Result(c)' = Result(c), op'[c].kind = op[c].kind,
           op'[c].addr = op[c].addr
    PROVE  Memory!Refuse(c) \/ Memory!Finish(c)
<1> DEFINE call == [n \in Node |-> MemoryCall(n)]
<1>1. call' = [call EXCEPT ![c].phase = "idle"]
  <2>1. MemoryCall(c)' = [MemoryCall(c) EXCEPT !.phase = "idle"]
    BY DEF Shown
  <2> QED
    BY <2>1, SameCallShown
<1>2. call[c].phase \in {"pending", "done"}
  BY DEF Shown
<1>3. UNCHANGED [a \in Addr |-> MemoryValue(a)]
  BY DEF SameWords
<1> QED
  BY <1>1, <1>2, <1>3 DEF Memory!Refuse, Memory!Finish

\* A read takes effect: it gets the word.
LEMMA StepReads ==
    ASSUME Shown, Shown', SameWords, NEW c \in Node,
           \A i \in Node \ {c} : SameCall(i),
           CallPhase(c) = "pending", CallPhase(c)' = "done",
           op[c].kind = "READ", op[c].addr \in Addr,
           Result(c)' = MemoryValue(op[c].addr),
           op'[c].kind = op[c].kind, op'[c].addr = op[c].addr
    PROVE  Memory!TakeEffect(c)
<1> DEFINE call == [n \in Node |-> MemoryCall(n)]
           mem == [a \in Addr |-> MemoryValue(a)]
<1>1. call' = [call EXCEPT ![c].phase = "done", ![c].val = mem[call[c].addr]]
  <2>1. mem[call[c].addr] = Result(c)'
    BY DEF Shown
  <2>2. MemoryCall(c)' = [MemoryCall(c) EXCEPT !.phase = "done", !.val = Result(c)']
    <3>1. PICK v : v = Result(c)'
      OBVIOUS
    <3>2. PICK r : r = MemoryCall(c)
      OBVIOUS
    <3>3. r = [phase |-> "pending", kind |-> op[c].kind, addr |-> op[c].addr,
               val |-> Result(c)]
      BY <3>2 DEF Shown
    <3>4. MemoryCall(c)' = [phase |-> "done", kind |-> op[c].kind,
                            addr |-> op[c].addr, val |-> v]
      BY <3>1 DEF Shown
    <3>5. PICK s : s = [r EXCEPT !.phase = "done"]
      OBVIOUS
    <3>6. s = [phase |-> "done", kind |-> op[c].kind, addr |-> op[c].addr,
               val |-> Result(c)]
      BY <3>3, <3>5
    <3>7. MemoryCall(c)' = [s EXCEPT !.val = v]
      BY <3>4, <3>6
    <3>8. [r EXCEPT !.phase = "done", !.val = v] = [s EXCEPT !.val = v]
      BY <3>5
    <3> QED
      BY <3>1, <3>2, <3>7, <3>8
  <2> QED
    BY <2>1, <2>2, SameCallShown
<1>2. call[c].phase = "pending" /\ call[c].kind = "READ"
  BY DEF Shown
<1>3. UNCHANGED mem
  BY DEF SameWords
<1> QED
  BY <1>1, <1>2, <1>3 DEF Memory!TakeEffect

\* A write takes effect: it changes its word and no other.
LEMMA StepWrites ==
    ASSUME Shown, Shown', NEW c \in Node,
           \A i \in Node \ {c} : SameCall(i),
           CallPhase(c) = "pending", CallPhase(c)' = "done",
           op[c].kind = "WRITE", op[c].addr \in Addr,
           Result(c)' = Result(c), op'[c].kind = op[c].kind,
           op'[c].addr = op[c].addr,
           MemoryValue(op[c].addr)' = Result(c),
           \A a \in Addr \ {op[c].addr} : MemoryValue(a)' = MemoryValue(a)
    PROVE  Memory!TakeEffect(c)
<1> DEFINE call == [n \in Node |-> MemoryCall(n)]
           mem == [a \in Addr |-> MemoryValue(a)]
<1>1. call' = [call EXCEPT ![c].phase = "done"]
  <2>1. MemoryCall(c)' = [MemoryCall(c) EXCEPT !.phase = "done"]
    BY DEF Shown
  <2> QED
    BY <2>1, SameCallShown
<1>2. /\ call[c].phase = "pending" /\ call[c].kind = "WRITE"
      /\ call[c].addr = op[c].addr /\ call[c].val = Result(c)
  BY DEF Shown
<1>3. mem' = [mem EXCEPT ![call[c].addr] = call[c].val]
  <2>1. mem' = [mem EXCEPT ![op[c].addr] = Result(c)]
    OBVIOUS
  <2> QED
    BY <1>2, <2>1
<1> QED
  BY <1>1, <1>2, <1>3 DEF Memory!TakeEffect

-----------------------------------------------------------------------------
(* Every step is one of the memory, or none.                               *)

\* While a write is in flight in the next state, Home broadcasts nothing there.
LEMMA QuietHomeNext ==
    ASSUME CoherenceInv', NEW i \in Node, NEW b \in Addr, WriteInFlight(i, b)'
    PROVE  targets' = << >>
<1>1. InSession(i)' /\ Target(i)' = Home
  BY DEF WriteInFlight, InSession, Target
<1>2. serve'[Home] = "session"
  BY <1>1, NodesAssumption DEF CoherenceInv, FreshInv, SessionsPaired
<1> QED
  BY <1>2, NodesAssumption DEF CoherenceInv, FreshInv, StagesFit

\* Old copies do not go away while no cache changes.
LEMMA OldCopiesStay ==
    ASSUME CoherenceInv, CoherenceInv', NEW n \in Node, Step(n), NEW b \in Addr,
           SingleWriter(b), ~ HandleWrite(n), ~ StartInvalidations(n),
           ~ LocalWrite(n), ~ EndBroadcast(n), CopiesKept, StaleHolders(b) # {}
    PROVE  StaleHolders(b)' # {}
<1>1. PICK i \in StaleHolders(b) : TRUE
  OBVIOUS
<1>2. i \in Node /\ cache[i][b] \notin {None, dir[b].data}
  BY <1>1 DEF StaleHolders
<1>3. cache'[i][b] \notin {None, dir'[b].data}
  BY <1>2, WordsChange DEF CopiesKept
<1>4. targets # << >>
  BY OldCopiesScheduled, <1>1
<1>5. targets' # << >>
  <2>1. targets \in Seq(Node)
    BY DEF CoherenceInv, FreshInv, TypeOK, HomeTypeOK
  <2> QED
    BY <1>4, <2>1, TargetsFootprint DEF NextTarget
<1>6. ~ WriteInFlight(i, b)'
  BY <1>2, <1>5, QuietHomeNext
<1> QED
  BY <1>2, <1>3, <1>6 DEF StaleHolders

\* Between the writes that reach Home, a word of the memory changes only when
\* its last old copy goes.
LEMMA WordsLast ==
    ASSUME AtomicityInv, AtomicityInv', NEW n \in Node, Step(n), NEW b \in Addr,
           SingleWriter(b), ~ HandleWrite(n), ~ StartInvalidations(n),
           ~ LocalWrite(n), ~ EndBroadcast(n)
    PROVE  /\ StaleHolders(b) = {} =>
                 StaleHolders(b)' = {} /\ MemoryValue(b)' = MemoryValue(b)
           /\ StaleHolders(b)' # {} => MemoryValue(b)' = MemoryValue(b)
           /\ StaleHolders(b)' = {} => MemoryValue(b)' = dir[b].data
<1>a. CoherenceInv /\ CoherenceInv' /\ OldCopiesAgree
  BY DEF AtomicityInv
<1>1. dir'[b].data = dir[b].data
  BY <1>a, WordsChange
<1>2. \A i \in StaleHolders(b)' :
          i \in StaleHolders(b) /\ cache'[i][b] = cache[i][b]
  BY <1>a, OldCopiesShrink
<1>3. ASSUME StaleHolders(b)' # {} PROVE MemoryValue(b)' = MemoryValue(b)
  <2>1. PICK i \in StaleHolders(b)' : MemoryValue(b)' = cache'[i][b]
    BY <1>3 DEF MemoryValue
  <2>2. i \in StaleHolders(b) /\ cache'[i][b] = cache[i][b]
    BY <1>2
  <2>3. PICK j \in StaleHolders(b) : MemoryValue(b) = cache[j][b]
    BY <2>2 DEF MemoryValue
  <2>4. i \in Node \ MayWrite[b]
    BY <2>2, <1>a, OldCopiesScheduled
  <2>5. cache[i][b] \in {None, cache[j][b]}
    BY <2>4, <1>a DEF OldCopiesAgree
  <2>6. cache[i][b] # None
    BY <2>2 DEF StaleHolders
  <2> QED
    BY <2>1, <2>2, <2>3, <2>5, <2>6
<1>4. StaleHolders(b)' = {} => MemoryValue(b)' = dir[b].data
  BY <1>1 DEF MemoryValue
<1>5. StaleHolders(b) = {} => MemoryValue(b) = dir[b].data
  BY DEF MemoryValue
<1> QED
  BY <1>2, <1>3, <1>4, <1>5

\* What a read finds is the word of the memory.
LEMMA ReadsFindWord ==
    ASSUME AtomicityInv, NEW c \in Node, op[c].addr \in Addr,
           SingleWriter(op[c].addr), Reads(c)
    PROVE  Result(c)' = MemoryValue(op[c].addr)
<1> DEFINE b == op[c].addr
<1>a. CoherenceInv /\ OldCopiesAgree /\ OldCopiesAwaitWriter
  BY DEF AtomicityInv
<1>1. CASE StaleHolders(b) = {}
  <2>1. MemoryValue(b) = dir[b].data
    BY <1>1 DEF MemoryValue
  <2>2. cache[c][b] \in {None, dir[b].data}
    BY <1>1 DEF StaleHolders, WriteInFlight, Reads
  <2> QED
    BY <2>1, <2>2 DEF Reads
<1>2. CASE StaleHolders(b) # {}
  <2>1. PICK j \in StaleHolders(b) : MemoryValue(b) = cache[j][b]
    BY <1>2 DEF MemoryValue
  <2>2. PICK w \in MayWrite[b] : WriteApplied(w, b)
    BY <1>2, <1>a DEF OldCopiesAwaitWriter
  <2>3. c \notin MayWrite[b]
    BY <2>2 DEF SingleWriter, WriteApplied, Reads
  <2>4. cache[c][b] \in {None, cache[j][b]}
    BY <2>3, <1>a DEF OldCopiesAgree
  <2>5. targets # << >>
    BY <2>1, <1>a, OldCopiesScheduled
  <2> QED
    BY <2>1, <2>4, <2>5 DEF Reads
<1> QED
  BY <1>1, <1>2

\* With a change at home out of the way, calls move as their phases do.
LEMMA SameCallIf ==
    ASSUME NEW i \in Node, Kept(i),
           op[i].kind = "WRITE" /\ Phase(i) = "done" =>
               (StaleHolders(op[i].addr) = {} <=> StaleHolders(op[i].addr)' = {})
    PROVE  SameCall(i)
  BY DEF SameCall, Kept, CallPhase

\* A write that is done at home is that of the word's only writer.
LEMMA DoneWrites ==
    ASSUME CoherenceInv, NEW i \in Node, op[i].kind = "WRITE", Phase(i) = "done"
    PROVE  /\ op[i].addr \in Addr /\ i \in MayWrite[op[i].addr]
           /\ WriteApplied(i, op[i].addr)
  BY TypesHold DEF CoherenceInv, FreshInv, Typed, MessagesFit, Phase, Applied

\* The steps between those that change a word at home.
LEMMA OtherStepsMap ==
    ASSUME AtomicityInv, AtomicityInv', \A a \in Addr : SingleWriter(a),
           NEW n \in Node, Step(n), ~ HandleWrite(n), ~ StartInvalidations(n),
           ~ LocalWrite(n), ~ EndBroadcast(n)
    PROVE  Memory!MemoryNext \/ UNCHANGED Memory!memoryVars
<1>a. /\ CoherenceInv /\ CoherenceInv' /\ OldCopiesAwaitWriter
      /\ \A i \in Node : op[i].addr \in Addr
  BY TypesHold DEF AtomicityInv, CoherenceInv, FreshInv, Typed
<1>s. Shown /\ Shown'
  BY CallsShown, CallsShownNext
<1>1. CASE \A b \in Addr : StaleHolders(b) = {} <=> StaleHolders(b)' = {}
  <2>1. SameWords
    BY <1>1, WordsLast DEF SameWords
  <2>2. ASSUME NEW i \in Node, Kept(i) PROVE SameCall(i)
    BY <1>1, <1>a, <2>2, SameCallIf DEF Kept
  <2>3. CASE \A i \in Node : Kept(i)
    BY <1>s, <2>1, <2>2, <2>3, StepStutters
  <2>4. CASE OneMoves
    <3>1. PICK c \in Node : /\ \A i \in Node \ {c} : Kept(i)
                            /\ Begins(c) \/ Reads(c) \/ Ends(c)
      BY <2>4 DEF OneMoves
    <3>2. \A i \in Node \ {c} : SameCall(i)
      BY <2>2, <3>1
    <3>3. CASE Begins(c)
      <4>1. CallPhase(c) = "idle" /\ CallPhase(c)' = "pending"
        BY <3>3 DEF Begins, CallPhase
      <4>2. Memory!Invoke(c)
        BY <1>s, <2>1, <3>2, <3>3, <4>1, StepInvokes DEF Begins
      <4> QED
        BY <4>2 DEF Memory!MemoryNext
    <3>4. CASE Reads(c)
      <4>1. CallPhase(c) = "pending" /\ CallPhase(c)' = "done"
        BY <3>4 DEF Reads, CallPhase
      <4>2. Result(c)' = MemoryValue(op[c].addr)
        BY <1>a, <3>4, ReadsFindWord
      <4>3. Memory!TakeEffect(c)
        BY <1>a, <1>s, <2>1, <3>2, <3>4, <4>1, <4>2, StepReads DEF Reads
      <4> QED
        BY <4>3 DEF Memory!MemoryNext
    <3>5. CASE Ends(c)
      <4>1. CallPhase(c) \in {"pending", "done"} /\ CallPhase(c)' = "idle"
        BY <3>5 DEF Ends, CallPhase, Phase
      <4>2. Memory!Refuse(c) \/ Memory!Finish(c)
        BY <1>s, <2>1, <3>2, <3>5, <4>1, StepReturns DEF Ends
      <4> QED
        BY <4>2 DEF Memory!MemoryNext
    <3> QED
      BY <3>1, <3>3, <3>4, <3>5
  <2> QED
    BY <2>3, <2>4, CallsMove
<1>2. CASE \E b \in Addr : ~ (StaleHolders(b) = {} <=> StaleHolders(b)' = {})
  <2>1. PICK b \in Addr : StaleHolders(b) # {} /\ StaleHolders(b)' = {}
    BY <1>2, WordsLast
  <2>2. \A i \in Node : Kept(i)
    BY <2>1, <1>a, CallsMove, OldCopiesStay
  <2>3. PICK w \in MayWrite[b] : WriteApplied(w, b)
    BY <2>1, <1>a DEF OldCopiesAwaitWriter
  <2>4. w \in Node
    BY DataAssumption, NodesAssumption
  <2>5. ASSUME NEW a \in Addr, a # b
        PROVE  StaleHolders(a) = {} /\ StaleHolders(a)' = {}
               /\ MemoryValue(a)' = MemoryValue(a)
    <3>1. victim = b
      BY <2>1, <1>a, OldCopiesScheduled DEF Scheduled
    <3>2. StaleHolders(a) = {}
      BY <2>5, <3>1, <1>a, OldCopiesScheduled DEF Scheduled
    <3> QED
      BY <3>2, WordsLast
  <2>6. op[w].kind = "WRITE" /\ op[w].addr = b /\ Phase(w) = "done"
    BY <2>3 DEF WriteApplied, Phase, Applied
  <2>7. CallPhase(w) = "pending" /\ CallPhase(w)' = "done"
    BY <2>1, <2>2, <2>4, <2>6 DEF CallPhase, Kept
  <2>8. ASSUME NEW i \in Node \ {w} PROVE SameCall(i)
    <3>1. op[i].kind = "WRITE" /\ Phase(i) = "done" => op[i].addr # b
      BY <1>a, <2>3, DoneWrites DEF SingleWriter
    <3> QED
      BY <1>a, <2>2, <2>5, <3>1, SameCallIf DEF Kept
  <2>9. MemoryValue(b)' = Result(w)
    <3>1. dir[b].data = op[w].val
      BY <1>a, <2>3, <2>4 DEF CoherenceInv, WritesApplied
    <3> QED
      BY <2>1, <2>6, <3>1, WordsLast DEF Result
  <2>10. Memory!TakeEffect(w)
    BY <1>s, <2>2, <2>4, <2>5, <2>6, <2>7, <2>8, <2>9, StepWrites DEF Kept
  <2> QED
    BY <2>4, <2>10 DEF Memory!MemoryNext
<1> QED
  BY <1>1, <1>2

\* handleWrite and startInvalidations: the write happens now, or with the last
\* old copy.
LEMMA HandledWriteMaps ==
    ASSUME AtomicityInv, AtomicityInv', \A a \in Addr : SingleWriter(a),
           NEW n \in Node, Step(n), HandleWrite(n) \/ StartInvalidations(n)
    PROVE  Memory!MemoryNext \/ UNCHANGED Memory!memoryVars
<1>a. /\ CoherenceInv /\ CoherenceInv'
      /\ Typed /\ StagesFit /\ MessagesFit /\ SessionsPaired /\ HomeIsLocal
  BY TypesHold DEF AtomicityInv, CoherenceInv, FreshInv
<1>s. Shown /\ Shown'
  BY CallsShown, CallsShownNext
<1>1. PICK c \in Node :
          LET a == op[c].addr IN
          /\ a \in Addr /\ c \in MayWrite[a] /\ c # n /\ n = Home
          /\ stage[c] = "access" /\ op[c].kind = "WRITE" /\ rpc[c] = "sent"
          /\ stage[n] \in {"idle", "recall"} /\ rpc[n] = "none"
          /\ targets = << >>
          /\ dir' = [dir EXCEPT ![a] = Written(c, op[c].val)]
          /\ op' = op /\ cache' = cache
          /\ \A i \in Node \ {c, Home} : rpc'[i] = rpc[i] /\ stage'[i] = stage[i]
          /\ stage'[c] = "access" /\ rpc'[c] = "answered"
          /\ \/ /\ HandleWrite(n) /\ msg'[c].imm = "DEFAULT"
                /\ targets' = << >> /\ stage' = stage /\ rpc'[Home] = "none"
             \/ /\ StartInvalidations(n) /\ msg'[c].imm = "INVALIDATE"
                /\ victim' = a /\ stage'[Home] = "bcast"
          /\ \A i \in Node \ {c} : msg'[i] = msg[i]
  BY WriteHandled, <1>a
<1> DEFINE a == op[c].addr
<1>2. \A b \in Addr : StaleHolders(b) = {} /\ MemoryValue(b) = dir[b].data
  BY <1>1, <1>a, NoOldCopies DEF MemoryValue
<1>3. \A b \in Addr : StaleHolders(b)' # {} => b = a
  BY <1>1, <1>a, NoOldCopiesNext, OldCopiesScheduledNext DEF Scheduled
<1>4. ASSUME NEW b \in Addr, b # a PROVE MemoryValue(b)' = MemoryValue(b)
  BY <1>1, <1>2, <1>3, <1>4, <1>a DEF MemoryValue, Typed
<1>5. ASSUME NEW i \in Node \ {c} PROVE Kept(i)
  <2>1. CASE i # Home
    BY <1>1, <2>1 DEF Kept, Phase, Applied, Result, WriteApplied
  <2>2. CASE i = Home
    <3>1. stage[i] = "idle" /\ stage'[i] \in {"idle", "bcast"}
      BY <1>1, <1>a, <2>2 DEF HomeIsLocal
    <3> QED
      BY <1>1, <3>1 DEF Kept, Phase, Result
  <2> QED
    BY <2>1, <2>2
<1>6. ASSUME NEW i \in Node \ {c} PROVE SameCall(i)
  <2>1. op[i].kind = "WRITE" /\ Phase(i) = "done" => op[i].addr # a
    BY <1>1, <1>a, DoneWrites DEF SingleWriter
  <2>2. op[i].addr \in Addr
    BY <1>a DEF Typed
  <2> QED
    BY <1>2, <1>3, <1>5, <2>1, <2>2, SameCallIf DEF Kept
<1>7. /\ Phase(c) = "pending" /\ Phase(c)' = "done"
      /\ Result(c) = op[c].val /\ Result(c)' = op[c].val
  BY <1>1 DEF Phase, Applied, Result, WriteApplied
<1>8. CASE StaleHolders(a)' = {}
  <2>1. CallPhase(c) = "pending" /\ CallPhase(c)' = "done"
    BY <1>1, <1>7, <1>8 DEF CallPhase
  <2>2. MemoryValue(a)' = Result(c)
    BY <1>1, <1>7, <1>8, <1>a DEF MemoryValue, Written, Typed
  <2>3. Memory!TakeEffect(c)
    BY <1>1, <1>4, <1>6, <1>7, <1>s, <2>1, <2>2, StepWrites
  <2> QED
    BY <2>3 DEF Memory!MemoryNext
<1>9. CASE StaleHolders(a)' # {}
  <2>1. SameCall(c)
    BY <1>1, <1>2, <1>7, <1>9 DEF SameCall, CallPhase
  <2>2. MemoryValue(a)' = MemoryValue(a)
    <3>1. PICK i \in StaleHolders(a)' : MemoryValue(a)' = cache'[i][a]
      BY <1>1, <1>9 DEF MemoryValue
    <3>2. i \in Node \ MayWrite[a] /\ cache'[i][a] # None
      BY <1>1, <1>a, <3>1, OldCopiesScheduledNext DEF StaleHolders
    <3>3. cache[i][a] \in {None, dir[a].data}
      BY <1>1, <1>9, <1>a, <3>2, OldCopiesArise
    <3> QED
      BY <1>1, <1>2, <3>1, <3>2, <3>3
  <2>3. SameWords
    BY <1>1, <1>4, <2>2 DEF SameWords
  <2> QED
    BY <1>6, <1>s, <2>1, <2>3, StepStutters
<1> QED
  BY <1>8, <1>9

\* A write at home happens when it is stored.
LEMMA HomeWriteMaps ==
    ASSUME AtomicityInv, AtomicityInv', \A a \in Addr : SingleWriter(a),
           NEW n \in Node, Step(n), LocalWrite(n) \/ EndBroadcast(n)
    PROVE  Memory!MemoryNext \/ UNCHANGED Memory!memoryVars
<1>a. /\ CoherenceInv /\ CoherenceInv'
      /\ Typed /\ StagesFit /\ MessagesFit /\ SessionsPaired /\ HomeIsLocal
  BY TypesHold DEF AtomicityInv, CoherenceInv, FreshInv
<1>s. Shown /\ Shown'
  BY CallsShown, CallsShownNext
<1>1. /\ n = Home /\ op' = op /\ cache' = cache /\ UNCHANGED msg
      /\ \A i \in Node \ {Home} : rpc'[i] = rpc[i] /\ stage'[i] = stage[i]
  BY <1>a, HomeStores
<1>2. ~ HandleWrite(n) /\ ~ StartInvalidations(n)
  BY <1>a, WriteHandled DEF LocalWrite, EndBroadcast
<1>3. \A b \in Addr : /\ StaleHolders(b) = {} /\ StaleHolders(b)' = {}
                      /\ MemoryValue(b) = dir[b].data
                      /\ MemoryValue(b)' = dir'[b].data
  BY <1>2, <1>a, OldCopiesArise DEF MemoryValue
<1>4. \A i \in Node : op[i].addr \in Addr
  BY <1>a DEF Typed
<1>5. ASSUME NEW i \in Node, Kept(i) PROVE SameCall(i)
  BY <1>3, <1>4, <1>5, SameCallIf DEF Kept
<1>6. \A i \in Node \ {Home} : SameCall(i)
  BY <1>1, <1>5 DEF Kept, Phase, Applied, Result, WriteApplied
<1>7. Home \in Node
  BY NodesAssumption
<1>8. CASE dir' = dir /\ Kept(Home)
  <2>1. SameWords
    BY <1>3, <1>8 DEF SameWords
  <2> QED
    BY <1>5, <1>6, <1>7, <1>8, <1>s, <2>1, StepStutters
<1>9. CASE /\ dir' = [dir EXCEPT ![op[Home].addr] = WrittenAtHome(op[Home].val)]
           /\ op[Home].kind = "WRITE" /\ stage'[Home] = "unlock"
           /\ stage[Home] \in {"access", "wbcast"}
           /\ stage[Home] = "access" => rpc[Home] = "none"
  <2>1. /\ Phase(Home) = "pending" /\ Phase(Home)' = "done"
        /\ Result(Home) = op[Home].val /\ Result(Home)' = op[Home].val
    BY <1>1, <1>9 DEF Phase, Applied, Result, WriteApplied
  <2>2. CallPhase(Home) = "pending" /\ CallPhase(Home)' = "done"
    BY <1>1, <1>3, <1>4, <1>7, <2>1 DEF CallPhase
  <2>3. /\ MemoryValue(op[Home].addr)' = Result(Home)
        /\ \A b \in Addr \ {op[Home].addr} : MemoryValue(b)' = MemoryValue(b)
    BY <1>1, <1>3, <1>4, <1>7, <1>9, <1>a, <2>1 DEF WrittenAtHome, Typed
  <2>4. Memory!TakeEffect(Home)
    BY <1>1, <1>4, <1>6, <1>7, <1>9, <1>s, <2>1, <2>2, <2>3, StepWrites
  <2> QED
    BY <1>7, <2>4 DEF Memory!MemoryNext
<1>10. CASE LocalWrite(n)
  <2>1. stage[Home] = "access" /\ rpc[Home] = "none" /\ op[Home].kind = "WRITE"
    BY <1>1, <1>10 DEF LocalWrite
  <2>2. CASE NeedsInvalidation(dir[op[n].addr])
    <3>1. dir' = dir /\ stage'[Home] = "wbcast"
      BY <1>1, <1>10, <1>a, <1>7, <2>2 DEF LocalWrite, Enter, Typed
    <3>2. Kept(Home)
      BY <1>1, <2>1, <3>1 DEF Kept, Phase, Applied, Result, WriteApplied
    <3> QED
      BY <1>8, <3>1, <3>2
  <2>3. CASE ~ NeedsInvalidation(dir[op[n].addr])
    BY <1>1, <1>10, <1>a, <1>7, <1>9, <2>1, <2>3 DEF LocalWrite, Enter, Typed
  <2> QED
    BY <2>2, <2>3
<1>11. CASE EndBroadcast(n)
  <2>1. CASE stage[Home] = "bcast"
    <3>1. dir' = dir /\ stage'[Home] = "idle"
      BY <1>1, <1>11, <1>a, <1>7, <2>1 DEF EndBroadcast, Enter, Typed
    <3>2. Kept(Home)
      BY <1>1, <2>1, <3>1 DEF Kept, Phase, Result
    <3> QED
      BY <1>8, <3>1, <3>2
  <2>2. CASE stage[Home] = "wbcast"
    <3>1. op[Home].kind = "WRITE"
      BY <1>a, <1>7, <2>2 DEF StagesFit
    <3> QED
      BY <1>1, <1>11, <1>a, <1>7, <1>9, <2>2, <3>1 DEF EndBroadcast, Enter, Typed
  <2> QED
    BY <1>1, <1>11, <2>1, <2>2 DEF EndBroadcast
<1> QED
  BY <1>10, <1>11

\* The processes start as the memory starts: every call is idle.
LEMMA InitMaps == ASSUME Init PROVE Memory!MemoryInit
<1>1. AtomicityInv
  BY AtomicityInvInit
<1>2. Shown /\ Typed
  BY <1>1, CallsShown, TypesHold DEF AtomicityInv, CoherenceInv, FreshInv
<1>3. \A b \in Addr : MemoryValue(b) \in Value
  <2>1. \A b \in Addr : StaleHolders(b) = {}
    BY DEF Init, StaleHolders
  <2> QED
    BY <2>1, <1>2 DEF MemoryValue, Typed
<1>4. \A i \in Node : MemoryCall(i) \in {c \in Memory!Call : c.phase = "idle"}
  <2> SUFFICES ASSUME NEW i \in Node
               PROVE  MemoryCall(i) \in {c \in Memory!Call : c.phase = "idle"}
    OBVIOUS
  <2>1. Phase(i) = "idle" /\ Result(i) = op[i].val
    BY DEF Init, Phase, Result
  <2>2. CallPhase(i) = "idle"
    BY <2>1 DEF CallPhase
  <2>3. MemoryCall(i) = [phase |-> "idle", kind |-> op[i].kind,
                         addr |-> op[i].addr, val |-> op[i].val]
    BY <1>2, <2>1, <2>2 DEF Shown
  <2> QED
    BY <1>2, <2>3 DEF Typed, Memory!Call
<1> QED
  BY <1>3, <1>4 DEF Memory!MemoryInit

\* With one writer for every address and any failures, the caches, the
\* broadcasts and the calls back together are one memory on which every read
\* and every write takes effect at one instant between its call and its
\* return, although the lock keeps no reader away from a writer.
THEOREM ReadsAndWritesAreAtomic ==
    ASSUME \A a \in Addr : SingleWriter(a)
    PROVE  Spec => ImplementsAtomicMemory
<1>1. Init => Memory!MemoryInit
  BY InitMaps
<1>2. AtomicityInv /\ AtomicityInv' /\ [Next]_vars
          => [Memory!MemoryNext]_(Memory!memoryVars)
  <2> SUFFICES ASSUME AtomicityInv, AtomicityInv', [Next]_vars
               PROVE  Memory!MemoryNext \/ UNCHANGED Memory!memoryVars
    OBVIOUS
  <2>1. ASSUME NEW n \in Node, Step(n)
        PROVE  Memory!MemoryNext \/ UNCHANGED Memory!memoryVars
    BY <2>1, OtherStepsMap, HandledWriteMaps, HomeWriteMaps
  <2>2. CASE UNCHANGED vars
    BY <2>2 DEF vars, Memory!memoryVars, MemoryValue, MemoryCall, TookEffect,
        StaleHolders, WriteInFlight, WriteApplied
  <2> QED
    BY <2>1, <2>2 DEF Next
<1> QED
  BY <1>1, <1>2, AtomicityInvariant, PTL
  DEF Spec, ImplementsAtomicMemory, Memory!MemorySpec

-----------------------------------------------------------------------------
(* Room in the caches.                                                     *)

\* The operation of n may still put the word it is about into n's cache.
MayAdd(n) ==
    \/ stage[n] = "lock"
    \/ stage[n] = "access" /\ op[n].kind = "READ" /\ rpc[n] \notin {"closing", "closed"}
    \/ stage[n] = "access" /\ rpc[n] \in {"connect", "backlog", "open"}

\* There is room for that word, or it is there already.
RoomKept ==
    \A n \in Node : MayAdd(n) /\ status[n] = "up" =>
        cache[n][op[n].addr] # None \/ avail[n] > 0

\* A process that has ended is not in a session.
EndedQuietly == \A n \in Node : status[n] # "up" => rpc[n] \in {"none", "connect"}

RoomInv == EndedQuietly /\ RoomKept

\* With room, a word is put into a cache, and nothing is evicted for it.
LEMMA NothingEvicted ==
    ASSUME CoherenceInv, RoomKept, NEW n \in Node, ReadReturned(n) \/ CallWrite(n)
    PROVE  /\ UNCHANGED status
           /\ \E v \in Value : cache' = [cache EXCEPT ![n][op[n].addr] = v]
           /\ \A i \in Node \ {n} : avail'[i] = avail[i]
<1>a. /\ Typed /\ StagesFit /\ MessagesFit /\ CopiesFit
      /\ avail \in [Node -> 0 .. CacheSize]
  BY TypesHold DEF CoherenceInv, FreshInv, TypeOK, CacheTypeOK
<1>b. avail[n] \in Nat /\ CacheSize \in Nat
  BY <1>a, BoundsAssumption
<1>1. CASE ReadReturned(n)
  <2>1. /\ status[n] = "up" /\ stage[n] = "access" /\ op[n].kind = "READ" /\ rpc[n] = "answered"
        /\ msg[n].val \in Value
    BY <1>1, <1>a DEF ReadReturned, Answered, MessagesFit
  <2>2. cache[n][op[n].addr] = None
    BY <1>a, <2>1 DEF CopiesFit
  <2>3. avail[n] > 0 /\ avail[n] # 0
    BY <1>b, <2>1, <2>2 DEF RoomKept, MayAdd
  <2> QED
    BY <1>1, <1>a, <2>1, <2>3 DEF ReadReturned, AddCacheItem
<1>2. CASE CallWrite(n)
  <2>1. /\ status[n] = "up" /\ stage[n] = "access" /\ op[n].kind = "WRITE" /\ rpc[n] = "open"
        /\ op[n].val \in Value
    BY <1>2, <1>a DEF CallWrite, MessagesFit
  <2>2. cache[n][op[n].addr] # None \/ (avail[n] > 0 /\ avail[n] # 0)
    BY <1>b, <2>1 DEF RoomKept, MayAdd
  <2> QED
    BY <1>2, <1>a, <2>1, <2>2 DEF CallWrite, AlterCacheItem, AddCacheItem
<1> QED
  BY <1>1, <1>2

\* A process that has ended enters no session, and only the start of an operation,
\* which asks for room, makes it need some.
LEMMA RoomControl ==
    ASSUME CoherenceInv, RoomInv, NEW n \in Node, Step(n), NEW i \in Node
    PROVE  /\ EndedQuietly'
           /\ MayAdd(i)' => \/ i = n /\ StartOp(n)
                            \/ MayAdd(i) /\ op'[i].addr = op[i].addr
<1>a. Typed /\ StagesFit /\ MessagesFit /\ SessionsPaired
  BY TypesHold DEF CoherenceInv, FreshInv
<1>t. /\ stage \in [Node -> Stage] /\ rpc \in [Node -> Rpc]
      /\ serve \in [Node -> {"off", "listen", "session"}]
      /\ peer \in [Node -> Node] /\ backlog \in [Node -> SUBSET Node]
      /\ op \in [Node -> Operation] /\ msg \in [Node -> Message]
  BY <1>a DEF Typed
<1>s. status \in [Node -> Status]
  BY DEF CoherenceInv, FreshInv, TypeOK, ControlTypeOK
<1>r. EndedQuietly /\ RoomKept
  BY DEF RoomInv
<1>1. CASE Serve(n)
  BY <1>1, <1>a, <1>t, <1>s, <1>r DEF Serve, opVars, netVars, cacheVars, homeVars,
     EndedQuietly, MayAdd, StagesFit
<1>2. CASE \E a \in Addr : StartRead(n, a)
  <2>1. i = n => StartOp(n)
    BY <1>2 DEF StartOp
  <2> QED
    BY <1>2, <2>1, <1>t, <1>s, <1>r DEF MayAdd, EndedQuietly, StartRead, Start, Enter, netVars
<1>3. CASE \E a \in Addr, v \in Value : StartWrite(n, a, v)
  <2>1. i = n => StartOp(n)
    BY <1>3 DEF StartOp
  <2> QED
    BY <1>3, <2>1, <1>t, <1>s, <1>r DEF MayAdd, EndedQuietly, StartWrite, Start, Enter, netVars
<1>4. CASE Connect(n)
  BY <1>4, <1>a, <1>t, <1>s, <1>r DEF Connect, opVars, cacheVars, homeVars,
     EndedQuietly, MayAdd, StagesFit
<1>5. CASE GiveUp(n)
  BY <1>5, <1>a, <1>t, <1>s, <1>r DEF GiveUp, Die, opVars, netVars, serverVars,
     homeVars, EndedQuietly, MayAdd, StagesFit
<1>6. CASE LockLocally(n)
  BY <1>6, <1>a, <1>t, <1>s, <1>r DEF LockLocally, Enter, AccessPhase, serverVars,
     cacheVars, homeVars, EndedQuietly, MayAdd, StagesFit
<1>7. CASE UnlockLocally(n)
  BY <1>7, <1>a, <1>t, <1>s, <1>r DEF UnlockLocally, Enter, serverVars, cacheVars,
     homeVars, EndedQuietly, MayAdd, StagesFit
<1>8. CASE CallLock(n)
  BY <1>8, <1>a, <1>t, <1>s, <1>r DEF CallLock, Call, Packet, opVars, serverVars,
     cacheVars, homeVars, EndedQuietly, MayAdd, StagesFit
<1>9. CASE LockAnswered(n)
  BY <1>9, <1>a, <1>t, <1>s, <1>r DEF LockAnswered, Answered, Close, Packet,
     serverVars, cacheVars, homeVars, EndedQuietly, MayAdd, StagesFit
<1>10. CASE EnterAccess(n)
  BY <1>10, <1>a, <1>t, <1>s, <1>r DEF EnterAccess, Enter, AccessPhase, serverVars,
     cacheVars, homeVars, EndedQuietly, MayAdd, StagesFit
<1>11. CASE EnterUnlock(n)
  BY <1>11, <1>a, <1>t, <1>s, <1>r DEF EnterUnlock, Enter, LockPhase, serverVars,
     cacheVars, homeVars, EndedQuietly, MayAdd, StagesFit
<1>12. CASE Return(n)
  BY <1>12, <1>a, <1>t, <1>s, <1>r DEF Return, Enter, Die, serverVars, homeVars,
     EndedQuietly, MayAdd, StagesFit
<1>13. CASE CachedRead(n)
  BY <1>13, <1>a, <1>t, <1>s, <1>r DEF CachedRead, ReadValue, Enter, LockPhase,
     serverVars, cacheVars, homeVars, EndedQuietly, MayAdd, StagesFit
<1>14. CASE LocalRead(n)
  BY <1>14, <1>a, <1>t, <1>s, <1>r DEF LocalRead, ReadValue, Enter, LockPhase,
     serverVars, cacheVars, homeVars, EndedQuietly, MayAdd, StagesFit
<1>15. CASE CallRead(n)
  BY <1>15, <1>a, <1>t, <1>s, <1>r DEF CallRead, Call, Packet, opVars, serverVars,
     cacheVars, homeVars, EndedQuietly, MayAdd, StagesFit
<1>16. CASE ReadReturned(n)
  <2>1. UNCHANGED status /\ status[n] = "up"
    BY <1>16, <1>r, NothingEvicted DEF ReadReturned, Answered
  <2> QED
    BY <1>16, <2>1, <1>t, <1>s, <1>r DEF ReadReturned, ReadValue, Close, EndedQuietly, MayAdd
<1>17. CASE CallWrite(n)
  <2>1. UNCHANGED status /\ status[n] = "up"
    BY <1>17, <1>r, NothingEvicted DEF CallWrite
  <2> QED
    BY <1>17, <2>1, <1>t, <1>s, <1>r DEF CallWrite, Call, opVars, EndedQuietly, MayAdd
<1>18. CASE WriteReturned(n)
  BY <1>18, <1>a, <1>t, <1>s, <1>r DEF WriteReturned, Answered, Close, Packet,
     opVars, serverVars, cacheVars, homeVars, EndedQuietly, MayAdd, StagesFit
<1>19. CASE WriteRecalled(n)
  BY <1>19, <1>a, <1>t, <1>s, <1>r DEF WriteRecalled, Answered, Enter, cacheVars,
     homeVars, EndedQuietly, MayAdd, StagesFit
<1>20. CASE CloseReconnected(n)
  BY <1>20, <1>a, <1>t, <1>s, <1>r DEF CloseReconnected, Close, Packet, opVars,
     serverVars, cacheVars, homeVars, EndedQuietly, MayAdd, StagesFit
<1>21. CASE LocalWrite(n)
  BY <1>21, <1>a, <1>t, <1>s, <1>r DEF LocalWrite, Enter, LockPhase, serverVars,
     cacheVars, EndedQuietly, MayAdd, StagesFit
<1>22. CASE CallInvalidate(n)
  BY <1>22, <1>a, <1>t, <1>s, <1>r DEF CallInvalidate, Call, Packet, opVars,
     serverVars, cacheVars, homeVars, EndedQuietly, MayAdd, StagesFit
<1>23. CASE InvalidationAnswered(n)
  BY <1>23, <1>a, <1>t, <1>s, <1>r DEF InvalidationAnswered, Answered, Close,
     Packet, opVars, serverVars, cacheVars, homeVars, EndedQuietly, MayAdd,
     StagesFit
<1>24. CASE NextTarget(n)
  BY <1>24, <1>a, <1>t, <1>s, <1>r DEF NextTarget, opVars, serverVars, cacheVars,
     EndedQuietly, MayAdd, StagesFit
<1>25. CASE EndBroadcast(n)
  BY <1>25, <1>a, <1>t, <1>s, <1>r DEF EndBroadcast, Enter, serverVars, cacheVars,
     EndedQuietly, MayAdd, StagesFit
<1>26. CASE Accept(n)
  <2>1. \A c \in backlog[n] : rpc[c] = "backlog"
    BY <1>a, <1>t DEF SessionsPaired
  <2> QED
    BY <1>26, <2>1, <1>t, <1>s, <1>r DEF Accept, Die, opVars, EndedQuietly, MayAdd
<1>27. CASE HandleReset(n)
  BY <1>27, <1>a, <1>t, <1>s, <1>r DEF HandleReset, cacheVars, homeVars,
     EndedQuietly, MayAdd, StagesFit
<1>28. CASE HandleLocks(n)
  <2>1. PICK c \in Node : HandleLocks(n)!(c)
    BY <1>28 DEF HandleLocks
  <2>2. /\ rpc[c] = "sent" /\ rpc[n] = "none" /\ stage[n] \in {"idle", "recall"}
        /\ n # c /\ stage[c] \in {"lock", "unlock"}
    BY <1>a, <2>1, ServedClient DEF Receives
  <2> QED
    BY <2>1, <2>2, <1>a, <1>t, <1>s, <1>r DEF Answer, Packet, opVars, serverVars,
       cacheVars, homeVars, EndedQuietly, MayAdd, StagesFit
<1>29. CASE HandleRead(n)
  <2>1. PICK c \in Node : HandleRead(n)!(c)
    BY <1>29 DEF HandleRead
  <2>2. /\ rpc[c] = "sent" /\ rpc[n] = "none" /\ stage[n] \in {"idle", "recall"}
        /\ n # c /\ stage[c] = "access" /\ op[c].kind = "READ" /\ n = Home
    BY <1>a, <2>1, ServedClient DEF Receives
  <2> QED
    BY <2>1, <2>2, <1>a, <1>t, <1>s, <1>r DEF Answer, Packet, Die, opVars, netVars,
       serverVars, EndedQuietly, MayAdd, StagesFit
<1>30. CASE HandleWrite(n)
  <2>1. PICK c \in Node : HandleWrite(n)!(c)
    BY <1>30 DEF HandleWrite
  <2>2. /\ rpc[c] = "sent" /\ rpc[n] = "none" /\ stage[n] \in {"idle", "recall"}
        /\ n # c /\ stage[c] = "access" /\ op[c].kind = "WRITE" /\ n = Home
    BY <1>a, <2>1, ServedClient DEF Receives
  <2> QED
    BY <2>1, <2>2, <1>a, <1>t, <1>s, <1>r DEF Answer, Packet, opVars, serverVars,
       cacheVars, EndedQuietly, MayAdd, StagesFit
<1>31. CASE StartInvalidations(n)
  <2>1. PICK c \in Node : StartInvalidations(n)!(c)
    BY <1>31 DEF StartInvalidations
  <2>2. /\ rpc[c] = "sent" /\ rpc[n] = "none" /\ stage[n] \in {"idle", "recall"}
        /\ n # c /\ stage[c] = "access" /\ op[c].kind = "WRITE" /\ n = Home
    BY <1>a, <2>1, ServedClient DEF Receives
  <2> QED
    BY <2>1, <2>2, <1>a, <1>t, <1>s, <1>r DEF Packet, cacheVars, EndedQuietly,
       MayAdd, StagesFit
<1>32. CASE HandleInvalidation(n)
  <2>1. PICK c \in Node : HandleInvalidation(n)!(c)
    BY <1>32 DEF HandleInvalidation
  <2>2. /\ rpc[c] = "sent" /\ rpc[n] = "none" /\ stage[n] \in {"idle", "recall"}
        /\ n # c /\ stage[c] \in {"bcast", "wbcast"} /\ c = Home
    BY <1>a, <2>1, ServedClient DEF Receives
  <2> QED
    BY <2>1, <2>2, <1>a, <1>t, <1>s, <1>r DEF Answer, Packet, opVars, serverVars,
       homeVars, EndedQuietly, MayAdd, StagesFit
<1> QED
  BY <1>1, <1>2, <1>3, <1>4, <1>5, <1>6, <1>7, <1>8, <1>9, <1>10, <1>11, <1>12,
     <1>13, <1>14, <1>15, <1>16, <1>17, <1>18, <1>19, <1>20, <1>21, <1>22, <1>23,
     <1>24, <1>25, <1>26, <1>27, <1>28, <1>29, <1>30, <1>31, <1>32 DEF Step,
     StartOp, ClientStep, ServerStep

\* Only the operation itself uses up the room it has found.
LEMMA RoomKeptStep ==
    ASSUME CacheReserve # 0, CoherenceInv, RoomInv, NEW n \in Node, Step(n)
    PROVE  RoomKept'
<1>a. /\ Typed /\ StagesFit /\ MessagesFit /\ SessionsPaired
      /\ avail \in [Node -> 0 .. CacheSize]
  BY TypesHold DEF CoherenceInv, FreshInv, TypeOK, CacheTypeOK
<1>b. RoomKept /\ status \in [Node -> Status]
  BY DEF RoomInv, CoherenceInv, FreshInv, TypeOK, ControlTypeOK
<1> SUFFICES ASSUME NEW i \in Node, MayAdd(i)', status'[i] = "up"
             PROVE  cache'[i][op'[i].addr] # None \/ avail'[i] > 0
  BY DEF RoomKept
<1>1. CASE StartOp(n) /\ i = n
  <2>1. /\ op'[n].addr \in Addr /\ UNCHANGED cacheVars
        /\ cache[n][op'[n].addr] # None \/ avail[n] >= CacheReserve
    BY <1>1, <1>a DEF StartOp, StartRead, StartWrite, Start, Typed
  <2>2. CacheReserve > 0 /\ CacheReserve \in Nat /\ avail[n] \in Nat
    BY <1>a, BoundsAssumption
  <2> QED
    BY <1>1, <2>1, <2>2 DEF cacheVars
<1>2. CASE MayAdd(i) /\ op'[i].addr = op[i].addr
  <2>1. op[i].addr \in Addr
    BY <1>a DEF Typed
  <2>2. ASSUME ReadReturned(n) \/ CallWrite(n)
        PROVE  i # n
    <3>1. UNCHANGED status /\ status[n] = "up"
      BY <1>b, <2>2, NothingEvicted DEF ReadReturned, Answered, CallWrite
    <3>2. /\ rpc'[n] \in {"closing", "sent"} /\ stage'[n] = "access"
          /\ op'[n].kind = "READ" => rpc'[n] = "closing"
      BY <1>a, <2>2, <3>1 DEF ReadReturned, CallWrite, Close, Call, Typed, ReadValue, opVars
    <3> QED
      BY <3>2 DEF MayAdd
  <2>3. status[i] = "up" /\ cache'[i][op[i].addr] = cache[i][op[i].addr] /\ avail'[i] = avail[i]
    <3>1. CASE ReadReturned(n) \/ CallWrite(n)
      <4>1. PICK v \in Value : cache' = [cache EXCEPT ![n][op[n].addr] = v]
        BY <1>b, <3>1, NothingEvicted
      <4>2. UNCHANGED status /\ avail'[i] = avail[i]
        BY <1>b, <2>2, <3>1, NothingEvicted
      <4> QED
        BY <1>a, <2>1, <2>2, <3>1, <4>1, <4>2 DEF Typed
    <3>2. CASE GiveUp(n) \/ Return(n) \/ Accept(n) \/ HandleRead(n)
      <4>1. UNCHANGED <<status, cache>> \/ \E S : Die(S)
        BY <3>2 DEF GiveUp, Return, Accept, HandleRead
      <4>2. UNCHANGED avail
        BY <3>2 DEF GiveUp, Return, Accept, HandleRead
      <4> QED
        BY <4>1, <4>2 DEF Die
    <3>3. CASE HandleInvalidation(n)
      <4>1. PICK c \in Node : HandleInvalidation(n)!(c)
        BY <3>3 DEF HandleInvalidation
      <4>2. stage[n] \in {"idle", "recall"}
        BY <1>a, <4>1, ServedClient
      <4>3. i # n
        BY <1>2, <4>2 DEF MayAdd
      <4> QED
        BY <1>a, <4>1, <4>3 DEF Typed
    <3>4. CASE UNCHANGED cacheVars /\ UNCHANGED status
      BY <3>4 DEF cacheVars
    <3> QED
      BY <3>1, <3>2, <3>3, <3>4, StatusFootprint, CacheFootprint
  <2> QED
    BY <1>2, <1>b, <2>3 DEF RoomKept
<1> QED
  BY <1>1, <1>2, RoomControl

\* Every step leaves room where it is needed.
LEMMA RoomInvStep ==
    ASSUME CacheReserve # 0, CoherenceInv, RoomInv, NEW n \in Node, Step(n)
    PROVE  RoomInv'
  BY RoomControl, RoomKeptStep DEF RoomInv

-----------------------------------------------------------------------------
(* Nobody is listed twice while caches have room.                          *)

ListedOnce == \A a \in Addr : IsInjective(dir[a].sharers)

\* Why Home lists n as a sharer of a: n has the copy or the answer that brings
\* it, or Home is about to store its own write and to forget the list.
Holds(n, a) ==
    \/ cache[n][a] # None
    \/ /\ stage[n] = "access" /\ rpc[n] = "answered"
       /\ op[n].kind = "READ" /\ op[n].addr = a
    \/ stage[Home] = "wbcast" /\ victim = a

ListedHold ==
    \A a \in Addr : \A n \in Sharers(a) : status[n] = "up" => Holds(n, a)

\* handleWrite has already forgotten the sharers it invalidates.
NoneListed == stage[Home] = "bcast" => dir[victim].sharers = << >>

ListInv == ListedOnce /\ ListedHold /\ NoneListed

\* The answer of a read stays where it is until the reader takes it, and a write at
\* home keeps its broadcast until EndBroadcast.
LEMMA ReasonsLast ==
    ASSUME CoherenceInv, NEW n \in Node, Step(n), NEW i \in Node
    PROVE  /\ stage[i] = "access" /\ rpc[i] = "answered" /\ op[i].kind = "READ" =>
                  \/ ReadReturned(n) /\ i = n
                  \/ stage'[i] = "access" /\ rpc'[i] = "answered" /\ op'[i] = op[i]
           /\ stage[Home] = "wbcast" =>
                  \/ EndBroadcast(n) /\ n = Home
                  \/ stage'[Home] = "wbcast" /\ victim' = victim
<1>a. Typed /\ StagesFit /\ MessagesFit /\ SessionsPaired
  BY TypesHold DEF CoherenceInv, FreshInv
<1>t. /\ stage \in [Node -> Stage] /\ rpc \in [Node -> Rpc]
      /\ serve \in [Node -> {"off", "listen", "session"}]
      /\ peer \in [Node -> Node] /\ backlog \in [Node -> SUBSET Node]
      /\ op \in [Node -> Operation] /\ msg \in [Node -> Message]
  BY <1>a DEF Typed
<1>s. status \in [Node -> Status]
  BY DEF CoherenceInv, FreshInv, TypeOK, ControlTypeOK
<1>1. CASE Serve(n)
  BY <1>1, <1>a, <1>t, NodesAssumption DEF Serve, opVars, netVars, cacheVars,
     homeVars, StagesFit
<1>2. CASE \E a \in Addr : StartRead(n, a)
  BY <1>2, <1>a, <1>t, NodesAssumption DEF StartRead, Start, Enter, LockPhase,
     serverVars, cacheVars, homeVars, StagesFit
<1>3. CASE \E a \in Addr, v \in Value : StartWrite(n, a, v)
  BY <1>3, <1>a, <1>t, NodesAssumption DEF StartWrite, Start, Enter, LockPhase,
     serverVars, cacheVars, homeVars, StagesFit
<1>4. CASE Connect(n)
  BY <1>4, <1>a, <1>t, NodesAssumption DEF Connect, opVars, cacheVars, homeVars,
     StagesFit
<1>5. CASE GiveUp(n)
  BY <1>5, <1>a, <1>t, NodesAssumption DEF GiveUp, Die, opVars, netVars, serverVars,
     homeVars, StagesFit
<1>6. CASE LockLocally(n)
  BY <1>6, <1>a, <1>t, NodesAssumption DEF LockLocally, Enter, AccessPhase,
     serverVars, cacheVars, homeVars, StagesFit
<1>7. CASE UnlockLocally(n)
  BY <1>7, <1>a, <1>t, NodesAssumption DEF UnlockLocally, Enter, serverVars,
     cacheVars, homeVars, StagesFit
<1>8. CASE CallLock(n)
  BY <1>8, <1>a, <1>t, NodesAssumption DEF CallLock, Call, Packet, opVars,
     serverVars, cacheVars, homeVars, StagesFit
<1>9. CASE LockAnswered(n)
  BY <1>9, <1>a, <1>t, NodesAssumption DEF LockAnswered, Answered, Close, Packet,
     serverVars, cacheVars, homeVars, StagesFit
<1>10. CASE EnterAccess(n)
  BY <1>10, <1>a, <1>t, NodesAssumption DEF EnterAccess, Enter, AccessPhase,
     serverVars, cacheVars, homeVars, StagesFit
<1>11. CASE EnterUnlock(n)
  BY <1>11, <1>a, <1>t, NodesAssumption DEF EnterUnlock, Enter, LockPhase,
     serverVars, cacheVars, homeVars, StagesFit
<1>12. CASE Return(n)
  BY <1>12, <1>a, <1>t, NodesAssumption DEF Return, Enter, Die, serverVars,
     homeVars, StagesFit
<1>13. CASE CachedRead(n)
  BY <1>13, <1>a, <1>t, NodesAssumption DEF CachedRead, ReadValue, Enter, LockPhase,
     serverVars, cacheVars, homeVars, StagesFit
<1>14. CASE LocalRead(n)
  BY <1>14, <1>a, <1>t, NodesAssumption DEF LocalRead, ReadValue, Enter, LockPhase,
     serverVars, cacheVars, homeVars, StagesFit
<1>15. CASE CallRead(n)
  BY <1>15, <1>a, <1>t, NodesAssumption DEF CallRead, Call, Packet, opVars,
     serverVars, cacheVars, homeVars, StagesFit
<1>16. CASE ReadReturned(n)
  BY <1>16, <1>a, <1>t, NodesAssumption DEF ReadReturned, Answered, ReadValue,
     Close, Packet, netVars, serverVars, homeVars, StagesFit
<1>17. CASE CallWrite(n)
  BY <1>17, <1>a, <1>t, NodesAssumption DEF CallWrite, Call, Packet, opVars,
     netVars, serverVars, homeVars, StagesFit
<1>18. CASE WriteReturned(n)
  BY <1>18, <1>a, <1>t, NodesAssumption DEF WriteReturned, Answered, Close, Packet,
     opVars, serverVars, cacheVars, homeVars, StagesFit
<1>19. CASE WriteRecalled(n)
  BY <1>19, <1>a, <1>t, NodesAssumption DEF WriteRecalled, Answered, Enter,
     cacheVars, homeVars, StagesFit
<1>20. CASE CloseReconnected(n)
  BY <1>20, <1>a, <1>t, NodesAssumption DEF CloseReconnected, Close, Packet, opVars,
     serverVars, cacheVars, homeVars, StagesFit
<1>21. CASE LocalWrite(n)
  BY <1>21, <1>a, <1>t, NodesAssumption DEF LocalWrite, Enter, LockPhase,
     serverVars, cacheVars, StagesFit
<1>22. CASE CallInvalidate(n)
  BY <1>22, <1>a, <1>t, NodesAssumption DEF CallInvalidate, Call, Packet, opVars,
     serverVars, cacheVars, homeVars, StagesFit
<1>23. CASE InvalidationAnswered(n)
  BY <1>23, <1>a, <1>t, NodesAssumption DEF InvalidationAnswered, Answered, Close,
     Packet, opVars, serverVars, cacheVars, homeVars, StagesFit
<1>24. CASE NextTarget(n)
  BY <1>24, <1>a, <1>t, NodesAssumption DEF NextTarget, opVars, serverVars,
     cacheVars, StagesFit
<1>25. CASE EndBroadcast(n)
  BY <1>25, <1>a, <1>t, NodesAssumption DEF EndBroadcast, Enter, serverVars,
     cacheVars, StagesFit
<1>26. CASE Accept(n)
  <2>1. \A c \in backlog[n] : rpc[c] = "backlog"
    BY <1>a, <1>t DEF SessionsPaired
  <2> QED
    BY <1>26, <2>1, <1>t DEF Accept, opVars, homeVars
<1>27. CASE HandleReset(n)
  BY <1>27, <1>a, <1>t, NodesAssumption DEF HandleReset, cacheVars, homeVars,
     StagesFit
<1>28. CASE HandleLocks(n)
  <2>1. PICK c \in Node : HandleLocks(n)!(c)
    BY <1>28 DEF HandleLocks
  <2>2. /\ rpc[c] = "sent" /\ rpc[n] = "none" /\ stage[n] \in {"idle", "recall"}
        /\ n # c /\ stage[c] \in {"lock", "unlock"}
    BY <1>a, <2>1, ServedClient DEF Receives
  <2> QED
    BY <2>1, <2>2, <1>a, <1>t, NodesAssumption DEF Answer, Packet, opVars,
       serverVars, cacheVars, homeVars, StagesFit
<1>29. CASE HandleRead(n)
  <2>1. PICK c \in Node : HandleRead(n)!(c)
    BY <1>29 DEF HandleRead
  <2>2. /\ rpc[c] = "sent" /\ rpc[n] = "none" /\ stage[n] \in {"idle", "recall"}
        /\ n # c /\ stage[c] = "access" /\ op[c].kind = "READ" /\ n = Home
    BY <1>a, <2>1, ServedClient DEF Receives
  <2> QED
    BY <2>1, <2>2, <1>a, <1>t, NodesAssumption DEF Answer, Packet, Die, opVars,
       netVars, serverVars, StagesFit
<1>30. CASE HandleWrite(n)
  <2>1. PICK c \in Node : HandleWrite(n)!(c)
    BY <1>30 DEF HandleWrite
  <2>2. /\ rpc[c] = "sent" /\ rpc[n] = "none" /\ stage[n] \in {"idle", "recall"}
        /\ n # c /\ stage[c] = "access" /\ op[c].kind = "WRITE" /\ n = Home
    BY <1>a, <2>1, ServedClient DEF Receives
  <2> QED
    BY <2>1, <2>2, <1>a, <1>t, NodesAssumption DEF Answer, Packet, opVars,
       serverVars, cacheVars, StagesFit
<1>31. CASE StartInvalidations(n)
  <2>1. PICK c \in Node : StartInvalidations(n)!(c)
    BY <1>31 DEF StartInvalidations
  <2>2. /\ rpc[c] = "sent" /\ rpc[n] = "none" /\ stage[n] \in {"idle", "recall"}
        /\ n # c /\ stage[c] = "access" /\ op[c].kind = "WRITE" /\ n = Home
    BY <1>a, <2>1, ServedClient DEF Receives
  <2> QED
    BY <2>1, <2>2, <1>a, <1>t, NodesAssumption DEF Packet, cacheVars, StagesFit
<1>32. CASE HandleInvalidation(n)
  <2>1. PICK c \in Node : HandleInvalidation(n)!(c)
    BY <1>32 DEF HandleInvalidation
  <2>2. /\ rpc[c] = "sent" /\ rpc[n] = "none" /\ stage[n] \in {"idle", "recall"}
        /\ n # c /\ stage[c] \in {"bcast", "wbcast"} /\ c = Home
    BY <1>a, <2>1, ServedClient DEF Receives
  <2> QED
    BY <2>1, <2>2, <1>a, <1>t, NodesAssumption DEF Answer, Packet, opVars,
       serverVars, homeVars, StagesFit
<1> QED
  BY <1>1, <1>2, <1>3, <1>4, <1>5, <1>6, <1>7, <1>8, <1>9, <1>10, <1>11, <1>12,
     <1>13, <1>14, <1>15, <1>16, <1>17, <1>18, <1>19, <1>20, <1>21, <1>22, <1>23,
     <1>24, <1>25, <1>26, <1>27, <1>28, <1>29, <1>30, <1>31, <1>32 DEF Step,
     StartOp, ClientStep, ServerStep

\* A reader whose request Home has not answered yet is not a sharer.
LEMMA ReaderIsNew ==
    ASSUME CoherenceInv, RoomInv, ListInv, NEW n \in Node, HandleRead(n)
    PROVE  \E c \in Node :
               /\ op[c].addr \in Addr /\ c \notin Sharers(op[c].addr) /\ c # Home
               /\ op'[c] = op[c]
               /\ Holds(c, op[c].addr)' \/ UNCHANGED dir
               /\ \A b \in Addr :
                      \/ dir'[b].sharers = dir[b].sharers
                      \/ /\ b = op[c].addr
                         /\ dir'[b].sharers = Append(dir[b].sharers, c)
<1>a. /\ Typed /\ StagesFit /\ MessagesFit /\ SessionsPaired /\ CopiesFit
      /\ rpc \in [Node -> Rpc] /\ dir \in [Addr -> SaveData]
  BY TypesHold DEF CoherenceInv, FreshInv, Typed
<1>1. PICK c \in Node : HandleRead(n)!(c)
  BY DEF HandleRead
<1>2. /\ n = Home /\ stage[n] \in {"idle", "recall"} /\ n # c
      /\ stage[c] = "access" /\ op[c].kind = "READ" /\ rpc[c] = "sent"
      /\ msg[c].addr = op[c].addr /\ op[c].addr \in Addr
  BY <1>a, <1>1, ServedClient DEF Receives
<1>3. c \notin Sharers(op[c].addr)
  <2>1. status[c] = "up"
    BY <1>2 DEF RoomInv, EndedQuietly
  <2>2. ~ Holds(c, op[c].addr)
    BY <1>a, <1>2 DEF Holds, CopiesFit
  <2> QED
    BY <1>2, <2>1, <2>2 DEF ListInv, ListedHold
<1>4. CASE dir[msg[c].addr].iscached = "WILD"
  BY <1>1, <1>2, <1>3, <1>4 DEF opVars
<1>5. CASE dir[msg[c].addr].iscached # "WILD"
  <2>1. /\ dir' = [dir EXCEPT ![op[c].addr] = SharedBy(dir[op[c].addr], c)]
        /\ rpc' = [rpc EXCEPT ![c] = "answered"] /\ UNCHANGED opVars
    BY <1>1, <1>2, <1>5 DEF Answer
  <2>2. Holds(c, op[c].addr)'
    BY <1>a, <1>2, <2>1 DEF Holds, opVars
  <2>3. \A b \in Addr : b # op[c].addr => dir'[b].sharers = dir[b].sharers
    BY <1>a, <2>1
  <2>4. dir'[op[c].addr].sharers = Append(dir[op[c].addr].sharers, c)
    BY <1>a, <1>2, <2>1 DEF SharedBy
  <2>5. op'[c] = op[c]
    BY <2>1 DEF opVars
  <2>6. Holds(c, op[c].addr)' \/ UNCHANGED dir
    BY <2>2
  <2> QED
    BY <1>2, <1>3, <2>3, <2>4, <2>5, <2>6
<1> QED
  BY <1>4, <1>5

\* Who changes a list of sharers: handleRead appends to it; every write forgets it.
LEMMA ListsChange ==
    ASSUME CoherenceInv, NEW n \in Node, Step(n), ~ HandleRead(n), NEW b \in Addr
    PROVE  dir'[b].sharers \in {dir[b].sharers, << >>}
<1>a. dir \in [Addr -> SaveData]
  BY TypesHold DEF CoherenceInv, FreshInv, Typed
<1>1. CASE HandleWrite(n)
  BY <1>a, <1>1 DEF HandleWrite, Written
<1>2. CASE StartInvalidations(n)
  BY <1>a, <1>2 DEF StartInvalidations, Written
<1>3. CASE LocalWrite(n)
  BY <1>a, <1>3 DEF LocalWrite, WrittenAtHome
<1>4. CASE EndBroadcast(n)
  BY <1>a, <1>4 DEF EndBroadcast, WrittenAtHome
<1> QED
  BY <1>1, <1>2, <1>3, <1>4, DirFootprint

\* Home lists a reader behind the others, and lists only one that is new.
LEMMA ListedOnceStep ==
    ASSUME CoherenceInv, RoomInv, ListInv, NEW n \in Node, Step(n)
    PROVE  ListedOnce'
<1> SUFFICES ASSUME NEW b \in Addr PROVE IsInjective(dir'[b].sharers)
  BY DEF ListedOnce
<1>1. IsInjective(dir[b].sharers) /\ dir[b].sharers \in Seq(Node)
  BY TypesHold DEF ListInv, ListedOnce, CoherenceInv, FreshInv, Typed
<1>2. CASE HandleRead(n)
  <2>1. PICK c \in Node :
            /\ c \notin Sharers(op[c].addr)
            /\ \/ dir'[b].sharers = dir[b].sharers
               \/ /\ b = op[c].addr
                  /\ dir'[b].sharers = Append(dir[b].sharers, c)
    BY <1>2, ReaderIsNew
  <2>2. c \notin Range(dir[b].sharers) => IsInjective(Append(dir[b].sharers, c))
    BY <1>1, AppendOfNew
  <2> QED
    BY <1>1, <2>1, <2>2 DEF Sharers
<1>3. CASE ~ HandleRead(n)
  <2>1. IsInjective(<< >>)
    BY DEF IsInjective
  <2> QED
    BY <1>1, <1>3, <2>1, ListsChange
<1> QED
  BY <1>2, <1>3

\* A sharer that stays listed keeps the reason for it.
LEMMA SharerStays ==
    ASSUME CoherenceInv, RoomInv, ListInv, NEW n \in Node, Step(n),
           NEW b \in Addr, NEW i \in Node, i \in Sharers(b), i \in Sharers(b)',
           status[i] = "up", status'[i] = "up"
    PROVE  Holds(i, b)'
<1>a. /\ Typed /\ StagesFit /\ MessagesFit /\ SessionsPaired /\ RoomKept
      /\ cache \in [Node -> [Addr -> Value \cup {None}]]
  BY TypesHold DEF CoherenceInv, FreshInv, RoomInv, Typed
<1>1. CASE cache'[i][b] # None
  BY <1>1 DEF Holds
<1>2. CASE cache[i][b] # None /\ cache'[i][b] = None
  <2>1. ~ (ReadReturned(n) \/ CallWrite(n))
    <3> SUFFICES ASSUME ReadReturned(n) \/ CallWrite(n) PROVE FALSE
      OBVIOUS
    <3>1. PICK v \in Value : cache' = [cache EXCEPT ![n][op[n].addr] = v]
      BY <1>a, NothingEvicted
    <3> QED
      BY <1>a, <1>2, <3>1, DataAssumption
  <2>2. ~ (GiveUp(n) \/ Return(n) \/ Accept(n) \/ HandleRead(n))
    <3> SUFFICES ASSUME GiveUp(n) \/ Return(n) \/ Accept(n) \/ HandleRead(n) PROVE FALSE
      OBVIOUS
    <3>1. UNCHANGED <<status, cache>> \/ \E S : Die(S)
      BY DEF GiveUp, Return, Accept, HandleRead
    <3> QED
      BY <1>2, <3>1 DEF Die
  <2>3. HandleInvalidation(n)
    BY <1>2, <2>1, <2>2, CacheFootprint DEF cacheVars
  <2>4. PICK c \in Node : HandleInvalidation(n)!(c)
    BY <2>3 DEF HandleInvalidation
  <2>5. c = Home /\ stage[Home] \in {"bcast", "wbcast"} /\ msg[c].addr = victim
    BY <1>a, <2>4, ServedClient
  <2>6. b = victim
    BY <1>a, <1>2, <2>4, <2>5
  <2>7. stage[Home] # "bcast"
    BY <2>6, RangeOfEmpty DEF ListInv, NoneListed, Sharers
  <2>8. UNCHANGED <<opVars, homeVars>>
    BY <2>4
  <2> QED
    BY <2>5, <2>6, <2>7, <2>8 DEF Holds, opVars, homeVars
<1>3. CASE stage[i] = "access" /\ rpc[i] = "answered" /\ op[i].kind = "READ" /\ op[i].addr = b
  <2>1. CASE ReadReturned(n) /\ i = n
    <3>1. PICK v \in Value : cache' = [cache EXCEPT ![n][op[n].addr] = v]
      BY <1>a, <2>1, NothingEvicted
    <3> QED
      BY <1>a, <1>3, <2>1, <3>1, DataAssumption DEF Holds
  <2>2. CASE stage'[i] = "access" /\ rpc'[i] = "answered" /\ op'[i] = op[i]
    BY <1>3, <2>2 DEF Holds
  <2> QED
    BY <1>3, <2>1, <2>2, ReasonsLast
<1>4. CASE stage[Home] = "wbcast" /\ victim = b
  <2>1. CASE stage'[Home] = "wbcast" /\ victim' = victim
    BY <1>4, <2>1 DEF Holds
  <2>2. CASE EndBroadcast(n) /\ n = Home
    <3>1. op[Home].addr = b /\ dir \in [Addr -> SaveData]
      BY <1>a, <1>4 DEF CoherenceInv, BroadcastFits, Typed
    <3>2. dir'[b].sharers = << >>
      BY <1>4, <2>2, <3>1 DEF EndBroadcast, WrittenAtHome
    <3> QED
      BY <3>2, RangeOfEmpty DEF Sharers
  <2> QED
    BY <1>4, <2>1, <2>2, ReasonsLast
<1> QED
  BY <1>1, <1>2, <1>3, <1>4 DEF ListInv, ListedHold, Holds

\* Nobody comes back.
LEMMA EndedStaysEnded ==
    ASSUME CoherenceInv, RoomInv, NEW n \in Node, Step(n), NEW i \in Node, status'[i] = "up"
    PROVE  status[i] = "up"
<1>1. CASE ReadReturned(n) \/ CallWrite(n)
  BY <1>1, NothingEvicted DEF RoomInv
<1>2. CASE GiveUp(n) \/ Return(n) \/ Accept(n) \/ HandleRead(n)
  <2>1. UNCHANGED status \/ \E S : Die(S)
    BY <1>2 DEF GiveUp, Return, Accept, HandleRead
  <2> QED
    BY <2>1 DEF Die
<1> QED
  BY <1>1, <1>2, StatusFootprint

\* A running node that stays on a list keeps a reason to be there.
LEMMA ListedHoldStep ==
    ASSUME CoherenceInv, RoomInv, ListInv, NEW n \in Node, Step(n)
    PROVE  ListedHold'
<1>a. \A b \in Addr : dir[b].sharers \in Seq(Node)
  BY TypesHold DEF CoherenceInv, FreshInv, Typed
<1>1. ASSUME NEW b \in Addr, NEW i \in Sharers(b), i \in Sharers(b)', status'[i] = "up"
      PROVE  Holds(i, b)'
  <2>1. i \in Node
    BY <1>a DEF Sharers, Range
  <2> QED
    BY <1>1, <2>1, SharerStays, EndedStaysEnded
<1>2. ASSUME NEW b \in Addr, NEW i, i \in Sharers(b)', i \notin Sharers(b)
      PROVE  Holds(i, b)'
  <2>1. HandleRead(n)
    <3>1. dir'[b].sharers # << >> /\ dir'[b].sharers # dir[b].sharers
      BY <1>2, RangeOfEmpty DEF Sharers
    <3> QED
      BY <3>1, ListsChange
  <2>2. PICK c \in Node :
            /\ Holds(c, op[c].addr)' \/ UNCHANGED dir
            /\ \/ dir'[b].sharers = dir[b].sharers
               \/ b = op[c].addr /\ dir'[b].sharers = Append(dir[b].sharers, c)
            /\ op'[c] = op[c]
    BY <2>1, ReaderIsNew
  <2>3. dir'[b].sharers # dir[b].sharers
    BY <1>2 DEF Sharers
  <2>4. i = c
    <3>1. Range(Append(dir[b].sharers, c)) = Range(dir[b].sharers) \cup {c}
      BY <1>a, RangeOfAppend
    <3>2. i \in Range(dir'[b].sharers) /\ i \notin Range(dir[b].sharers)
      BY <1>2 DEF Sharers
    <3> QED
      BY <2>2, <2>3, <3>1, <3>2
  <2>5. op'[c].addr = b
    BY <2>2, <2>3
  <2> QED
    BY <2>2, <2>3, <2>4, <2>5 DEF Holds
<1> QED
  BY <1>1, <1>2 DEF ListedHold, Sharers

\* While startInvalidations works through its copy, Home lists nobody.
LEMMA NoneListedStep ==
    ASSUME CoherenceInv, ListInv, NEW n \in Node, Step(n)
    PROVE  NoneListed'
<1>a. /\ Typed /\ StagesFit /\ MessagesFit /\ SessionsPaired
      /\ stage \in [Node -> Stage] /\ dir \in [Addr -> SaveData]
  BY TypesHold DEF CoherenceInv, FreshInv, Typed
<1> SUFFICES ASSUME stage'[Home] = "bcast" PROVE dir'[victim'].sharers = << >>
  BY DEF NoneListed
<1>1. CASE StartInvalidations(n)
  <2>1. PICK c \in Node : StartInvalidations(n)!(c)
    BY <1>1 DEF StartInvalidations
  <2>2. msg[c].addr \in Addr
    BY <1>a, <2>1, ServedClient
  <2> QED
    BY <1>a, <2>1, <2>2 DEF Written
<1>2. ~ LocalWrite(n)
  BY <1>a, HomeStores DEF LocalWrite, Enter
<1>3. CASE ~ StartInvalidations(n)
  <2>1. stage[Home] = "bcast"
    BY <1>2, <1>3, BroadcastControl
  <2>2. ~ HandleRead(n)
    <3> SUFFICES ASSUME HandleRead(n) PROVE FALSE
      OBVIOUS
    <3>1. PICK c \in Node : Receives(n, c, "READ")
      BY DEF HandleRead
    <3> QED
      BY <1>a, <2>1, <3>1, ServedClient
  <2>3. victim' = victim
    BY <1>2, <1>3, TargetsFootprint DEF NextTarget, EndBroadcast
  <2>4. dir[victim].sharers = << >> /\ victim \in Addr
    BY <1>a, <2>1 DEF ListInv, NoneListed, Typed
  <2> QED
    BY <2>2, <2>3, <2>4, ListsChange
<1> QED
  BY <1>1, <1>3

\* Every step keeps the lists in order.
LEMMA ListInvStep ==
    ASSUME CoherenceInv, RoomInv, ListInv, NEW n \in Node, Step(n)
    PROVE  ListInv'
  BY ListedOnceStep, ListedHoldStep, NoneListedStep DEF ListInv

\* A list without repetitions is as long as its set is large.
LEMMA ListedOnceMeans == ASSUME CoherenceInv, ListedOnce PROVE SharersDistinct
<1> SUFFICES ASSUME NEW a \in Addr PROVE Cardinality(Sharers(a)) = Len(dir[a].sharers)
  BY DEF SharersDistinct
<1> DEFINE s == dir[a].sharers
<1>1. IsInjective(s) /\ s \in Seq(Node)
  BY TypesHold DEF ListedOnce, CoherenceInv, FreshInv, Typed
<1>2. Len(s) \in Nat /\ DOMAIN s = 1 .. Len(s) /\ s \in [1 .. Len(s) -> Range(s)]
  BY <1>1 DEF Range
<1> HIDE DEF s
<1>3. s \in Bijection(1 .. Len(s), Range(s))
  BY <1>1, <1>2 DEF Bijection, Injection, Surjection, IsInjective, Range
<1>4. ExistsBijection(1 .. Len(s), Range(s))
  BY <1>3 DEF ExistsBijection
<1> QED
  BY <1>2, <1>4, FS_CountingElements DEF s, Sharers

\* At first the lists are empty and no operation needs room.
LEMMA DistinctInit == ASSUME Init PROVE RoomInv /\ ListInv
<1>1. RoomInv
  BY DEF Init, RoomInv, EndedQuietly, RoomKept, MayAdd
<1>2. \A b \in Addr : dir[b].sharers = << >>
  BY DEF Init
<1>3. ListedOnce
  BY <1>2 DEF ListedOnce, IsInjective
<1>4. ListedHold
  BY <1>2, RangeOfEmpty DEF ListedHold, Sharers
<1>5. NoneListed
  BY NodesAssumption DEF Init, NoneListed
<1> QED
  BY <1>1, <1>3, <1>4, <1>5 DEF ListInv

\* In any deployment, with any failures, while caches have room: there is room
\* for what an operation brings, and nobody is listed twice.
THEOREM RoomAndLists ==
    ASSUME CacheReserve # 0 PROVE Spec => [](RoomInv /\ ListInv)
<1>1. CoherenceInv /\ RoomInv /\ ListInv /\ [Next]_vars => (RoomInv /\ ListInv)'
  <2> SUFFICES ASSUME CoherenceInv, RoomInv, ListInv, [Next]_vars PROVE (RoomInv /\ ListInv)'
    OBVIOUS
  <2>1. ASSUME NEW n \in Node, Step(n) PROVE (RoomInv /\ ListInv)'
    BY <2>1, RoomInvStep, ListInvStep
  <2>2. CASE UNCHANGED vars
    BY <2>2 DEF vars, RoomInv, EndedQuietly, RoomKept, MayAdd, ListInv, ListedOnce,
        ListedHold, Holds, NoneListed, Sharers
  <2> QED
    BY <2>1, <2>2 DEF Next
<1>2. Init => RoomInv /\ ListInv
  BY DistinctInit
<1> QED
  BY <1>1, <1>2, CoherenceInvariant, PTL DEF Spec

\* So a broadcast calls every sharer once.
THEOREM NobodyListedTwice ==
    ASSUME CacheReserve # 0 PROVE Spec => []SharersDistinct
<1>1. CoherenceInv /\ ListInv => SharersDistinct
  BY ListedOnceMeans DEF ListInv
<1> QED
  BY <1>1, CoherenceInvariant, RoomAndLists, PTL

-----------------------------------------------------------------------------
(* The lock that reads and writes take.                                    *)

\* The lock node has the table itself: it calls nobody for the lock.
LockIsLocal == stage[LockNode] \in {"lock", "denied", "unlock"} => rpc[LockNode] = "none"

\* Whoever asks the lock node for the lock asks for what its operation needs, and
\* is granted it or not.
LockAsked ==
    \A n \in Node : stage[n] \in {"lock", "unlock"} =>
        /\ rpc[n] = "sent" =>
               msg[n].val = IF stage[n] = "lock" THEN Wanted(n) ELSE "UNLOCKED"
        /\ rpc[n] = "answered" => msg[n].val \in Grant

LockCalls == LockIsLocal /\ LockAsked

\* No step changes a request for the lock.
LEMMA LockAskedStep ==
    ASSUME CoherenceInv, LockCalls, NEW n \in Node, Step(n), NEW i \in Node,
           stage'[i] \in {"lock", "unlock"}
    PROVE  /\ rpc'[i] = "sent" =>
                  msg'[i].val = IF stage'[i] = "lock" THEN Wanted(i)' ELSE "UNLOCKED"
           /\ rpc'[i] = "answered" => msg'[i].val \in Grant
<1>a. Typed /\ StagesFit /\ MessagesFit /\ SessionsPaired
  BY TypesHold DEF CoherenceInv, FreshInv
<1>t. /\ stage \in [Node -> Stage] /\ rpc \in [Node -> Rpc]
      /\ serve \in [Node -> {"off", "listen", "session"}]
      /\ peer \in [Node -> Node] /\ backlog \in [Node -> SUBSET Node]
      /\ op \in [Node -> Operation] /\ msg \in [Node -> Message]
  BY <1>a DEF Typed
<1>s. status \in [Node -> Status]
  BY DEF CoherenceInv, FreshInv, TypeOK, ControlTypeOK
<1>m. Home # LockNode /\ LockNode \in Node /\ LockIsLocal /\ LockAsked
      /\ stage[Home] \notin {"recall", "reconnect"}
  BY NodesAssumption DEF LockCalls, CoherenceInv, HomeIsLocal
<1>b. stage[n] \in {"bcast", "wbcast"} => n = Home /\ targets # << >>
  BY <1>a DEF StagesFit
<1>1. CASE Serve(n)
  BY <1>1, <1>m, <1>a, <1>b, <1>t DEF Serve, opVars, netVars, cacheVars, homeVars,
     StagesFit, Wanted, LockAsked, LockIsLocal, Grant
<1>2. CASE \E a \in Addr : StartRead(n, a)
  BY <1>2, <1>m, <1>a, <1>b, <1>t DEF StartRead, Start, Enter, LockPhase,
     serverVars, cacheVars, homeVars, StagesFit, Wanted, LockAsked, LockIsLocal,
     Grant
<1>3. CASE \E a \in Addr, v \in Value : StartWrite(n, a, v)
  BY <1>3, <1>m, <1>a, <1>b, <1>t DEF StartWrite, Start, Enter, LockPhase,
     serverVars, cacheVars, homeVars, StagesFit, Wanted, LockAsked, LockIsLocal,
     Grant
<1>4. CASE Connect(n)
  BY <1>4, <1>m, <1>a, <1>b, <1>t DEF Connect, opVars, cacheVars, homeVars,
     StagesFit, Wanted, LockAsked, LockIsLocal, Grant
<1>5. CASE GiveUp(n)
  BY <1>5, <1>m, <1>a, <1>b, <1>t DEF GiveUp, Die, opVars, netVars, serverVars,
     homeVars, StagesFit, Wanted, LockAsked, LockIsLocal, Grant
<1>6. CASE LockLocally(n)
  BY <1>6, <1>m, <1>a, <1>b, <1>t DEF LockLocally, Enter, AccessPhase, serverVars,
     cacheVars, homeVars, StagesFit, Wanted, LockAsked, LockIsLocal, Grant
<1>7. CASE UnlockLocally(n)
  BY <1>7, <1>m, <1>a, <1>b, <1>t DEF UnlockLocally, Enter, serverVars, cacheVars,
     homeVars, StagesFit, Wanted, LockAsked, LockIsLocal, Grant
<1>8. CASE CallLock(n)
  BY <1>8, <1>m, <1>a, <1>b, <1>t DEF CallLock, Call, Packet, opVars, serverVars,
     cacheVars, homeVars, StagesFit, Wanted, LockAsked, LockIsLocal, Grant
<1>9. CASE LockAnswered(n)
  BY <1>9, <1>m, <1>a, <1>b, <1>t DEF LockAnswered, Answered, Close, Packet,
     serverVars, cacheVars, homeVars, StagesFit, Wanted, LockAsked, LockIsLocal,
     Grant
<1>10. CASE EnterAccess(n)
  BY <1>10, <1>m, <1>a, <1>b, <1>t DEF EnterAccess, Enter, AccessPhase, serverVars,
     cacheVars, homeVars, StagesFit, Wanted, LockAsked, LockIsLocal, Grant
<1>11. CASE EnterUnlock(n)
  BY <1>11, <1>m, <1>a, <1>b, <1>t DEF EnterUnlock, Enter, LockPhase, serverVars,
     cacheVars, homeVars, StagesFit, Wanted, LockAsked, LockIsLocal, Grant
<1>12. CASE Return(n)
  BY <1>12, <1>m, <1>a, <1>b, <1>t DEF Return, Enter, Die, serverVars, homeVars,
     StagesFit, Wanted, LockAsked, LockIsLocal, Grant
<1>13. CASE CachedRead(n)
  BY <1>13, <1>m, <1>a, <1>b, <1>t DEF CachedRead, ReadValue, Enter, LockPhase,
     serverVars, cacheVars, homeVars, StagesFit, Wanted, LockAsked, LockIsLocal,
     Grant
<1>14. CASE LocalRead(n)
  BY <1>14, <1>m, <1>a, <1>b, <1>t DEF LocalRead, ReadValue, Enter, LockPhase,
     serverVars, cacheVars, homeVars, StagesFit, Wanted, LockAsked, LockIsLocal,
     Grant
<1>15. CASE CallRead(n)
  BY <1>15, <1>m, <1>a, <1>b, <1>t DEF CallRead, Call, Packet, opVars, serverVars,
     cacheVars, homeVars, StagesFit, Wanted, LockAsked, LockIsLocal, Grant
<1>16. CASE ReadReturned(n)
  <2>1. stage' = stage /\ stage[n] = "access"
    BY <1>16 DEF ReadReturned
  <2>2. \A j \in Node : j # n => rpc'[j] = rpc[j] /\ msg'[j] = msg[j] /\ op'[j] = op[j]
    BY <1>16, <1>t DEF ReadReturned, ReadValue, Close, netVars
  <2>3. op'[n].kind = "READ" /\ op[n].kind = "READ"
    BY <1>16, <1>t DEF ReadReturned, ReadValue
  <2> QED
    BY <2>1, <2>2, <2>3, <1>m DEF LockAsked, LockIsLocal, Wanted, Grant
<1>17. CASE CallWrite(n)
  <2>1. UNCHANGED <<stage, op>> /\ stage[n] = "access"
    BY <1>17 DEF CallWrite, opVars
  <2>2. \A j \in Node : j # n => rpc'[j] = rpc[j] /\ msg'[j] = msg[j]
    BY <1>17, <1>t DEF CallWrite, Call, netVars
  <2> QED
    BY <2>1, <2>2, <1>m DEF LockAsked, LockIsLocal, Wanted, Grant
<1>18. CASE WriteReturned(n)
  BY <1>18, <1>m, <1>a, <1>b, <1>t DEF WriteReturned, Answered, Close, Packet,
     opVars, serverVars, cacheVars, homeVars, StagesFit, Wanted, LockAsked,
     LockIsLocal, Grant
<1>19. CASE WriteRecalled(n)
  BY <1>19, <1>m, <1>a, <1>b, <1>t DEF WriteRecalled, Answered, Enter, cacheVars,
     homeVars, StagesFit, Wanted, LockAsked, LockIsLocal, Grant
<1>20. CASE CloseReconnected(n)
  BY <1>20, <1>m, <1>a, <1>b, <1>t DEF CloseReconnected, Close, Packet, opVars,
     serverVars, cacheVars, homeVars, StagesFit, Wanted, LockAsked, LockIsLocal,
     Grant
<1>21. CASE LocalWrite(n)
  BY <1>21, <1>m, <1>a, <1>b, <1>t DEF LocalWrite, Enter, LockPhase, serverVars,
     cacheVars, StagesFit, Wanted, LockAsked, LockIsLocal, Grant
<1>22. CASE CallInvalidate(n)
  BY <1>22, <1>m, <1>a, <1>b, <1>t DEF CallInvalidate, Call, Packet, opVars,
     serverVars, cacheVars, homeVars, StagesFit, Wanted, LockAsked, LockIsLocal,
     Grant
<1>23. CASE InvalidationAnswered(n)
  BY <1>23, <1>m, <1>a, <1>b, <1>t DEF InvalidationAnswered, Answered, Close,
     Packet, opVars, serverVars, cacheVars, homeVars, StagesFit, Wanted, LockAsked,
     LockIsLocal, Grant
<1>24. CASE NextTarget(n)
  BY <1>24, <1>m, <1>a, <1>b, <1>t DEF NextTarget, opVars, serverVars, cacheVars,
     StagesFit, Wanted, LockAsked, LockIsLocal, Grant
<1>25. CASE EndBroadcast(n)
  BY <1>25, <1>m, <1>a, <1>b, <1>t DEF EndBroadcast, Enter, LockPhase, serverVars,
     cacheVars, StagesFit, Wanted, LockAsked, LockIsLocal, Grant
<1>26. CASE Accept(n)
  <2>1. \A c \in backlog[n] : rpc[c] = "backlog"
    BY <1>a, <1>t DEF SessionsPaired
  <2> QED
    BY <1>26, <2>1, <1>t, <1>m DEF Accept, opVars, LockAsked, LockIsLocal, Wanted, Grant
<1>27. CASE HandleReset(n)
  BY <1>27, <1>m, <1>a, <1>b, <1>t DEF HandleReset, cacheVars, homeVars, StagesFit,
     Wanted, LockAsked, LockIsLocal, Grant
<1>28. CASE HandleLocks(n)
  <2>1. PICK c \in Node : HandleLocks(n)!(c)
    BY <1>28 DEF HandleLocks
  <2>2. /\ rpc[c] = "sent" /\ rpc[n] = "none" /\ stage[n] \in {"idle", "recall"}
        /\ n # c /\ stage[c] \in {"lock", "unlock"}
    BY <1>a, <2>1, ServedClient DEF Receives
  <2> QED
    BY <2>1, <2>2, <1>m, <1>a, <1>b, <1>t DEF Answer, Packet, opVars, serverVars,
       cacheVars, homeVars, StagesFit, Wanted, LockAsked, LockIsLocal, Grant
<1>29. CASE HandleRead(n)
  <2>1. PICK c \in Node : HandleRead(n)!(c)
    BY <1>29 DEF HandleRead
  <2>2. /\ rpc[c] = "sent" /\ rpc[n] = "none" /\ stage[n] \in {"idle", "recall"}
        /\ n # c /\ stage[c] = "access" /\ op[c].kind = "READ" /\ n = Home
    BY <1>a, <2>1, ServedClient DEF Receives
  <2> QED
    BY <2>1, <2>2, <1>m, <1>a, <1>b, <1>t DEF Answer, Packet, Die, opVars, netVars,
       serverVars, StagesFit, Wanted, LockAsked, LockIsLocal, Grant
<1>30. CASE HandleWrite(n)
  <2>1. PICK c \in Node : HandleWrite(n)!(c)
    BY <1>30 DEF HandleWrite
  <2>2. /\ rpc[c] = "sent" /\ rpc[n] = "none" /\ stage[n] \in {"idle", "recall"}
        /\ n # c /\ stage[c] = "access" /\ op[c].kind = "WRITE" /\ n = Home
    BY <1>a, <2>1, ServedClient DEF Receives
  <2> QED
    BY <2>1, <2>2, <1>m, <1>a, <1>b, <1>t DEF Answer, Packet, opVars, serverVars,
       cacheVars, StagesFit, Wanted, LockAsked, LockIsLocal, Grant
<1>31. CASE StartInvalidations(n)
  <2>1. PICK c \in Node : StartInvalidations(n)!(c)
    BY <1>31 DEF StartInvalidations
  <2>2. /\ rpc[c] = "sent" /\ rpc[n] = "none" /\ stage[n] \in {"idle", "recall"}
        /\ n # c /\ stage[c] = "access" /\ op[c].kind = "WRITE" /\ n = Home
    BY <1>a, <2>1, ServedClient DEF Receives
  <2> QED
    BY <2>1, <2>2, <1>m, <1>a, <1>b, <1>t DEF Packet, cacheVars, StagesFit, Wanted,
       LockAsked, LockIsLocal, Grant
<1>32. CASE HandleInvalidation(n)
  <2>1. PICK c \in Node : HandleInvalidation(n)!(c)
    BY <1>32 DEF HandleInvalidation
  <2>2. /\ rpc[c] = "sent" /\ rpc[n] = "none" /\ stage[n] \in {"idle", "recall"}
        /\ n # c /\ stage[c] \in {"bcast", "wbcast"} /\ c = Home
    BY <1>a, <2>1, ServedClient DEF Receives
  <2> QED
    BY <2>1, <2>2, <1>m, <1>a, <1>b, <1>t DEF Answer, Packet, opVars, serverVars,
       homeVars, StagesFit, Wanted, LockAsked, LockIsLocal, Grant
<1> QED
  BY <1>1, <1>2, <1>3, <1>4, <1>5, <1>6, <1>7, <1>8, <1>9, <1>10, <1>11, <1>12,
     <1>13, <1>14, <1>15, <1>16, <1>17, <1>18, <1>19, <1>20, <1>21, <1>22, <1>23,
     <1>24, <1>25, <1>26, <1>27, <1>28, <1>29, <1>30, <1>31, <1>32 DEF Step,
     StartOp, ClientStep, ServerStep

\* No step makes the lock node call itself for the lock.
LEMMA LockIsLocalStep ==
    ASSUME CoherenceInv, LockCalls, NEW n \in Node, Step(n)
    PROVE  LockIsLocal'
<1>a. Typed /\ StagesFit /\ MessagesFit /\ SessionsPaired
  BY TypesHold DEF CoherenceInv, FreshInv
<1>t. /\ stage \in [Node -> Stage] /\ rpc \in [Node -> Rpc]
      /\ serve \in [Node -> {"off", "listen", "session"}]
      /\ peer \in [Node -> Node] /\ backlog \in [Node -> SUBSET Node]
      /\ op \in [Node -> Operation] /\ msg \in [Node -> Message]
  BY <1>a DEF Typed
<1>s. status \in [Node -> Status]
  BY DEF CoherenceInv, FreshInv, TypeOK, ControlTypeOK
<1>m. Home # LockNode /\ LockNode \in Node /\ LockIsLocal /\ LockAsked
      /\ stage[Home] \notin {"recall", "reconnect"}
  BY NodesAssumption DEF LockCalls, CoherenceInv, HomeIsLocal
<1>b. stage[n] \in {"bcast", "wbcast"} => n = Home /\ targets # << >>
  BY <1>a DEF StagesFit
<1>1. CASE Serve(n)
  BY <1>1, <1>m, <1>a, <1>b, <1>t DEF Serve, opVars, netVars, cacheVars, homeVars,
     StagesFit, LockIsLocal
<1>2. CASE \E a \in Addr : StartRead(n, a)
  BY <1>2, <1>m, <1>a, <1>b, <1>t DEF StartRead, Start, Enter, LockPhase,
     serverVars, cacheVars, homeVars, StagesFit, LockIsLocal
<1>3. CASE \E a \in Addr, v \in Value : StartWrite(n, a, v)
  BY <1>3, <1>m, <1>a, <1>b, <1>t DEF StartWrite, Start, Enter, LockPhase,
     serverVars, cacheVars, homeVars, StagesFit, LockIsLocal
<1>4. CASE Connect(n)
  BY <1>4, <1>m, <1>a, <1>b, <1>t DEF Connect, opVars, cacheVars, homeVars,
     StagesFit, LockIsLocal
<1>5. CASE GiveUp(n)
  BY <1>5, <1>m, <1>a, <1>b, <1>t DEF GiveUp, Die, opVars, netVars, serverVars,
     homeVars, StagesFit, LockIsLocal
<1>6. CASE LockLocally(n)
  BY <1>6, <1>m, <1>a, <1>b, <1>t DEF LockLocally, Enter, AccessPhase, serverVars,
     cacheVars, homeVars, StagesFit, LockIsLocal
<1>7. CASE UnlockLocally(n)
  BY <1>7, <1>m, <1>a, <1>b, <1>t DEF UnlockLocally, Enter, serverVars, cacheVars,
     homeVars, StagesFit, LockIsLocal
<1>8. CASE CallLock(n)
  BY <1>8, <1>m, <1>a, <1>b, <1>t DEF CallLock, Call, Packet, opVars, serverVars,
     cacheVars, homeVars, StagesFit, LockIsLocal
<1>9. CASE LockAnswered(n)
  BY <1>9, <1>m, <1>a, <1>b, <1>t DEF LockAnswered, Answered, Close, Packet,
     serverVars, cacheVars, homeVars, StagesFit, LockIsLocal
<1>10. CASE EnterAccess(n)
  BY <1>10, <1>m, <1>a, <1>b, <1>t DEF EnterAccess, Enter, AccessPhase, serverVars,
     cacheVars, homeVars, StagesFit, LockIsLocal
<1>11. CASE EnterUnlock(n)
  BY <1>11, <1>m, <1>a, <1>b, <1>t DEF EnterUnlock, Enter, LockPhase, serverVars,
     cacheVars, homeVars, StagesFit, LockIsLocal
<1>12. CASE Return(n)
  BY <1>12, <1>m, <1>a, <1>b, <1>t DEF Return, Enter, Die, serverVars, homeVars,
     StagesFit, LockIsLocal
<1>13. CASE CachedRead(n)
  BY <1>13, <1>m, <1>a, <1>b, <1>t DEF CachedRead, ReadValue, Enter, LockPhase,
     serverVars, cacheVars, homeVars, StagesFit, LockIsLocal
<1>14. CASE LocalRead(n)
  BY <1>14, <1>m, <1>a, <1>b, <1>t DEF LocalRead, ReadValue, Enter, LockPhase,
     serverVars, cacheVars, homeVars, StagesFit, LockIsLocal
<1>15. CASE CallRead(n)
  BY <1>15, <1>m, <1>a, <1>b, <1>t DEF CallRead, Call, Packet, opVars, serverVars,
     cacheVars, homeVars, StagesFit, LockIsLocal
<1>16. CASE ReadReturned(n)
  <2>1. stage' = stage /\ stage[n] = "access"
    BY <1>16 DEF ReadReturned
  <2>2. \A j \in Node : j # n => rpc'[j] = rpc[j] /\ msg'[j] = msg[j] /\ op'[j] = op[j]
    BY <1>16, <1>t DEF ReadReturned, ReadValue, Close, netVars
  <2>3. op'[n].kind = "READ" /\ op[n].kind = "READ"
    BY <1>16, <1>t DEF ReadReturned, ReadValue
  <2> QED
    BY <2>1, <2>2, <2>3, <1>m DEF LockIsLocal
<1>17. CASE CallWrite(n)
  <2>1. UNCHANGED <<stage, op>> /\ stage[n] = "access"
    BY <1>17 DEF CallWrite, opVars
  <2>2. \A j \in Node : j # n => rpc'[j] = rpc[j] /\ msg'[j] = msg[j]
    BY <1>17, <1>t DEF CallWrite, Call, netVars
  <2> QED
    BY <2>1, <2>2, <1>m DEF LockIsLocal
<1>18. CASE WriteReturned(n)
  BY <1>18, <1>m, <1>a, <1>b, <1>t DEF WriteReturned, Answered, Close, Packet,
     opVars, serverVars, cacheVars, homeVars, StagesFit, LockIsLocal
<1>19. CASE WriteRecalled(n)
  BY <1>19, <1>m, <1>a, <1>b, <1>t DEF WriteRecalled, Answered, Enter, cacheVars,
     homeVars, StagesFit, LockIsLocal
<1>20. CASE CloseReconnected(n)
  BY <1>20, <1>m, <1>a, <1>b, <1>t DEF CloseReconnected, Close, Packet, opVars,
     serverVars, cacheVars, homeVars, StagesFit, LockIsLocal
<1>21. CASE LocalWrite(n)
  BY <1>21, <1>m, <1>a, <1>b, <1>t DEF LocalWrite, Enter, LockPhase, serverVars,
     cacheVars, StagesFit, LockIsLocal
<1>22. CASE CallInvalidate(n)
  BY <1>22, <1>m, <1>a, <1>b, <1>t DEF CallInvalidate, Call, Packet, opVars,
     serverVars, cacheVars, homeVars, StagesFit, LockIsLocal
<1>23. CASE InvalidationAnswered(n)
  BY <1>23, <1>m, <1>a, <1>b, <1>t DEF InvalidationAnswered, Answered, Close,
     Packet, opVars, serverVars, cacheVars, homeVars, StagesFit, LockIsLocal
<1>24. CASE NextTarget(n)
  BY <1>24, <1>m, <1>a, <1>b, <1>t DEF NextTarget, opVars, serverVars, cacheVars,
     StagesFit, LockIsLocal
<1>25. CASE EndBroadcast(n)
  BY <1>25, <1>m, <1>a, <1>b, <1>t DEF EndBroadcast, Enter, LockPhase, serverVars,
     cacheVars, StagesFit, LockIsLocal
<1>26. CASE Accept(n)
  <2>1. \A c \in backlog[n] : rpc[c] = "backlog"
    BY <1>a, <1>t DEF SessionsPaired
  <2> QED
    BY <1>26, <2>1, <1>t, <1>m DEF Accept, opVars, LockIsLocal
<1>27. CASE HandleReset(n)
  BY <1>27, <1>m, <1>a, <1>b, <1>t DEF HandleReset, cacheVars, homeVars, StagesFit,
     LockIsLocal
<1>28. CASE HandleLocks(n)
  <2>1. PICK c \in Node : HandleLocks(n)!(c)
    BY <1>28 DEF HandleLocks
  <2>2. /\ rpc[c] = "sent" /\ rpc[n] = "none" /\ stage[n] \in {"idle", "recall"}
        /\ n # c /\ stage[c] \in {"lock", "unlock"}
    BY <1>a, <2>1, ServedClient DEF Receives
  <2> QED
    BY <2>1, <2>2, <1>m, <1>a, <1>b, <1>t DEF Answer, Packet, opVars, serverVars,
       cacheVars, homeVars, StagesFit, LockIsLocal
<1>29. CASE HandleRead(n)
  <2>1. PICK c \in Node : HandleRead(n)!(c)
    BY <1>29 DEF HandleRead
  <2>2. /\ rpc[c] = "sent" /\ rpc[n] = "none" /\ stage[n] \in {"idle", "recall"}
        /\ n # c /\ stage[c] = "access" /\ op[c].kind = "READ" /\ n = Home
    BY <1>a, <2>1, ServedClient DEF Receives
  <2> QED
    BY <2>1, <2>2, <1>m, <1>a, <1>b, <1>t DEF Answer, Packet, Die, opVars, netVars,
       serverVars, StagesFit, LockIsLocal
<1>30. CASE HandleWrite(n)
  <2>1. PICK c \in Node : HandleWrite(n)!(c)
    BY <1>30 DEF HandleWrite
  <2>2. /\ rpc[c] = "sent" /\ rpc[n] = "none" /\ stage[n] \in {"idle", "recall"}
        /\ n # c /\ stage[c] = "access" /\ op[c].kind = "WRITE" /\ n = Home
    BY <1>a, <2>1, ServedClient DEF Receives
  <2> QED
    BY <2>1, <2>2, <1>m, <1>a, <1>b, <1>t DEF Answer, Packet, opVars, serverVars,
       cacheVars, StagesFit, LockIsLocal
<1>31. CASE StartInvalidations(n)
  <2>1. PICK c \in Node : StartInvalidations(n)!(c)
    BY <1>31 DEF StartInvalidations
  <2>2. /\ rpc[c] = "sent" /\ rpc[n] = "none" /\ stage[n] \in {"idle", "recall"}
        /\ n # c /\ stage[c] = "access" /\ op[c].kind = "WRITE" /\ n = Home
    BY <1>a, <2>1, ServedClient DEF Receives
  <2> QED
    BY <2>1, <2>2, <1>m, <1>a, <1>b, <1>t DEF Packet, cacheVars, StagesFit,
       LockIsLocal
<1>32. CASE HandleInvalidation(n)
  <2>1. PICK c \in Node : HandleInvalidation(n)!(c)
    BY <1>32 DEF HandleInvalidation
  <2>2. /\ rpc[c] = "sent" /\ rpc[n] = "none" /\ stage[n] \in {"idle", "recall"}
        /\ n # c /\ stage[c] \in {"bcast", "wbcast"} /\ c = Home
    BY <1>a, <2>1, ServedClient DEF Receives
  <2> QED
    BY <2>1, <2>2, <1>m, <1>a, <1>b, <1>t DEF Answer, Packet, opVars, serverVars,
       homeVars, StagesFit, LockIsLocal
<1> QED
  BY <1>1, <1>2, <1>3, <1>4, <1>5, <1>6, <1>7, <1>8, <1>9, <1>10, <1>11, <1>12,
     <1>13, <1>14, <1>15, <1>16, <1>17, <1>18, <1>19, <1>20, <1>21, <1>22, <1>23,
     <1>24, <1>25, <1>26, <1>27, <1>28, <1>29, <1>30, <1>31, <1>32 DEF Step,
     StartOp, ClientStep, ServerStep

\* Only setLock makes a node a holder of the lock, or no holder.
LEMMA HoldersStay ==
    ASSUME CoherenceInv, LockCalls, NEW n \in Node, Step(n), NEW i \in Node,
           ~ LockLocally(n), ~ UnlockLocally(n), ~ HandleLocks(n)
    PROVE  /\ LockHeld(i)' <=> LockHeld(i)
           /\ LockHeld(i) => Wanted(i)' = Wanted(i)
<1>a. Typed /\ StagesFit /\ MessagesFit /\ SessionsPaired
  BY TypesHold DEF CoherenceInv, FreshInv
<1>t. /\ stage \in [Node -> Stage] /\ rpc \in [Node -> Rpc]
      /\ serve \in [Node -> {"off", "listen", "session"}]
      /\ peer \in [Node -> Node] /\ backlog \in [Node -> SUBSET Node]
      /\ op \in [Node -> Operation] /\ msg \in [Node -> Message]
  BY <1>a DEF Typed
<1>s. status \in [Node -> Status]
  BY DEF CoherenceInv, FreshInv, TypeOK, ControlTypeOK
<1>m. Home # LockNode /\ LockNode \in Node /\ LockIsLocal /\ LockAsked
      /\ stage[Home] \notin {"recall", "reconnect"}
  BY NodesAssumption DEF LockCalls, CoherenceInv, HomeIsLocal
<1>b. stage[n] \in {"bcast", "wbcast"} => n = Home /\ targets # << >>
  BY <1>a DEF StagesFit
<1>1. CASE Serve(n)
  BY <1>1, <1>m, <1>a, <1>b, <1>t DEF Serve, opVars, netVars, cacheVars, homeVars,
     LockHeld, StagesFit, LockIsLocal, LockAsked, Wanted, Grant
<1>2. CASE \E a \in Addr : StartRead(n, a)
  BY <1>2, <1>m, <1>a, <1>b, <1>t DEF StartRead, Start, Enter, LockPhase,
     serverVars, cacheVars, homeVars, LockHeld, StagesFit, LockIsLocal, LockAsked,
     Wanted, Grant
<1>3. CASE \E a \in Addr, v \in Value : StartWrite(n, a, v)
  BY <1>3, <1>m, <1>a, <1>b, <1>t DEF StartWrite, Start, Enter, LockPhase,
     serverVars, cacheVars, homeVars, LockHeld, StagesFit, LockIsLocal, LockAsked,
     Wanted, Grant
<1>4. CASE Connect(n)
  BY <1>4, <1>m, <1>a, <1>b, <1>t DEF Connect, opVars, cacheVars, homeVars,
     LockHeld, StagesFit, LockIsLocal, LockAsked, Wanted, Grant
<1>5. CASE GiveUp(n)
  BY <1>5, <1>m, <1>a, <1>b, <1>t DEF GiveUp, Die, opVars, netVars, serverVars,
     homeVars, LockHeld, StagesFit, LockIsLocal, LockAsked, Wanted, Grant
<1>6. CASE LockLocally(n)
  BY <1>6
<1>7. CASE UnlockLocally(n)
  BY <1>7
<1>8. CASE CallLock(n)
  BY <1>8, <1>m, <1>a, <1>b, <1>t DEF CallLock, Call, Packet, opVars, serverVars,
     cacheVars, homeVars, LockHeld, StagesFit, LockIsLocal, LockAsked, Wanted, Grant
<1>9. CASE LockAnswered(n)
  BY <1>9, <1>m, <1>a, <1>b, <1>t DEF LockAnswered, Answered, Close, Packet,
     serverVars, cacheVars, homeVars, LockHeld, StagesFit, LockIsLocal, LockAsked,
     Wanted, Grant
<1>10. CASE EnterAccess(n)
  BY <1>10, <1>m, <1>a, <1>b, <1>t DEF EnterAccess, Enter, AccessPhase, serverVars,
     cacheVars, homeVars, LockHeld, StagesFit, LockIsLocal, LockAsked, Wanted, Grant
<1>11. CASE EnterUnlock(n)
  BY <1>11, <1>m, <1>a, <1>b, <1>t DEF EnterUnlock, Enter, LockPhase, serverVars,
     cacheVars, homeVars, LockHeld, StagesFit, LockIsLocal, LockAsked, Wanted, Grant
<1>12. CASE Return(n)
  BY <1>12, <1>m, <1>a, <1>b, <1>t DEF Return, Enter, Die, serverVars, homeVars,
     LockHeld, StagesFit, LockIsLocal, LockAsked, Wanted, Grant
<1>13. CASE CachedRead(n)
  BY <1>13, <1>m, <1>a, <1>b, <1>t DEF CachedRead, ReadValue, Enter, LockPhase,
     serverVars, cacheVars, homeVars, LockHeld, StagesFit, LockIsLocal, LockAsked,
     Wanted, Grant
<1>14. CASE LocalRead(n)
  BY <1>14, <1>m, <1>a, <1>b, <1>t DEF LocalRead, ReadValue, Enter, LockPhase,
     serverVars, cacheVars, homeVars, LockHeld, StagesFit, LockIsLocal, LockAsked,
     Wanted, Grant
<1>15. CASE CallRead(n)
  BY <1>15, <1>m, <1>a, <1>b, <1>t DEF CallRead, Call, Packet, opVars, serverVars,
     cacheVars, homeVars, LockHeld, StagesFit, LockIsLocal, LockAsked, Wanted, Grant
<1>16. CASE ReadReturned(n)
  <2>1. stage' = stage /\ stage[n] = "access"
    BY <1>16 DEF ReadReturned
  <2>2. \A j \in Node : j # n => rpc'[j] = rpc[j] /\ msg'[j] = msg[j] /\ op'[j] = op[j]
    BY <1>16, <1>t DEF ReadReturned, ReadValue, Close, netVars
  <2>3. op'[n].kind = "READ" /\ op[n].kind = "READ"
    BY <1>16, <1>t DEF ReadReturned, ReadValue
  <2> QED
    BY <2>1, <2>2, <2>3, <1>m DEF LockHeld, Wanted
<1>17. CASE CallWrite(n)
  <2>1. UNCHANGED <<stage, op>> /\ stage[n] = "access"
    BY <1>17 DEF CallWrite, opVars
  <2>2. \A j \in Node : j # n => rpc'[j] = rpc[j] /\ msg'[j] = msg[j]
    BY <1>17, <1>t DEF CallWrite, Call, netVars
  <2> QED
    BY <2>1, <2>2, <1>m DEF LockHeld, Wanted
<1>18. CASE WriteReturned(n)
  BY <1>18, <1>m, <1>a, <1>b, <1>t DEF WriteReturned, Answered, Close, Packet,
     opVars, serverVars, cacheVars, homeVars, LockHeld, StagesFit, LockIsLocal,
     LockAsked, Wanted, Grant
<1>19. CASE WriteRecalled(n)
  BY <1>19, <1>m, <1>a, <1>b, <1>t DEF WriteRecalled, Answered, Enter, cacheVars,
     homeVars, LockHeld, StagesFit, LockIsLocal, LockAsked, Wanted, Grant
<1>20. CASE CloseReconnected(n)
  BY <1>20, <1>m, <1>a, <1>b, <1>t DEF CloseReconnected, Close, Packet, opVars,
     serverVars, cacheVars, homeVars, LockHeld, StagesFit, LockIsLocal, LockAsked,
     Wanted, Grant
<1>21. CASE LocalWrite(n)
  BY <1>21, <1>m, <1>a, <1>b, <1>t DEF LocalWrite, Enter, LockPhase, serverVars,
     cacheVars, LockHeld, StagesFit, LockIsLocal, LockAsked, Wanted, Grant
<1>22. CASE CallInvalidate(n)
  BY <1>22, <1>m, <1>a, <1>b, <1>t DEF CallInvalidate, Call, Packet, opVars,
     serverVars, cacheVars, homeVars, LockHeld, StagesFit, LockIsLocal, LockAsked,
     Wanted, Grant
<1>23. CASE InvalidationAnswered(n)
  BY <1>23, <1>m, <1>a, <1>b, <1>t DEF InvalidationAnswered, Answered, Close,
     Packet, opVars, serverVars, cacheVars, homeVars, LockHeld, StagesFit,
     LockIsLocal, LockAsked, Wanted, Grant
<1>24. CASE NextTarget(n)
  BY <1>24, <1>m, <1>a, <1>b, <1>t DEF NextTarget, opVars, serverVars, cacheVars,
     LockHeld, StagesFit, LockIsLocal, LockAsked, Wanted, Grant
<1>25. CASE EndBroadcast(n)
  BY <1>25, <1>m, <1>a, <1>b, <1>t DEF EndBroadcast, Enter, LockPhase, serverVars,
     cacheVars, LockHeld, StagesFit, LockIsLocal, LockAsked, Wanted, Grant
<1>26. CASE Accept(n)
  <2>1. \A c \in backlog[n] : rpc[c] = "backlog"
    BY <1>a, <1>t DEF SessionsPaired
  <2> QED
    BY <1>26, <2>1, <1>t, <1>m DEF Accept, opVars, LockHeld, Wanted
<1>27. CASE HandleReset(n)
  BY <1>27, <1>m, <1>a, <1>b, <1>t DEF HandleReset, cacheVars, homeVars, LockHeld,
     StagesFit, LockIsLocal, LockAsked, Wanted, Grant
<1>28. CASE HandleLocks(n)
  BY <1>28
<1>29. CASE HandleRead(n)
  <2>1. PICK c \in Node : HandleRead(n)!(c)
    BY <1>29 DEF HandleRead
  <2>2. /\ rpc[c] = "sent" /\ rpc[n] = "none" /\ stage[n] \in {"idle", "recall"}
        /\ n # c /\ stage[c] = "access" /\ op[c].kind = "READ" /\ n = Home
    BY <1>a, <2>1, ServedClient DEF Receives
  <2> QED
    BY <2>1, <2>2, <1>m, <1>a, <1>b, <1>t DEF Answer, Packet, Die, opVars, netVars,
       serverVars, LockHeld, StagesFit, LockIsLocal, LockAsked, Wanted, Grant
<1>30. CASE HandleWrite(n)
  <2>1. PICK c \in Node : HandleWrite(n)!(c)
    BY <1>30 DEF HandleWrite
  <2>2. /\ rpc[c] = "sent" /\ rpc[n] = "none" /\ stage[n] \in {"idle", "recall"}
        /\ n # c /\ stage[c] = "access" /\ op[c].kind = "WRITE" /\ n = Home
    BY <1>a, <2>1, ServedClient DEF Receives
  <2> QED
    BY <2>1, <2>2, <1>m, <1>a, <1>b, <1>t DEF Answer, Packet, opVars, serverVars,
       cacheVars, LockHeld, StagesFit, LockIsLocal, LockAsked, Wanted, Grant
<1>31. CASE StartInvalidations(n)
  <2>1. PICK c \in Node : StartInvalidations(n)!(c)
    BY <1>31 DEF StartInvalidations
  <2>2. /\ rpc[c] = "sent" /\ rpc[n] = "none" /\ stage[n] \in {"idle", "recall"}
        /\ n # c /\ stage[c] = "access" /\ op[c].kind = "WRITE" /\ n = Home
    BY <1>a, <2>1, ServedClient DEF Receives
  <2> QED
    BY <2>1, <2>2, <1>m, <1>a, <1>b, <1>t DEF Packet, cacheVars, LockHeld,
       StagesFit, LockIsLocal, LockAsked, Wanted, Grant
<1>32. CASE HandleInvalidation(n)
  <2>1. PICK c \in Node : HandleInvalidation(n)!(c)
    BY <1>32 DEF HandleInvalidation
  <2>2. /\ rpc[c] = "sent" /\ rpc[n] = "none" /\ stage[n] \in {"idle", "recall"}
        /\ n # c /\ stage[c] \in {"bcast", "wbcast"} /\ c = Home
    BY <1>a, <2>1, ServedClient DEF Receives
  <2> QED
    BY <2>1, <2>2, <1>m, <1>a, <1>b, <1>t DEF Answer, Packet, opVars, serverVars,
       homeVars, LockHeld, StagesFit, LockIsLocal, LockAsked, Wanted, Grant
<1> QED
  BY <1>1, <1>2, <1>3, <1>4, <1>5, <1>6, <1>7, <1>8, <1>9, <1>10, <1>11, <1>12,
     <1>13, <1>14, <1>15, <1>16, <1>17, <1>18, <1>19, <1>20, <1>21, <1>22, <1>23,
     <1>24, <1>25, <1>26, <1>27, <1>28, <1>29, <1>30, <1>31, <1>32 DEF Step,
     StartOp, ClientStep, ServerStep

\* Both together.
LEMMA LockCallsStep ==
    ASSUME CoherenceInv, LockCalls, NEW n \in Node, Step(n)
    PROVE  LockCalls'
  BY LockAskedStep, LockIsLocalStep DEF LockCalls, LockAsked

\* What the mapping makes of the nodes that hold the lock.
LEMMA HoldersMap == Lock!Holders(Home) = LockHolders
  BY DEF Lock!Holders, LockHolders, Wanted

\* A grant is an acquisition: either nobody else holds the lock in a mode that
\* excludes it, or the table no longer knows who does.
LEMMA LockTaken ==
    ASSUME NEW n \in Node, Wanted(n)' = Wanted(n),
           Grants(Wanted(n)), SetLock(Wanted(n)), ~ LockHeld(n), LockHeld(n)',
           \A i \in Node \ {n} : /\ LockHeld(i)' <=> LockHeld(i)
                                 /\ LockHeld(i) => Wanted(i)' = Wanted(i)
    PROVE  Lock!FragileNext
<1> DEFINE s == Wanted(n)
<1>1. s \in {"SHAREDLOCK", "EXCLUSIVE"} /\ locks' = s
  BY DEF Wanted, SetLock
<1>2. LockHolders' = LockHolders \cup {n} /\ n \notin LockHolders
  BY DEF LockHolders
<1>3. LockMisread \/ \A m \in LockHolders :
                        s = "SHAREDLOCK" /\ Wanted(m) = "SHAREDLOCK"
  <2> SUFFICES ASSUME ~ LockMisread, NEW m \in LockHolders
               PROVE  s = "SHAREDLOCK" /\ Wanted(m) = "SHAREDLOCK"
    OBVIOUS
  <2>1. locks = Wanted(m)
    BY DEF LockMisread
  <2> QED
    BY <2>1 DEF Grants, Wanted
<1>4. LockMisread' <=> LockHolders # {}
  <2>1. CASE LockHolders = {}
    <3>1. LockHolders' = {n} /\ locks' = Wanted(n)'
      BY <1>1, <1>2, <2>1
    <3> QED
      BY <2>1, <3>1 DEF LockMisread
  <2>2. CASE LockHolders # {}
    <3>1. n \in LockHolders' /\ LockHolders' # {n}
      BY <1>2, <2>2
    <3> QED
      BY <2>2, <3>1 DEF LockMisread
  <2> QED
    BY <2>1, <2>2
<1>5. LockMisread => LockHolders # {}
  BY DEF LockMisread
<1> DEFINE h == [i \in {Home} |-> [m \in Node |-> IF LockHeld(m) THEN Wanted(m) ELSE "none"]]
<1>6. h' = [h EXCEPT ![Home][n] = s] /\ h[Home][n] = "none"
  <2>1. \A m \in Node : (IF LockHeld(m) THEN Wanted(m) ELSE "none")'
                        = IF m = n THEN s ELSE IF LockHeld(m) THEN Wanted(m) ELSE "none"
    OBVIOUS
  <2> QED
    BY <2>1
<1>7. Lock!Acquire(n, Home, s)
  BY <1>2, <1>3, <1>4, <1>5, <1>6, HoldersMap
     DEF Lock!Acquire, Lock!Compatible, LockHolders
<1> QED
  BY <1>1, <1>7 DEF Lock!FragileNext

\* An unlock is a release, whoever else holds the lock.
LEMMA LockFreed ==
    ASSUME NEW n \in Node, SetLock("UNLOCKED"), LockHeld(n), ~ LockHeld(n)',
           \A i \in Node \ {n} : /\ LockHeld(i)' <=> LockHeld(i)
                                 /\ LockHeld(i) => Wanted(i)' = Wanted(i)
    PROVE  Lock!FragileNext
<1>1. locks' = "UNLOCKED"
  BY DEF SetLock, Grants
<1>2. LockHolders' = LockHolders \ {n} /\ n \in LockHolders
  BY DEF LockHolders
<1>3. LockHolders # {n} => LockMisread
  BY <1>2 DEF LockMisread
<1>4. LockMisread' <=> LockHolders # {n}
  <2>1. \A m \in LockHolders' : locks' # Wanted(m)'
    BY <1>1 DEF Wanted
  <2> QED
    BY <1>2, <2>1 DEF LockMisread
<1> DEFINE h == [i \in {Home} |-> [m \in Node |-> IF LockHeld(m) THEN Wanted(m) ELSE "none"]]
<1>5. h' = [h EXCEPT ![Home][n] = "none"] /\ h[Home][n] # "none"
  <2>1. \A m \in Node : (IF LockHeld(m) THEN Wanted(m) ELSE "none")'
                        = IF m = n THEN "none" ELSE IF LockHeld(m) THEN Wanted(m) ELSE "none"
    OBVIOUS
  <2>2. Wanted(n) # "none"
    BY DEF Wanted
  <2> QED
    BY <2>1, <2>2
<1>6. Lock!Release(n, Home)
  BY <1>3, <1>4, <1>5, HoldersMap DEF Lock!Release
<1> QED
  BY <1>6 DEF Lock!FragileNext

\* A step that leaves the holders and the table alone is none of the lock.
LEMMA LockSame ==
    ASSUME UNCHANGED locks,
           \A i \in Node : /\ LockHeld(i)' <=> LockHeld(i)
                           /\ LockHeld(i) => Wanted(i)' = Wanted(i)
    PROVE  UNCHANGED Lock!fragileVars
<1>1. LockHolders' = LockHolders
  BY DEF LockHolders
<1>2. LockMisread' <=> LockMisread
  <2>1. \A m \in LockHolders : LockHeld(m) /\ m \in Node
    BY DEF LockHolders
  <2> QED
    BY <1>1, <2>1 DEF LockMisread
<1> DEFINE h == [i \in {Home} |-> [m \in Node |-> IF LockHeld(m) THEN Wanted(m) ELSE "none"]]
<1>3. h' = h
  <2>1. \A m \in Node : (IF LockHeld(m) THEN Wanted(m) ELSE "none")'
                        = IF LockHeld(m) THEN Wanted(m) ELSE "none"
    OBVIOUS
  <2> QED
    BY <2>1
<1> QED
  BY <1>2, <1>3 DEF Lock!fragileVars

\* setLock on the lock node itself.
LEMMA LocalLockMaps ==
    ASSUME CoherenceInv, LockCalls, NEW n \in Node, LockLocally(n) \/ UnlockLocally(n)
    PROVE  Lock!FragileNext \/ UNCHANGED Lock!fragileVars
<1>a. /\ Typed /\ LockIsLocal /\ Home # LockNode
  BY TypesHold, NodesAssumption
     DEF CoherenceInv, FreshInv, LockCalls
<1>t. /\ stage \in [Node -> Stage] /\ rpc \in [Node -> Rpc]
      /\ op \in [Node -> Operation] /\ msg \in [Node -> Message]
  BY <1>a DEF Typed
<1>1. n = LockNode /\ stage[n] \in {"lock", "unlock"} /\ rpc[n] = "none"
  BY <1>a DEF LockLocally, UnlockLocally, LockIsLocal
<1>2. \A i \in Node : Wanted(i)' = Wanted(i)
  BY DEF LockLocally, UnlockLocally, Wanted
<1>3. \A i \in Node \ {n} : LockHeld(i)' <=> LockHeld(i)
  BY <1>t DEF LockLocally, UnlockLocally, Enter, LockHeld
<1>4. CASE LockLocally(n) /\ Grants(Wanted(n))
  <2>1. ~ LockHeld(n) /\ LockHeld(n)' /\ SetLock(Wanted(n))
    BY <1>1, <1>4, <1>t DEF LockLocally, Enter, LockHeld
  <2> QED
    BY <1>a, <1>2, <1>3, <1>4, <2>1, LockTaken
<1>5. CASE LockLocally(n) /\ ~ Grants(Wanted(n))
  <2>1. ~ LockHeld(n) /\ ~ LockHeld(n)' /\ UNCHANGED locks
    BY <1>1, <1>5, <1>t DEF LockLocally, Enter, LockHeld, SetLock
  <2> QED
    BY <1>2, <1>3, <2>1, LockSame
<1>6. CASE UnlockLocally(n)
  <2>1. LockHeld(n) /\ ~ LockHeld(n)' /\ SetLock("UNLOCKED")
    BY <1>1, <1>6, <1>t DEF UnlockLocally, Enter, LockHeld
  <2> QED
    BY <1>2, <1>3, <2>1, LockFreed
<1> QED
  BY <1>4, <1>5, <1>6

\* setLock on the lock node for another node.
LEMMA HandledLockMaps ==
    ASSUME CoherenceInv, LockCalls, NEW n \in Node, HandleLocks(n)
    PROVE  Lock!FragileNext \/ UNCHANGED Lock!fragileVars
<1>a. /\ Typed /\ StagesFit /\ MessagesFit /\ SessionsPaired
      /\ LockAsked
  BY TypesHold
     DEF CoherenceInv, FreshInv, LockCalls
<1>t. /\ stage \in [Node -> Stage] /\ rpc \in [Node -> Rpc]
      /\ op \in [Node -> Operation] /\ msg \in [Node -> Message]
  BY <1>a DEF Typed
<1>1. PICK c \in Node : HandleLocks(n)!(c)
  BY DEF HandleLocks
<1>2. rpc[c] = "sent" /\ stage[c] \in {"lock", "unlock"}
  BY <1>a, <1>1, ServedClient DEF Receives
<1>3. /\ UNCHANGED <<stage, op>> /\ rpc'[c] = "answered"
      /\ msg'[c].val = IF Grants(msg[c].val) THEN "granted" ELSE "denied"
      /\ \A i \in Node \ {c} : rpc'[i] = rpc[i] /\ msg'[i] = msg[i]
  BY <1>1, <1>t DEF Answer, Packet, opVars
<1>4. /\ \A i \in Node : Wanted(i)' = Wanted(i)
      /\ \A i \in Node \ {c} : LockHeld(i)' <=> LockHeld(i)
  BY <1>3 DEF Wanted, LockHeld
<1>5. CASE stage[c] = "lock" /\ Grants(msg[c].val)
  <2>1. msg[c].val = Wanted(c)
    BY <1>a, <1>2, <1>5 DEF LockAsked
  <2>2. ~ LockHeld(c) /\ LockHeld(c)'
    BY <1>2, <1>3, <1>5 DEF LockHeld
  <2> QED
    BY <1>a, <1>1, <1>4, <1>5, <2>1, <2>2, LockTaken
<1>6. CASE stage[c] = "lock" /\ ~ Grants(msg[c].val)
  <2>1. ~ LockHeld(c) /\ ~ LockHeld(c)' /\ UNCHANGED locks
    BY <1>1, <1>2, <1>3, <1>6 DEF LockHeld, SetLock
  <2> QED
    BY <1>4, <2>1, LockSame
<1>7. CASE stage[c] = "unlock"
  <2>1. msg[c].val = "UNLOCKED"
    BY <1>a, <1>2, <1>7 DEF LockAsked
  <2>2. LockHeld(c) /\ ~ LockHeld(c)'
    BY <1>2, <1>3, <1>7 DEF LockHeld
  <2> QED
    BY <1>1, <1>4, <2>1, <2>2, LockFreed
<1> QED
  BY <1>2, <1>5, <1>6, <1>7

\* Every step of the protocol is an acquisition, a release, or none.
LEMMA StepLocks ==
    ASSUME CoherenceInv, LockCalls, [Next]_vars
    PROVE  Lock!FragileNext \/ UNCHANGED Lock!fragileVars
<1>1. CASE UNCHANGED vars
  <2>1. \A i \in Node : /\ LockHeld(i)' <=> LockHeld(i)
                        /\ Wanted(i)' = Wanted(i)
    BY <1>1 DEF vars, opVars, netVars, LockHeld, Wanted
  <2>2. UNCHANGED locks
    BY <1>1 DEF vars
  <2> QED
    BY <2>1, <2>2, LockSame
<1>2. ASSUME NEW n \in Node, Step(n)
      PROVE  Lock!FragileNext \/ UNCHANGED Lock!fragileVars
  <2>1. CASE ~ LockLocally(n) /\ ~ UnlockLocally(n) /\ ~ HandleLocks(n)
    <3>1. UNCHANGED locks
      BY <1>2, <2>1, LocksFootprint
    <3>2. \A i \in Node : /\ LockHeld(i)' <=> LockHeld(i)
                          /\ LockHeld(i) => Wanted(i)' = Wanted(i)
      BY <1>2, <2>1, HoldersStay
    <3> QED
      BY <3>1, <3>2, LockSame
  <2> QED
    BY <1>2, <2>1, LocalLockMaps, HandledLockMaps
<1> QED
  BY <1>1, <1>2 DEF Next

\* At first nobody holds the lock and nobody has asked for it.
LEMMA LockInit == ASSUME Init PROVE LockCalls /\ Lock!FragileInit
<1>1. /\ stage = [i \in Node |-> "idle"] /\ LockNode \in Node
      /\ rpc = [i \in Node |-> "none"]
  BY NodesAssumption DEF Init
<1>2. \A i \in Node : stage[i] = "idle" /\ ~ LockHeld(i)
  BY <1>1 DEF LockHeld
<1>3. LockHolders = {} /\ ~ LockMisread
  BY <1>2 DEF LockHolders, LockMisread
<1>4. LockIsLocal /\ LockAsked
  BY <1>1 DEF LockIsLocal, LockAsked
<1> QED
  BY <1>2, <1>3, <1>4 DEF Lock!FragileInit, LockCalls

\* For any deployment, reads and writes hold the lock as the lock table promises:
\* as a reader-writer lock until two of them share it, and nobody who asks to
\* write is let in while others are, before that.  The connections, the answers
\* and the broadcast between a grant and its unlock do not change that.
THEOREM OperationsHoldTheLock == Spec => LocksAsPromised
<1>1. Init => LockCalls /\ Lock!FragileInit
  BY LockInit
<1>2. CoherenceInv /\ LockCalls /\ [Next]_vars => LockCalls'
  <2>1. CoherenceInv /\ LockCalls /\ UNCHANGED vars => LockCalls'
    BY DEF vars, opVars, netVars, LockCalls, LockIsLocal, LockAsked, Wanted
  <2> QED
    BY <2>1, LockCallsStep DEF Next
<1>3. CoherenceInv /\ LockCalls /\ [Next]_vars => [Lock!FragileNext]_(Lock!fragileVars)
  BY StepLocks
<1> QED
  BY <1>1, <1>2, <1>3, CoherenceInvariant, PTL
     DEF Spec, LocksAsPromised, Lock!FragileSpec

-----------------------------------------------------------------------------
(* The deployment of main.cpp: one server, and one client that holds the   *)
(* lock table.                                                             *)

HomeServes == stage[Home] \in {"idle", "bcast"}

HomeUnlisted ==
    /\ \A a \in Addr : Home \notin Sharers(a)
    /\ Home \notin Range(targets) /\ Len(targets) <= 1

Plausible == \A a \in Addr : dir[a].iscached # "WILD"

\* n listens for its invalidation, or has been told to.
Recalled(n) ==
    stage[n] = "recall" \/ (rpc[n] = "answered" /\ msg[n].imm = "INVALIDATE")

\* Home calls back the client only, and the client expects it.
Recalls == stage[Home] = "bcast" /\ rpc[Home] = "connect" => Recalled(LockNode)

DeployInv ==
    /\ LockIsLocal /\ HomeServes /\ HomeUnlisted /\ Plausible /\ Recalls
    /\ NobodyFails

\* The client takes and frees the lock without a connection, the server reads and
\* writes nothing itself, and during a broadcast it connects again only to go on.
LEMMA DeployControl ==
    ASSUME MainDeployment, CoherenceInv, DeployInv, NEW n \in Node, Step(n)
    PROVE  /\ LockIsLocal' /\ HomeServes'
           /\ stage[Home] = "bcast" /\ rpc'[Home] = "connect" =>
                  rpc[Home] = "connect" \/ NextTarget(n)
<1>a. Typed /\ StagesFit /\ MessagesFit /\ SessionsPaired
  BY TypesHold DEF CoherenceInv, FreshInv
<1>t. /\ stage \in [Node -> Stage] /\ rpc \in [Node -> Rpc]
      /\ serve \in [Node -> {"off", "listen", "session"}]
      /\ peer \in [Node -> Node] /\ backlog \in [Node -> SUBSET Node]
      /\ op \in [Node -> Operation] /\ msg \in [Node -> Message]
  BY <1>a DEF Typed
<1>s. status \in [Node -> Status]
  BY DEF CoherenceInv, FreshInv, TypeOK, ControlTypeOK
<1>m. /\ Node = {Home, LockNode} /\ Client = {LockNode} /\ Home # LockNode
      /\ LockIsLocal /\ HomeServes /\ NobodyFails
  BY NodesAssumption DEF MainDeployment, DeployInv
<1>1. CASE Serve(n)
  BY <1>1, <1>m, <1>a, <1>t DEF Serve, opVars, netVars, cacheVars, homeVars,
     LockIsLocal, HomeServes, StagesFit
<1>2. CASE \E a \in Addr : StartRead(n, a)
  BY <1>2, <1>m, <1>a, <1>t DEF StartRead, Start, Enter, LockPhase, serverVars,
     cacheVars, homeVars, LockIsLocal, HomeServes, StagesFit
<1>3. CASE \E a \in Addr, v \in Value : StartWrite(n, a, v)
  BY <1>3, <1>m, <1>a, <1>t DEF StartWrite, Start, Enter, LockPhase, serverVars,
     cacheVars, homeVars, LockIsLocal, HomeServes, StagesFit
<1>4. CASE Connect(n)
  BY <1>4, <1>m, <1>a, <1>t DEF Connect, opVars, cacheVars, homeVars, LockIsLocal,
     HomeServes, StagesFit
<1>5. CASE GiveUp(n)
  BY <1>5, <1>m, <1>a, <1>t DEF GiveUp, Die, opVars, netVars, serverVars, homeVars,
     LockIsLocal, HomeServes, StagesFit
<1>6. CASE LockLocally(n)
  BY <1>6, <1>m, <1>a, <1>t DEF LockLocally, Enter, AccessPhase, serverVars,
     cacheVars, homeVars, LockIsLocal, HomeServes, StagesFit
<1>7. CASE UnlockLocally(n)
  BY <1>7, <1>m, <1>a, <1>t DEF UnlockLocally, Enter, serverVars, cacheVars,
     homeVars, LockIsLocal, HomeServes, StagesFit
<1>8. CASE CallLock(n)
  BY <1>8, <1>m, <1>a, <1>t DEF CallLock, Call, Packet, opVars, serverVars,
     cacheVars, homeVars, LockIsLocal, HomeServes, StagesFit
<1>9. CASE LockAnswered(n)
  BY <1>9, <1>m, <1>a, <1>t DEF LockAnswered, Answered, Close, Packet, serverVars,
     cacheVars, homeVars, LockIsLocal, HomeServes, StagesFit
<1>10. CASE EnterAccess(n)
  BY <1>10, <1>m, <1>a, <1>t DEF EnterAccess, Enter, AccessPhase, serverVars,
     cacheVars, homeVars, LockIsLocal, HomeServes, StagesFit
<1>11. CASE EnterUnlock(n)
  BY <1>11, <1>m, <1>a, <1>t DEF EnterUnlock, Enter, LockPhase, serverVars,
     cacheVars, homeVars, LockIsLocal, HomeServes, StagesFit
<1>12. CASE Return(n)
  BY <1>12, <1>m, <1>a, <1>t DEF Return, Enter, Die, serverVars, homeVars,
     LockIsLocal, HomeServes, StagesFit
<1>13. CASE CachedRead(n)
  BY <1>13, <1>m, <1>a, <1>t DEF CachedRead, ReadValue, Enter, LockPhase,
     serverVars, cacheVars, homeVars, LockIsLocal, HomeServes, StagesFit
<1>14. CASE LocalRead(n)
  BY <1>14, <1>m, <1>a, <1>t DEF LocalRead, ReadValue, Enter, LockPhase, serverVars,
     cacheVars, homeVars, LockIsLocal, HomeServes, StagesFit
<1>15. CASE CallRead(n)
  BY <1>15, <1>m, <1>a, <1>t DEF CallRead, Call, Packet, opVars, serverVars,
     cacheVars, homeVars, LockIsLocal, HomeServes, StagesFit
<1>16. CASE ReadReturned(n)
  BY <1>16, <1>m, <1>a, <1>t DEF ReadReturned, Answered, ReadValue, Close, Packet,
     netVars, serverVars, homeVars, LockIsLocal, HomeServes, StagesFit
<1>17. CASE CallWrite(n)
  BY <1>17, <1>m, <1>a, <1>t DEF CallWrite, Call, Packet, opVars, netVars,
     serverVars, homeVars, LockIsLocal, HomeServes, StagesFit
<1>18. CASE WriteReturned(n)
  BY <1>18, <1>m, <1>a, <1>t DEF WriteReturned, Answered, Close, Packet, opVars,
     serverVars, cacheVars, homeVars, LockIsLocal, HomeServes, StagesFit
<1>19. CASE WriteRecalled(n)
  BY <1>19, <1>m, <1>a, <1>t DEF WriteRecalled, Answered, Enter, cacheVars,
     homeVars, LockIsLocal, HomeServes, StagesFit
<1>20. CASE CloseReconnected(n)
  BY <1>20, <1>m, <1>a, <1>t DEF CloseReconnected, Close, Packet, opVars,
     serverVars, cacheVars, homeVars, LockIsLocal, HomeServes, StagesFit
<1>21. CASE LocalWrite(n)
  BY <1>21, <1>m, <1>a, <1>t DEF LocalWrite, Enter, LockPhase, serverVars,
     cacheVars, LockIsLocal, HomeServes, StagesFit
<1>22. CASE CallInvalidate(n)
  BY <1>22, <1>m, <1>a, <1>t DEF CallInvalidate, Call, Packet, opVars, serverVars,
     cacheVars, homeVars, LockIsLocal, HomeServes, StagesFit
<1>23. CASE InvalidationAnswered(n)
  BY <1>23, <1>m, <1>a, <1>t DEF InvalidationAnswered, Answered, Close, Packet,
     opVars, serverVars, cacheVars, homeVars, LockIsLocal, HomeServes, StagesFit
<1>24. CASE NextTarget(n)
  BY <1>24, <1>m, <1>a, <1>t DEF NextTarget, opVars, serverVars, cacheVars,
     LockIsLocal, HomeServes, StagesFit
<1>25. CASE EndBroadcast(n)
  BY <1>25, <1>m, <1>a, <1>t DEF EndBroadcast, Enter, serverVars, cacheVars,
     LockIsLocal, HomeServes, StagesFit
<1>26. CASE Accept(n)
  <2>1. \A c \in backlog[n] : rpc[c] = "backlog"
    BY <1>a, <1>t DEF SessionsPaired
  <2> QED
    BY <1>26, <2>1, <1>m, <1>a, <1>t DEF Accept, opVars, LockIsLocal, HomeServes
<1>27. CASE HandleReset(n)
  BY <1>27, <1>m, <1>a, <1>t DEF HandleReset, cacheVars, homeVars, LockIsLocal,
     HomeServes, StagesFit
<1>28. CASE HandleLocks(n)
  <2>1. PICK c \in Node : HandleLocks(n)!(c)
    BY <1>28 DEF HandleLocks
  <2>2. /\ rpc[c] = "sent" /\ rpc[n] = "none" /\ stage[n] \in {"idle", "recall"}
        /\ n # c /\ stage[c] \in {"lock", "unlock"}
    BY <1>a, <2>1, ServedClient DEF Receives
  <2> QED
    BY <2>1, <2>2, <1>m, <1>a, <1>t DEF Answer, Packet, opVars, serverVars,
       cacheVars, homeVars, LockIsLocal, HomeServes, StagesFit
<1>29. CASE HandleRead(n)
  <2>1. PICK c \in Node : HandleRead(n)!(c)
    BY <1>29 DEF HandleRead
  <2>2. /\ rpc[c] = "sent" /\ rpc[n] = "none" /\ stage[n] \in {"idle", "recall"}
        /\ n # c /\ stage[c] = "access" /\ op[c].kind = "READ" /\ n = Home
    BY <1>a, <2>1, ServedClient DEF Receives
  <2> QED
    BY <2>1, <2>2, <1>m, <1>a, <1>t DEF Answer, Packet, Die, opVars, netVars,
       serverVars, LockIsLocal, HomeServes, StagesFit
<1>30. CASE HandleWrite(n)
  <2>1. PICK c \in Node : HandleWrite(n)!(c)
    BY <1>30 DEF HandleWrite
  <2>2. /\ rpc[c] = "sent" /\ rpc[n] = "none" /\ stage[n] \in {"idle", "recall"}
        /\ n # c /\ stage[c] = "access" /\ op[c].kind = "WRITE" /\ n = Home
    BY <1>a, <2>1, ServedClient DEF Receives
  <2> QED
    BY <2>1, <2>2, <1>m, <1>a, <1>t DEF Answer, Packet, opVars, serverVars,
       cacheVars, LockIsLocal, HomeServes, StagesFit
<1>31. CASE StartInvalidations(n)
  <2>1. PICK c \in Node : StartInvalidations(n)!(c)
    BY <1>31 DEF StartInvalidations
  <2>2. /\ rpc[c] = "sent" /\ rpc[n] = "none" /\ stage[n] \in {"idle", "recall"}
        /\ n # c /\ stage[c] = "access" /\ op[c].kind = "WRITE" /\ n = Home
    BY <1>a, <2>1, ServedClient DEF Receives
  <2> QED
    BY <2>1, <2>2, <1>m, <1>a, <1>t DEF Packet, cacheVars, LockIsLocal, HomeServes,
       StagesFit
<1>32. CASE HandleInvalidation(n)
  <2>1. PICK c \in Node : HandleInvalidation(n)!(c)
    BY <1>32 DEF HandleInvalidation
  <2>2. /\ rpc[c] = "sent" /\ rpc[n] = "none" /\ stage[n] \in {"idle", "recall"}
        /\ n # c /\ stage[c] \in {"bcast", "wbcast"} /\ c = Home
    BY <1>a, <2>1, ServedClient DEF Receives
  <2> QED
    BY <2>1, <2>2, <1>m, <1>a, <1>t DEF Answer, Packet, opVars, serverVars,
       homeVars, LockIsLocal, HomeServes, StagesFit
<1> QED
  BY <1>1, <1>2, <1>3, <1>4, <1>5, <1>6, <1>7, <1>8, <1>9, <1>10, <1>11, <1>12,
     <1>13, <1>14, <1>15, <1>16, <1>17, <1>18, <1>19, <1>20, <1>21, <1>22, <1>23,
     <1>24, <1>25, <1>26, <1>27, <1>28, <1>29, <1>30, <1>31, <1>32 DEF Step,
     StartOp, ClientStep, ServerStep

\* Whoever has been told to listen does so until Home has closed its call.
LEMMA RecalledStays ==
    ASSUME MainDeployment, CoherenceInv, DeployInv, NEW n \in Node, Step(n),
           stage[Home] = "bcast", rpc[Home] = "connect", rpc'[Home] = "connect"
    PROVE  Recalled(LockNode)'
<1>a. Typed /\ StagesFit /\ MessagesFit /\ SessionsPaired
  BY TypesHold DEF CoherenceInv, FreshInv
<1>t. /\ stage \in [Node -> Stage] /\ rpc \in [Node -> Rpc]
      /\ serve \in [Node -> {"off", "listen", "session"}]
      /\ peer \in [Node -> Node] /\ backlog \in [Node -> SUBSET Node]
      /\ op \in [Node -> Operation] /\ msg \in [Node -> Message]
  BY <1>a DEF Typed
<1>s. status \in [Node -> Status]
  BY DEF CoherenceInv, FreshInv, TypeOK, ControlTypeOK
<1>m. /\ Node = {Home, LockNode} /\ Client = {LockNode} /\ Home # LockNode
      /\ LockIsLocal /\ HomeServes /\ NobodyFails
  BY NodesAssumption DEF MainDeployment, DeployInv
<1>r. /\ Recalled(LockNode)
      /\ rpc[LockNode] = "answered" /\ msg[LockNode].imm = "INVALIDATE" =>
             stage[LockNode] = "access" /\ op[LockNode].kind = "WRITE"
  BY <1>a, <1>m DEF DeployInv, Recalls, MessagesFit
<1>1. CASE Serve(n)
  BY <1>1, <1>r, <1>m, <1>a, <1>t DEF Serve, opVars, netVars, cacheVars, homeVars,
     Recalled, StagesFit
<1>2. CASE \E a \in Addr : StartRead(n, a)
  BY <1>2, <1>r, <1>m, <1>a, <1>t DEF StartRead, Start, Enter, LockPhase,
     serverVars, cacheVars, homeVars, Recalled, StagesFit
<1>3. CASE \E a \in Addr, v \in Value : StartWrite(n, a, v)
  BY <1>3, <1>r, <1>m, <1>a, <1>t DEF StartWrite, Start, Enter, LockPhase,
     serverVars, cacheVars, homeVars, Recalled, StagesFit
<1>4. CASE Connect(n)
  BY <1>4, <1>r, <1>m, <1>a, <1>t DEF Connect, opVars, cacheVars, homeVars,
     Recalled, StagesFit
<1>5. CASE GiveUp(n)
  BY <1>5, <1>r, <1>m, <1>a, <1>t DEF GiveUp, Die, opVars, netVars, serverVars,
     homeVars, Recalled, StagesFit
<1>6. CASE LockLocally(n)
  BY <1>6, <1>r, <1>m, <1>a, <1>t DEF LockLocally, Enter, AccessPhase, serverVars,
     cacheVars, homeVars, Recalled, StagesFit
<1>7. CASE UnlockLocally(n)
  BY <1>7, <1>r, <1>m, <1>a, <1>t DEF UnlockLocally, Enter, serverVars, cacheVars,
     homeVars, Recalled, StagesFit
<1>8. CASE CallLock(n)
  BY <1>8, <1>r, <1>m, <1>a, <1>t DEF CallLock, Call, Packet, opVars, serverVars,
     cacheVars, homeVars, Recalled, StagesFit
<1>9. CASE LockAnswered(n)
  BY <1>9, <1>r, <1>m, <1>a, <1>t DEF LockAnswered, Answered, Close, Packet,
     serverVars, cacheVars, homeVars, Recalled, StagesFit
<1>10. CASE EnterAccess(n)
  BY <1>10, <1>r, <1>m, <1>a, <1>t DEF EnterAccess, Enter, AccessPhase, serverVars,
     cacheVars, homeVars, Recalled, StagesFit
<1>11. CASE EnterUnlock(n)
  BY <1>11, <1>r, <1>m, <1>a, <1>t DEF EnterUnlock, Enter, LockPhase, serverVars,
     cacheVars, homeVars, Recalled, StagesFit
<1>12. CASE Return(n)
  BY <1>12, <1>r, <1>m, <1>a, <1>t DEF Return, Enter, Die, serverVars, homeVars,
     Recalled, StagesFit
<1>13. CASE CachedRead(n)
  BY <1>13, <1>r, <1>m, <1>a, <1>t DEF CachedRead, ReadValue, Enter, LockPhase,
     serverVars, cacheVars, homeVars, Recalled, StagesFit
<1>14. CASE LocalRead(n)
  BY <1>14, <1>r, <1>m, <1>a, <1>t DEF LocalRead, ReadValue, Enter, LockPhase,
     serverVars, cacheVars, homeVars, Recalled, StagesFit
<1>15. CASE CallRead(n)
  BY <1>15, <1>r, <1>m, <1>a, <1>t DEF CallRead, Call, Packet, opVars, serverVars,
     cacheVars, homeVars, Recalled, StagesFit
<1>16. CASE ReadReturned(n)
  BY <1>16, <1>r, <1>m, <1>a, <1>t DEF ReadReturned, Answered, ReadValue, Close,
     Packet, netVars, serverVars, homeVars, Recalled, StagesFit
<1>17. CASE CallWrite(n)
  BY <1>17, <1>r, <1>m, <1>a, <1>t DEF CallWrite, Call, Packet, opVars, netVars,
     serverVars, homeVars, Recalled, StagesFit
<1>18. CASE WriteReturned(n)
  BY <1>18, <1>r, <1>m, <1>a, <1>t DEF WriteReturned, Answered, Close, Packet,
     opVars, serverVars, cacheVars, homeVars, Recalled, StagesFit
<1>19. CASE WriteRecalled(n)
  BY <1>19, <1>r, <1>m, <1>a, <1>t DEF WriteRecalled, Answered, Enter, cacheVars,
     homeVars, Recalled, StagesFit
<1>20. CASE CloseReconnected(n)
  BY <1>20, <1>r, <1>m, <1>a, <1>t DEF CloseReconnected, Close, Packet, opVars,
     serverVars, cacheVars, homeVars, Recalled, StagesFit
<1>21. CASE LocalWrite(n)
  BY <1>21, <1>r, <1>m, <1>a, <1>t DEF LocalWrite, Enter, LockPhase, serverVars,
     cacheVars, Recalled, StagesFit
<1>22. CASE CallInvalidate(n)
  BY <1>22, <1>r, <1>m, <1>a, <1>t DEF CallInvalidate, Call, Packet, opVars,
     serverVars, cacheVars, homeVars, Recalled, StagesFit
<1>23. CASE InvalidationAnswered(n)
  BY <1>23, <1>r, <1>m, <1>a, <1>t DEF InvalidationAnswered, Answered, Close,
     Packet, opVars, serverVars, cacheVars, homeVars, Recalled, StagesFit
<1>24. CASE NextTarget(n)
  BY <1>24, <1>r, <1>m, <1>a, <1>t DEF NextTarget, opVars, serverVars, cacheVars,
     Recalled, StagesFit
<1>25. CASE EndBroadcast(n)
  BY <1>25, <1>r, <1>m, <1>a, <1>t DEF EndBroadcast, Enter, serverVars, cacheVars,
     Recalled, StagesFit
<1>26. CASE Accept(n)
  <2>1. \A c \in backlog[n] : rpc[c] = "backlog"
    BY <1>a, <1>t DEF SessionsPaired
  <2> QED
    BY <1>26, <2>1, <1>r, <1>m, <1>t DEF Accept, opVars, Recalled
<1>27. CASE HandleReset(n)
  <2>1. InSession(peer[n]) /\ Target(peer[n]) = n
    BY <1>27, <1>a, <1>t DEF HandleReset, SessionsPaired
  <2>2. n # Home
    BY <1>27, <1>a, <1>m DEF HandleReset, StagesFit
  <2>3. peer[n] # Home
    BY <1>27, <1>t, <1>m DEF HandleReset
  <2>4. n = LockNode /\ peer[n] = LockNode
    BY <2>2, <2>3, <1>t, <1>m
  <2> QED
    BY <1>27, <2>4, <1>a, <1>t, <1>m DEF HandleReset, StagesFit, Recalled
<1>28. CASE HandleLocks(n)
  <2>1. PICK c \in Node : HandleLocks(n)!(c)
    BY <1>28 DEF HandleLocks
  <2>2. /\ rpc[c] = "sent" /\ rpc[n] = "none" /\ stage[n] \in {"idle", "recall"}
        /\ n # c /\ stage[c] \in {"lock", "unlock"}
    BY <1>a, <2>1, ServedClient DEF Receives
  <2> QED
    BY <2>1, <2>2, <1>r, <1>m, <1>a, <1>t DEF Answer, Packet, opVars, serverVars,
       cacheVars, homeVars, Recalled, StagesFit
<1>29. CASE HandleRead(n)
  <2>1. PICK c \in Node : HandleRead(n)!(c)
    BY <1>29 DEF HandleRead
  <2>2. /\ rpc[c] = "sent" /\ rpc[n] = "none" /\ stage[n] \in {"idle", "recall"}
        /\ n # c /\ stage[c] = "access" /\ op[c].kind = "READ" /\ n = Home
    BY <1>a, <2>1, ServedClient DEF Receives
  <2> QED
    BY <2>1, <2>2, <1>r, <1>m, <1>a, <1>t DEF Answer, Packet, Die, opVars, netVars,
       serverVars, Recalled, StagesFit
<1>30. CASE HandleWrite(n)
  <2>1. PICK c \in Node : HandleWrite(n)!(c)
    BY <1>30 DEF HandleWrite
  <2>2. /\ rpc[c] = "sent" /\ rpc[n] = "none" /\ stage[n] \in {"idle", "recall"}
        /\ n # c /\ stage[c] = "access" /\ op[c].kind = "WRITE" /\ n = Home
    BY <1>a, <2>1, ServedClient DEF Receives
  <2> QED
    BY <2>1, <2>2, <1>r, <1>m, <1>a, <1>t DEF Answer, Packet, opVars, serverVars,
       cacheVars, Recalled, StagesFit
<1>31. CASE StartInvalidations(n)
  <2>1. PICK c \in Node : StartInvalidations(n)!(c)
    BY <1>31 DEF StartInvalidations
  <2>2. /\ rpc[c] = "sent" /\ rpc[n] = "none" /\ stage[n] \in {"idle", "recall"}
        /\ n # c /\ stage[c] = "access" /\ op[c].kind = "WRITE" /\ n = Home
    BY <1>a, <2>1, ServedClient DEF Receives
  <2> QED
    BY <2>1, <2>2, <1>r, <1>m, <1>a, <1>t DEF Packet, cacheVars, Recalled, StagesFit
<1>32. CASE HandleInvalidation(n)
  <2>1. PICK c \in Node : HandleInvalidation(n)!(c)
    BY <1>32 DEF HandleInvalidation
  <2>2. /\ rpc[c] = "sent" /\ rpc[n] = "none" /\ stage[n] \in {"idle", "recall"}
        /\ n # c /\ stage[c] \in {"bcast", "wbcast"} /\ c = Home
    BY <1>a, <2>1, ServedClient DEF Receives
  <2> QED
    BY <2>1, <2>2, <1>r, <1>m, <1>a, <1>t DEF Answer, Packet, opVars, serverVars,
       homeVars, Recalled, StagesFit
<1> QED
  BY <1>1, <1>2, <1>3, <1>4, <1>5, <1>6, <1>7, <1>8, <1>9, <1>10, <1>11, <1>12,
     <1>13, <1>14, <1>15, <1>16, <1>17, <1>18, <1>19, <1>20, <1>21, <1>22, <1>23,
     <1>24, <1>25, <1>26, <1>27, <1>28, <1>29, <1>30, <1>31, <1>32 DEF Step,
     StartOp, ClientStep, ServerStep

\* Home is no sharer of its own memory, so it calls back the client at most.
LEMMA HomeUnlistedStep ==
    ASSUME MainDeployment, CoherenceInv, RoomInv, ListInv, DeployInv, NEW n \in Node, Step(n)
    PROVE  HomeUnlisted'
<1>a. /\ StagesFit /\ \A b \in Addr : dir[b].sharers \in Seq(Node)
      /\ Node = {Home, LockNode} /\ Home # LockNode /\ HomeServes /\ HomeUnlisted
  BY TypesHold, NodesAssumption DEF CoherenceInv, FreshInv, Typed, MainDeployment, DeployInv
<1>1. ASSUME NEW b \in Addr PROVE Home \notin Range(dir'[b].sharers)
  <2>1. Home \notin Range(dir[b].sharers)
    BY <1>a DEF HomeUnlisted, Sharers
  <2>2. CASE HandleRead(n)
    <3>1. PICK c \in Node : /\ c # Home
                           /\ \/ dir'[b].sharers = dir[b].sharers
                              \/ dir'[b].sharers = Append(dir[b].sharers, c)
      BY <2>2, ReaderIsNew
    <3>2. Range(Append(dir[b].sharers, c)) = Range(dir[b].sharers) \cup {c}
      BY <1>a, RangeOfAppend
    <3> QED
      BY <2>1, <3>1, <3>2
  <2>3. CASE ~ HandleRead(n)
    BY <2>1, <2>3, ListsChange, RangeOfEmpty
  <2> QED
    BY <2>2, <2>3
<1>2. Home \notin Range(targets') /\ Len(targets') <= 1
  <2>1. CASE StartInvalidations(n)
    <3>1. PICK c \in Node : StartInvalidations(n)!(c)
      BY <2>1 DEF StartInvalidations
    <3>2. msg[c].addr \in Addr
      BY <3>1, ServedClient, TypesHold DEF CoherenceInv, FreshInv
    <3> DEFINE s == dir[msg[c].addr].sharers
    <3>3. /\ s \in Seq(Node) /\ Home \notin Range(s) /\ targets' = s
          /\ \A i, j \in DOMAIN s : s[i] = s[j] => i = j
      BY <1>a, <3>1, <3>2 DEF HomeUnlisted, Sharers, ListInv, ListedOnce, IsInjective
    <3>4. \A i \in DOMAIN s : s[i] = LockNode
      BY <1>a, <3>3 DEF Range
    <3>5. Len(s) \in Nat /\ DOMAIN s = 1 .. Len(s)
      BY <3>3
    <3> HIDE DEF s
    <3>6. Len(s) > 1 => FALSE
      BY <3>3, <3>4, <3>5
    <3> QED
      BY <3>3, <3>5, <3>6
  <2>2. ~ LocalWrite(n)
    BY <1>a DEF LocalWrite, HomeServes
  <2>3. ~ NextTarget(n)
    BY <1>a, TypesHold DEF NextTarget, HomeUnlisted, CoherenceInv, FreshInv, Typed
  <2>4. CASE EndBroadcast(n)
    BY <2>4, RangeOfEmpty DEF EndBroadcast
  <2>5. CASE UNCHANGED targets
    BY <1>a, <2>5 DEF HomeUnlisted
  <2> QED
    BY <2>1, <2>2, <2>3, <2>4, <2>5, TargetsFootprint
<1> QED
  BY <1>1, <1>2 DEF HomeUnlisted, Sharers

\* Home marks only what it has served.
LEMMA PlausibleStep ==
    ASSUME MainDeployment, CoherenceInv, DeployInv, NEW n \in Node, Step(n)
    PROVE  Plausible'
<1>a. dir \in [Addr -> SaveData] /\ Plausible
  BY TypesHold DEF CoherenceInv, FreshInv, Typed, DeployInv
<1>1. CASE HandleRead(n)
  BY <1>a, <1>1, ReaderListed DEF SharedBy, Plausible
<1>2. CASE HandleWrite(n)
  BY <1>a, <1>2 DEF HandleWrite, Written, Plausible
<1>3. CASE StartInvalidations(n)
  BY <1>a, <1>3 DEF StartInvalidations, Written, Plausible
<1>4. CASE LocalWrite(n)
  BY <1>a, <1>4 DEF LocalWrite, WrittenAtHome, Plausible
<1>5. CASE EndBroadcast(n)
  BY <1>a, <1>5 DEF EndBroadcast, WrittenAtHome, Plausible
<1> QED
  BY <1>a, <1>1, <1>2, <1>3, <1>4, <1>5, DirFootprint DEF Plausible

\* Home connects again only after EndBroadcast or to a client it has told.
LEMMA RecallsStep ==
    ASSUME MainDeployment, CoherenceInv, DeployInv, NEW n \in Node, Step(n)
    PROVE  Recalls'
<1> SUFFICES ASSUME stage'[Home] = "bcast", rpc'[Home] = "connect"
             PROVE  Recalled(LockNode)'
  BY DEF Recalls, Recalled
<1>a. /\ Typed /\ StagesFit /\ MessagesFit /\ SessionsPaired
      /\ Node = {Home, LockNode} /\ Home # LockNode /\ HomeServes /\ HomeUnlisted
  BY TypesHold, NodesAssumption DEF CoherenceInv, FreshInv, MainDeployment, DeployInv
<1>1. CASE StartInvalidations(n)
  <2>1. PICK c \in Node : StartInvalidations(n)!(c)
    BY <1>1 DEF StartInvalidations
  <2>2. c = LockNode /\ n = Home
    BY <1>a, <2>1, ServedClient
  <2> QED
    BY <1>a, <2>1, <2>2 DEF Recalled, Packet, Typed
<1>2. ~ LocalWrite(n) /\ ~ NextTarget(n)
  BY <1>a DEF LocalWrite, HomeServes, NextTarget, HomeUnlisted, Typed
<1>3. CASE ~ StartInvalidations(n)
  <2>1. stage[Home] = "bcast"
    BY <1>2, <1>3, BroadcastControl
  <2>2. rpc[Home] = "connect"
    BY <1>2, <1>3, <2>1, DeployControl
  <2> QED
    BY <2>1, <2>2, RecalledStays
<1> QED
  BY <1>1, <1>3

\* No exception is thrown, nothing absent is dereferenced, no loop is endless.
LEMMA NobodyFailsStep ==
    ASSUME MainDeployment, CoherenceInv, RoomInv, DeployInv, NEW n \in Node, Step(n)
    PROVE  NobodyFails'
<1>a. /\ Typed /\ StagesFit /\ MessagesFit /\ SessionsPaired /\ RoomKept /\ NobodyFails
      /\ Node = {Home, LockNode} /\ Home # LockNode /\ Patient
      /\ LockIsLocal /\ HomeServes /\ HomeUnlisted /\ Plausible /\ Recalls
  BY TypesHold, NodesAssumption
  DEF CoherenceInv, FreshInv, RoomInv, MainDeployment, DeployInv
<1>1. ~ GiveUp(n)
  <2> SUFFICES ASSUME GiveUp(n) PROVE FALSE
    OBVIOUS
  <2>1. rpc[n] = "connect" /\ ~ ComesToListen(Target(n))
    BY <1>a DEF GiveUp
  <2>2. CASE n = Home
    <3>1. stage[Home] = "bcast" /\ Target(n) = Head(targets)
      BY <1>a, <2>1, <2>2 DEF HomeServes, StagesFit, Target
    <3>2. targets \in Seq(Node) /\ targets # << >>
      BY <1>a, <3>1 DEF StagesFit, Typed
    <3>3. Range(targets) = {Head(targets)} \cup Range(Tail(targets)) /\ Head(targets) \in Node
      BY <3>2, RangeOfTail
    <3>4. Target(n) = LockNode
      BY <1>a, <3>1, <3>3 DEF HomeUnlisted
    <3>5. Recalled(LockNode)
      BY <1>a, <2>1, <2>2, <3>1 DEF Recalls
    <3> QED
      BY <1>a, <2>1, <3>4, <3>5 DEF ComesToListen, Recalled, NobodyFails
  <2>3. CASE n = LockNode
    <3>1. stage[n] \notin {"lock", "denied", "unlock", "bcast", "wbcast"}
      BY <1>a, <2>1, <2>3 DEF LockIsLocal, StagesFit
    <3>2. Target(n) = Home
      BY <3>1 DEF Target
    <3> QED
      BY <1>a, <2>1, <3>2, NodesAssumption DEF ComesToListen, NobodyFails
  <2> QED
    BY <1>a, <2>2, <2>3
<1>2. ~ Return(n)
  BY <1>a DEF Return, LockIsLocal, HomeServes
<1>3. CASE ReadReturned(n) \/ CallWrite(n)
  BY <1>a, <1>3, NothingEvicted DEF NobodyFails
<1>4. CASE Accept(n)
  <2>1. PICK c \in backlog[n] : Die(backlog[n] \ {c})
    BY <1>4 DEF Accept
  <2>2. backlog[n] \subseteq Node /\ \A i \in backlog[n] : Target(i) = n /\ rpc[i] = "backlog"
    BY <1>a DEF SessionsPaired, Typed
  <2>3. ASSUME Home \in backlog[n] PROVE LockNode \notin backlog[n]
    <3>1. stage[Home] = "bcast"
      BY <1>a, <2>2, <2>3 DEF HomeServes, StagesFit
    <3>2. serve[n] # "off"
      BY <1>4 DEF Accept
    <3>3. n = LockNode
      BY <1>a, <3>1, <3>2 DEF StagesFit
    <3>4. ASSUME LockNode \in backlog[n] PROVE FALSE
      <4>1. Target(LockNode) = LockNode /\ rpc[LockNode] = "backlog"
        BY <2>2, <3>3, <3>4
      <4> QED
        BY <1>a, <3>2, <3>3, <4>1 DEF StagesFit
    <3> QED
      BY <3>4
  <2>4. backlog[n] \ {c} = {}
    BY <1>a, <2>1, <2>2, <2>3
  <2> QED
    BY <1>a, <2>1, <2>4 DEF Die, NobodyFails
<1>5. CASE HandleRead(n)
  <2>1. PICK c \in Node : HandleRead(n)!(c)
    BY <1>5 DEF HandleRead
  <2>2. msg[c].addr \in Addr
    BY <1>a, <2>1, ServedClient
  <2> QED
    BY <1>a, <2>1, <2>2 DEF Plausible, NobodyFails
<1> QED
  BY <1>a, <1>1, <1>2, <1>3, <1>4, <1>5, StatusFootprint DEF NobodyFails

\* At first everybody is idle.
LEMMA DeployInvInit == ASSUME MainDeployment, Init PROVE DeployInv
<1>1. LockIsLocal /\ HomeServes /\ Recalls /\ NobodyFails
  BY NodesAssumption DEF Init, LockIsLocal, HomeServes, Recalls, NobodyFails
<1>2. /\ \A b \in Addr : dir[b].sharers = << >> /\ dir[b].iscached \in FreshStates
      /\ targets = << >>
  BY DEF Init
<1>3. HomeUnlisted /\ Plausible
  BY <1>2, RangeOfEmpty DEF HomeUnlisted, Plausible, Sharers, MainDeployment
<1> QED
  BY <1>1, <1>3 DEF DeployInv

\* Every step of this deployment keeps it.
LEMMA DeployInvStep ==
    ASSUME MainDeployment, CoherenceInv, RoomInv, ListInv, DeployInv, [Next]_vars
    PROVE  DeployInv'
<1>1. ASSUME NEW n \in Node, Step(n) PROVE DeployInv'
  BY <1>1, DeployControl, HomeUnlistedStep, PlausibleStep, RecallsStep,
     NobodyFailsStep DEF DeployInv
<1>2. CASE UNCHANGED vars
  BY <1>2 DEF vars, DeployInv, LockIsLocal, HomeServes, HomeUnlisted, Plausible, Recalls,
      Recalled, NobodyFails, Sharers
<1> QED
  BY <1>1, <1>2 DEF Next

\* In the deployment of main.cpp, for any addresses and values, caches of any
\* size and any order of steps: while caches have room, no memory comes back
\* holding WILD and retries outlast what they wait for, no process ends or spins.
THEOREM MainNeverFails ==
    ASSUME MainDeployment PROVE Spec => []NobodyFails
<1>1. CacheReserve # 0
  BY DEF MainDeployment
<1>2. CoherenceInv /\ RoomInv /\ ListInv /\ DeployInv /\ [Next]_vars => DeployInv'
  BY DeployInvStep
<1>3. Init => DeployInv
  BY DeployInvInit
<1>4. DeployInv => NobodyFails
  BY DEF DeployInv
<1> QED
  BY <1>1, <1>2, <1>3, <1>4, CoherenceInvariant, RoomAndLists, PTL DEF Spec

=============================================================================
