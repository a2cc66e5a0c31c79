------------------------- MODULE CoherenceProperties -------------------------
(***************************************************************************)
(* What the coherence protocol guarantees, the inductive invariant behind  *)
(* it, and the atomic memory it implements.                                *)
(***************************************************************************)
EXTENDS Coherence

Sharers(a) == Range(dir[a].sharers)

\* n has sent a write of a that Home has not handled yet.
WriteInFlight(n, a) ==
    /\ stage[n] = "access" /\ rpc[n] = "sent"
    /\ op[n].kind = "WRITE" /\ op[n].addr = a

\* Home is on its way to invalidate a at n.
Scheduled(n, a) == victim = a /\ n \in Range(targets)

\* Home has applied a write of a by n that has not yet released its lock.
WriteApplied(n, a) ==
    /\ op[n].kind = "WRITE" /\ op[n].addr = a
    /\ \/ stage[n] \in {"recall", "reconnect", "unlock"}
       \/ stage[n] = "access" /\ rpc[n] \in {"answered", "closing", "closed"}

SingleWriter(a) == \A m, n \in MayWrite[a] : m = n

\* n's connection is held by a session of the node it called.  After an
\* INVALIDATE answer it is not: Home has closed the session already.
InSession(n) ==
    \/ rpc[n] \in {"open", "sent", "closing"}
    \/ rpc[n] = "answered" /\ msg[n].imm # "INVALIDATE"

\* The node that writes has its last answer from Home.
Released(n) ==
    \/ stage[n] = "unlock"
    \/ stage[n] \in {"access", "reconnect"} /\ rpc[n] = "closed"
    \/ stage[n] = "access" /\ InSession(n)

\* The connections fit together: a server is in a session with exactly the
\* client that called it and still waits, and a kernel queues exactly the
\* connections that wait to be accepted, at servers that will accept.
SessionsPaired ==
    \A m, n \in Node :
        /\ serve[m] = "session" /\ peer[m] = n <=> InSession(n) /\ Target(n) = m
        /\ n \in backlog[m] <=> rpc[n] = "backlog" /\ Target(n) = m
        /\ n \in backlog[m] => serve[m] = "listen"

\* Every node the directory knows, as a sharer or as the exclusive owner, has
\* the directory's value in its cache or nothing, unless its own write is on
\* its way: handleRead, handleWrite and the updates of the cache on both sides
\* of them keep the two in step whatever the lock does, with any number of
\* writers, with processes that die and with a full cache.
DirectoryFresh ==
    \A a \in Addr, n \in Node :
        \/ n \in Sharers(a)
        \/ dir[a].iscached = "EXCLUS" /\ dir[a].owner = n
        => cache[n][a] \in {None, dir[a].data} \/ WriteInFlight(n, a)

\* When one node does all the writing of an address, no cache holds an old
\* value of it except while Home is still working through the list of sharers
\* it copied (or the writer's own new value is on its way): startInvalidations
\* forgets no copy, and no read slips a copy past the list.
SingleWriterCoherence ==
    \A a \in Addr : SingleWriter(a) =>
        \A n \in Node :
            \/ cache[n][a] \in {None, dir[a].data}
            \/ WriteInFlight(n, a)
            \/ Scheduled(n, a)

\* When the only writer of an address goes on to release its lock, the value
\* is at home and every old copy is gone: write returns only after the whole
\* broadcast, even when the writer was called back by somebody else.
WriteVisibleWhenReturned ==
    \A a \in Addr, n \in Node :
        SingleWriter(a) /\ WriteApplied(n, a) /\ stage[n] = "unlock" =>
            /\ dir[a].data = op[n].val
            /\ \A m \in Node : cache[m][a] \in {None, op[n].val}

\* No node is listed twice among the sharers while caches have room: a second
\* invalidation of it would be refused, and Home would end.
SharersDistinct ==
    \A a \in Addr : Cardinality(Sharers(a)) = Len(dir[a].sharers)

\* What main.cpp makes of it: the server and one client, which holds the lock
\* table; caches with room, memory that does not come back holding WILD, and
\* retries that outlast the time a node takes to listen.
MainDeployment ==
    /\ Node = {Home, LockNode} /\ Client = {LockNode}
    /\ "WILD" \notin FreshStates /\ CacheReserve # 0 /\ Patient

\* No process ends by an exception and none loops for ever.
NobodyFails == \A n \in Node : status[n] = "up"

\* Every read and every write returns.
OperationsReturn == \A n \in Client : stage[n] # "idle" ~> stage[n] = "idle"

-----------------------------------------------------------------------------
(* The inductive invariant behind these properties.                        *)

\* Which connection states a stage allows, who may be in it, and when Home
\* has targets.  A process that ended keeps its stage.
StagesFit ==
    /\ \A n \in Node :
        /\ stage[n] \in {"idle", "recall"} => rpc[n] = "none"
        /\ stage[n] = "denied" => rpc[n] \in {"closing", "closed"}
        /\ stage[n] = "reconnect" => rpc[n] \notin {"sent", "answered"}
        /\ stage[n] \in {"recall", "reconnect", "wbcast"} => op[n].kind = "WRITE"
        /\ stage[n] \in {"bcast", "wbcast"} => n = Home
        /\ serve[n] # "off" => stage[n] \in {"idle", "recall"}
        /\ stage[n] = "recall" => serve[n] # "off"
    /\ targets # << >> <=> stage[Home] \in {"bcast", "wbcast"}

\* What a node writes and what its messages carry.
MessagesFit ==
    \A n \in Node :
        /\ op[n].kind = "WRITE" => op[n].val \in Value /\ n \in MayWrite[op[n].addr]
        /\ rpc[n] = "sent" =>
            \/ /\ stage[n] \in {"lock", "unlock"}
               /\ msg[n].imm = "LOCKS" /\ msg[n].val \in LockState
            \/ /\ stage[n] = "access"
               /\ msg[n].imm = op[n].kind /\ msg[n].addr = op[n].addr
               /\ op[n].kind = "WRITE" => msg[n].val = op[n].val
            \/ /\ stage[n] \in {"bcast", "wbcast"}
               /\ msg[n].imm = "INVALIDATE" /\ msg[n].addr = victim
        /\ rpc[n] = "answered" =>
            /\ msg[n].imm = "INVALIDATE" =>
                   stage[n] = "access" /\ op[n].kind = "WRITE"
            /\ stage[n] = "access" /\ op[n].kind = "READ" => msg[n].val \in Value

\* A node reads from Home only what it has no copy of, and keeps of its own
\* write in flight the value it sent or nothing.
CopiesFit ==
    \A n \in Node :
        /\ stage[n] = "access" /\ op[n].kind = "READ"
           /\ rpc[n] \in {"connect", "backlog", "open", "sent", "answered"}
           => cache[n][op[n].addr] = None
        /\ stage[n] = "access" /\ op[n].kind = "WRITE" /\ rpc[n] = "sent"
           => cache[n][op[n].addr] \in {None, op[n].val}

\* The value an answered read brings is the one at home, and Home counts the
\* reader among the sharers.
AnswersFresh ==
    \A n \in Node :
        stage[n] = "access" /\ op[n].kind = "READ" /\ rpc[n] = "answered" =>
            msg[n].val = dir[op[n].addr].data /\ n \in Sharers(op[n].addr)

FreshInv ==
    /\ TypeOK /\ StagesFit /\ MessagesFit /\ SessionsPaired
    /\ CopiesFit /\ AnswersFresh /\ DirectoryFresh

\* A list of sharers is never ignored by handleWrite or write.
SharersMarked ==
    \A a \in Addr : dir[a].sharers # << >> => dir[a].iscached = "SHARED"

\* Whoever has a copy and does not write the address is known to Home.
CopiesListed ==
    \A a \in Addr, n \in Node :
        cache[n][a] # None =>
            n \in MayWrite[a] \/ n \in Sharers(a) \/ Scheduled(n, a)

\* The copy of a node that alone writes an address is never old.
WriterFresh ==
    \A a \in Addr : \A n \in MayWrite[a] :
        SingleWriter(a) => \/ cache[n][a] \in {None, dir[a].data}
                           \/ WriteInFlight(n, a)

\* Home reads and writes its own memory: it neither connects nor caches.
HomeIsLocal ==
    /\ stage[Home] = "access" => rpc[Home] = "none"
    /\ stage[Home] \notin {"recall", "reconnect"}
    /\ \A a \in Addr : cache[Home][a] = None

\* Home gets on with its list: the sharer at its head has lost its copy when
\* it has answered, and during a write at home nobody is left out.
BroadcastFits ==
    stage[Home] \in {"bcast", "wbcast"} =>
        /\ rpc[Home] \in {"answered", "closing", "closed"}
           => cache[Head(targets)][victim] = None
        /\ stage[Home] = "wbcast" =>
            /\ op[Home].addr = victim
            /\ \A n \in Sharers(victim) : \/ cache[n][victim] = None
                                          \/ n \in Range(targets)

\* The lone writer's applied write is at home, and once the writer has been
\* answered for good no broadcast of its address is going on.
WritesApplied ==
    \A a \in Addr, n \in Node :
        SingleWriter(a) /\ WriteApplied(n, a) =>
            /\ dir[a].data = op[n].val
            /\ Released(n) => targets = << >> \/ victim # a

CoherenceInv ==
    /\ FreshInv /\ SharersMarked /\ CopiesListed /\ WriterFresh
    /\ HomeIsLocal /\ BroadcastFits /\ WritesApplied

-----------------------------------------------------------------------------
(* The memory the protocol implements when every address has one writer.   *)

\* Copies of a that neither agree with Home nor are a write on its way.
StaleHolders(a) ==
    {n \in Node : cache[n][a] \notin {None, dir[a].data}
                  /\ ~ WriteInFlight(n, a)}

\* A running process that reads without a connection has the item to read:
\* nobody invalidates it or evicts it between getCacheItem and the copy.
ReadsHit ==
    \A n \in Node :
        stage[n] = "access" /\ rpc[n] = "none" /\ op[n].kind = "READ"
        /\ n # Home /\ status[n] = "up" => cache[n][op[n].addr] # None

\* A read has its value from its answer on, and none before; that of an
\* implausible word at home never has one.
ReadsAnswered ==
    \A n \in Node : op[n].kind = "READ" =>
        /\ \/ stage[n] = "unlock" /\ n # Home
           \/ stage[n] = "access" /\ rpc[n] \in {"closing", "closed"}
           => op[n].val # None
        /\ \/ stage[n] = "lock"
           \/ stage[n] = "access" /\ rpc[n] \notin {"answered", "closing", "closed"}
           => op[n].val = None

\* All old copies are equally old: nobody but the writer has the new value
\* while an old one is left.
OldCopiesAgree ==
    \A a \in Addr : SingleWriter(a) =>
        \A m \in StaleHolders(a), n \in Node \ MayWrite[a] :
            cache[n][a] \in {None, cache[m][a]}

\* While an old copy is left, its writer has been heard by Home.
OldCopiesAwaitWriter ==
    \A a \in Addr : SingleWriter(a) /\ StaleHolders(a) # {} =>
        \E w \in MayWrite[a] : WriteApplied(w, a)

AtomicityInv ==
    /\ CoherenceInv /\ ReadsHit /\ ReadsAnswered
    /\ OldCopiesAgree /\ OldCopiesAwaitWriter

\* While an old copy is left, the write that Home has applied has not
\* happened yet: only its own writer could see it, for Home answers nobody
\* before the broadcast is over.
MemoryValue(a) ==
    IF StaleHolders(a) = {} THEN dir[a].data
    ELSE cache[CHOOSE n \in StaleHolders(a) : TRUE][a]

TookEffect(n) ==
    IF op[n].kind = "READ"
    THEN \/ stage[n] = "unlock" /\ op[n].val # None
         \/ stage[n] = "access" /\ rpc[n] \in {"answered", "closing", "closed"}
    ELSE WriteApplied(n, op[n].addr) /\ StaleHolders(op[n].addr) = {}

MemoryCall(n) ==
    [phase |-> CASE stage[n] \in {"idle", "bcast"} -> "idle"
                 [] stage[n] \notin {"idle", "bcast"} /\ TookEffect(n) -> "done"
                 [] OTHER -> "pending",
     kind |-> op[n].kind, addr |-> op[n].addr,
     val |-> IF stage[n] = "access" /\ rpc[n] = "answered" /\ op[n].kind = "READ"
             THEN msg[n].val ELSE op[n].val]

Memory == INSTANCE AtomicMemory WITH
            Process <- Node,
            mem <- [a \in Addr |-> MemoryValue(a)],
            call <- [n \in Node |-> MemoryCall(n)]

\* With one writer for every address, read and write are atomic: the caches,
\* the broadcast and the call back together behave as one memory, although
\* the lock does not keep readers away from a writer.
ImplementsAtomicMemory == Memory!MemorySpec

-----------------------------------------------------------------------------
(* The lock the operations hold.                                           *)

\* n has been granted the lock, and the lock node has not seen its unlock.
LockHeld(n) ==
    \/ stage[n] \in {"access", "recall", "reconnect", "wbcast"}
    \/ stage[n] = "lock" /\ rpc[n] = "answered" /\ msg[n].val = "granted"
    \/ stage[n] = "lock" /\ rpc[n] \in {"closing", "closed"}
    \/ stage[n] = "unlock" /\ rpc[n] \notin {"answered", "closing", "closed"}

LockHolders == {n \in Node : LockHeld(n)}

\* The table does not show the one holder: two nodes have shared the lock.
LockMisread == \E n \in LockHolders : locks # Wanted(n) \/ LockHolders # {n}

Lock == INSTANCE FragileLock WITH
            LockId <- {Home}, Mode <- {"SHAREDLOCK", "EXCLUSIVE"},
            holds <- [i \in {Home} |->
                        [n \in Node |-> IF LockHeld(n) THEN Wanted(n) ELSE "none"]],
            broken <- IF LockMisread THEN {Home} ELSE {}

\* Reads and writes hold the lock as the lock table promises it: one writer or
\* nobody, until two of them have shared it.
LocksAsPromised == Lock!FragileSpec

=============================================================================
