------------------------------ MODULE Coherence ------------------------------
(***************************************************************************)
(* The directory-based coherence protocol of the distributed memory:       *)
(* Node::read and Node::write of every node, the lock they take, the       *)
(* remote procedure calls they make (connectClientSocket, sendLock,        *)
(* sendAddress, sendData, closeClientSocket), the server loop that answers *)
(* them (connectAndReceive, receive and the handle* functions), the        *)
(* invalidations a write starts at the home node, and the nested server a  *)
(* writer becomes while it waits to be invalidated (prepareForInvalidate). *)
(*                                                                         *)
(* A node is one thread: it runs one operation or serves one session.      *)
(* One session is one TCP connection with its queue pair; the transport    *)
(* below it (the exchange of memory regions, the posting of receives) is   *)
(* taken as reliable here.                                                 *)
(***************************************************************************)
EXTENDS Integers, Sequences, FiniteSets, Functions

CONSTANTS
    Node,          \* the processes
    Home,          \* the node that owns every address: defs::port
    LockNode,      \* the node that holds the lock table: defs::locknode
    Client,        \* the nodes that call read and write
    Server,        \* the nodes that call connectAndReceive in their main loop
    Addr,          \* global addresses, all of them allocated by Home
    Value,         \* the 64-bit words stored there
    None,          \* no value, no node, no address
    MayWrite,      \* the nodes whose program writes an address
    FreshStates,   \* what iscached may hold in memory malloc has just returned
    CacheSize,     \* Cache::maxsize, counted in items of one size
    CacheReserve,  \* bound: an operation that may add a cache item starts only
                   \* while this much of the cache is available
    MaxSharers,    \* bound: no remote read starts on a longer list of sharers
    Patient        \* TRUE: the retries of connectClientSocket outlast the time
                   \* a peer takes to come back to listen; FALSE: they may not

DirState == {"UNSHARED", "SHARED", "EXCLUS", "WILD"}
LockState == {"UNLOCKED", "SHAREDLOCK", "EXCLUSIVE"}
Grant == {"granted", "denied"}
Imm == {"DEFAULT", "READ", "WRITE", "LOCKS", "RESET", "INVALIDATE"}

ASSUME NodesAssumption ==
    /\ Home \in Node /\ LockNode \in Node /\ Home # LockNode
    /\ Client \subseteq Node /\ Server \subseteq Node /\ Home \in Server

ASSUME DataAssumption ==
    /\ None \notin Value /\ None \notin Node /\ None \notin Addr
    /\ Value # {} /\ Addr # {}
    /\ MayWrite \in [Addr -> SUBSET Client]
    /\ FreshStates \subseteq DirState

ASSUME BoundsAssumption ==
    /\ CacheSize \in Nat \ {0} /\ CacheReserve \in Nat /\ MaxSharers \in Nat
    /\ Patient \in BOOLEAN

VARIABLES
    status,   \* status[n]: the process is up, dead (uncaught exception or
              \* null dereference), or in an endless loop
    stage,    \* stage[n]: how far the running operation of n has come
    op,       \* op[n]: the operation, its address, the value written or read
    rpc,      \* rpc[n]: the state of n's client connection
    msg,      \* msg[n]: the request or the reply last written on it
    serve,    \* serve[n]: n as a server
    peer,     \* peer[n]: the client of the session n serves
    backlog,  \* backlog[n]: connections the kernel of n has queued
    cache,    \* cache[n][a]: the value Cache::items of n holds for a
    avail,    \* avail[n]: Cache::availablesize of n
    dir,      \* dir[a]: the SaveData in the memory of Home
    locks,    \* Node::locks of LockNode, the entry of Home's addresses
    targets,  \* the sharers Home still has to invalidate
    victim    \* the address whose sharers Home invalidates

opVars == <<stage, op>>
netVars == <<rpc, msg>>
serverVars == <<serve, peer, backlog>>
cacheVars == <<cache, avail>>
homeVars == <<dir, targets, victim>>
vars == <<status, stage, op, rpc, msg, serve, peer, backlog, cache, avail,
          dir, locks, targets, victim>>

Status == {"up", "dead", "spin"}
Stage == {"idle", "lock", "denied", "access", "recall", "reconnect", "unlock",
          "bcast", "wbcast"}
Operation == [kind : {"READ", "WRITE"}, addr : Addr, val : Value \cup {None}]
Rpc == {"none", "connect", "backlog", "open", "sent", "answered", "closing",
        "closed"}
Message == [imm : Imm, addr : Addr \cup {None},
            val : Value \cup LockState \cup Grant \cup {None}]
SaveData == [data : Value, iscached : DirState,
             owner : Node \cup {None}, sharers : Seq(Node)]

ControlTypeOK ==
    /\ status \in [Node -> Status]
    /\ stage \in [Node -> Stage]
    /\ op \in [Node -> Operation]

NetworkTypeOK ==
    /\ rpc \in [Node -> Rpc]
    /\ msg \in [Node -> Message]
    /\ serve \in [Node -> {"off", "listen", "session"}]
    /\ peer \in [Node -> Node]
    /\ backlog \in [Node -> SUBSET Node]

CacheTypeOK ==
    /\ cache \in [Node -> [Addr -> Value \cup {None}]]
    /\ avail \in [Node -> 0 .. CacheSize]

HomeTypeOK ==
    /\ dir \in [Addr -> SaveData]
    /\ locks \in LockState \cup {"absent"}
    /\ targets \in Seq(Node)
    /\ victim \in Addr

TypeOK == ControlTypeOK /\ NetworkTypeOK /\ CacheTypeOK /\ HomeTypeOK

Packet(imm, a, v) == [imm |-> imm, addr |-> a, val |-> v]

Init ==
    /\ status = [n \in Node |-> "up"]
    /\ stage = [n \in Node |-> "idle"]
    /\ \E a \in Addr : /\ op = [n \in Node |-> [kind |-> "READ", addr |-> a,
                                                val |-> None]]
                       /\ victim = a
    /\ rpc = [n \in Node |-> "none"]
    /\ msg = [n \in Node |-> Packet("RESET", None, None)]
    /\ serve = [n \in Node |-> "off"]
    /\ peer = [n \in Node |-> Home]
    /\ backlog = [n \in Node |-> {}]
    /\ cache = [n \in Node |-> [a \in Addr |-> None]]
    /\ avail = [n \in Node |-> CacheSize]
    /\ dir \in [Addr -> {[data |-> v, iscached |-> s, owner |-> None,
                          sharers |-> << >>] : v \in Value, s \in FreshStates}]
    /\ locks = "absent"
    /\ targets = << >>

-----------------------------------------------------------------------------
(* What the code computes: the pieces the handlers are made of.            *)

\* Mutant: SHARED is forgotten among the states that ask for it.
ExclusiveNeedsInvalidation(d) == d.iscached = "EXCLUS" /\ d.sharers # << >>

\* handleWrite and write invalidate when the entry is plausible and shared.
NeedsInvalidation(d) == d.iscached # "WILD" /\ d.sharers # << >>

\* handleWrite asks, of the same entry, that iscached be SHARED or EXCLUS.
RemoteNeedsInvalidation(d) == NeedsInvalidation(d) /\ d.iscached # "UNSHARED"

\* The entry performWrite leaves at home for a write of v by node n.
Written(n, v) == [data |-> v, iscached |-> "EXCLUS", owner |-> n,
                  sharers |-> << >>]

\* The entry write leaves at home for a write by Home itself.
WrittenAtHome(v) == [data |-> v, iscached |-> "UNSHARED", owner |-> Home,
                     sharers |-> << >>]

\* Mutants: the reader is not listed; it replaces the others; the entry is
\* not marked as shared.
SharedByNobody(d, n) == [d EXCEPT !.iscached = "SHARED"]
SharedByLast(d, n) == [d EXCEPT !.iscached = "SHARED", !.sharers = <<n>>]
SharedUnmarked(d, n) == [d EXCEPT !.sharers = Append(@, n)]

\* The entry handleRead leaves for a read by node n.
SharedBy(d, n) == [data |-> d.data, iscached |-> "SHARED", owner |-> d.owner,
                   sharers |-> Append(d.sharers, n)]

\* setLock on the lock node: whether a request is granted.
Grants(s) ==
    \/ locks = "absent"
    \/ s = "UNLOCKED"
    \/ s = "EXCLUSIVE" /\ locks = "UNLOCKED"
    \/ s = "SHAREDLOCK" /\ locks # "EXCLUSIVE"

SetLock(s) == locks' = IF Grants(s) THEN s ELSE locks

\* The lock read and write ask for.
Wanted(n) == IF op[n].kind = "READ" THEN "SHAREDLOCK" ELSE "EXCLUSIVE"

\* Cache::addCacheItem for an item of size one: insert while there is room;
\* otherwise evict until there is, and drop the new item.  With no room and
\* nothing to evict the loop never ends.
AddCacheItem(n, a, v) ==
    \/ /\ avail[n] > 0
       /\ cache' = [cache EXCEPT ![n][a] = v]
       /\ avail' = [avail EXCEPT ![n] = @ - 1]
       /\ UNCHANGED status
    \/ /\ avail[n] = 0
       /\ \E b \in Addr : /\ cache[n][b] # None
                          /\ cache' = [cache EXCEPT ![n][b] = None]
       /\ avail' = [avail EXCEPT ![n] = 1]
       /\ UNCHANGED status
    \/ /\ avail[n] = 0
       /\ \A b \in Addr : cache[n][b] = None
       /\ status' = [status EXCEPT ![n] = "spin"]
       /\ UNCHANGED cacheVars

\* Mutant: an item that is there already is left as it is.
AlterCacheItemOnce(n, a, v) ==
    IF cache[n][a] # None THEN UNCHANGED <<cacheVars, status>>
                          ELSE AddCacheItem(n, a, v)

\* Cache::alterCacheItem.
AlterCacheItem(n, a, v) ==
    IF cache[n][a] # None
    THEN /\ cache' = [cache EXCEPT ![n][a] = v]
         /\ UNCHANGED <<avail, status>>
    ELSE AddCacheItem(n, a, v)

\* The processes of S end; their caches go with them.
Die(S) ==
    /\ status' = [n \in Node |-> IF n \in S THEN "dead" ELSE status[n]]
    /\ cache' = [n \in Node |-> IF n \in S THEN [a \in Addr |-> None]
                                ELSE cache[n]]

\* Where n's client connection leads, or will lead.
Target(n) ==
    IF stage[n] \in {"lock", "denied", "unlock"} THEN LockNode
    ELSE IF stage[n] \in {"bcast", "wbcast"} THEN Head(targets) ELSE Home

\* The connection state in which a stage begins: setLock needs no connection
\* on the lock node; performRead and write none at home or on a cache hit.
LockPhase(n) == IF n = LockNode THEN "none" ELSE "connect"

\* Mutant: performRead does not look in the cache.
UncachedAccessPhase(n) == IF n = Home THEN "none" ELSE "connect"

AccessPhase(n) ==
    IF n = Home \/ (op[n].kind = "READ" /\ cache[n][op[n].addr] # None)
    THEN "none" ELSE "connect"

Enter(n, s, phase) ==
    /\ stage' = [stage EXCEPT ![n] = s]
    /\ rpc' = [rpc EXCEPT ![n] = phase]

\* n writes a request on its open connection.
Call(n, imm, a, v) ==
    /\ status[n] = "up" /\ rpc[n] = "open"
    /\ rpc' = [rpc EXCEPT ![n] = "sent"]
    /\ msg' = [msg EXCEPT ![n] = Packet(imm, a, v)]

\* closeClientSocket: n has its answer and writes RESET on the connection.
Close(n) ==
    /\ rpc' = [rpc EXCEPT ![n] = "closing"]
    /\ msg' = [msg EXCEPT ![n] = Packet("RESET", None, None)]

\* m has the request imm of its session's client n in its receive buffer.
Receives(m, n, imm) ==
    /\ status[m] = "up" /\ serve[m] = "session" /\ peer[m] = n
    /\ rpc[n] = "sent" /\ msg[n].imm = imm

Answer(n, imm, v) ==
    /\ rpc' = [rpc EXCEPT ![n] = "answered"]
    /\ msg' = [msg EXCEPT ![n] = Packet(imm, None, v)]

Answered(n) == status[n] = "up" /\ rpc[n] = "answered"

-----------------------------------------------------------------------------
(* Connections.                                                            *)

\* connectAndReceive(id) in the main loop of a server: listen.
Serve(m) ==
    /\ m \in Server /\ status[m] = "up"
    /\ stage[m] = "idle" /\ serve[m] = "off"
    /\ serve' = [serve EXCEPT ![m] = "listen"]
    /\ UNCHANGED <<status, opVars, netVars, peer, backlog, cacheVars,
                   homeVars, locks>>

\* connectClientSocket reaches a listening peer: the kernel queues it.
Connect(n) ==
    /\ status[n] = "up" /\ rpc[n] = "connect"
    /\ serve[Target(n)] = "listen"
    /\ rpc' = [rpc EXCEPT ![n] = "backlog"]
    /\ backlog' = [backlog EXCEPT ![Target(n)] = @ \cup {n}]
    /\ UNCHANGED <<status, opVars, msg, serve, peer, cacheVars,
                   homeVars, locks>>

\* Mutant: the other queued connections are forgotten, not reset.
AcceptOne(m) ==
    /\ status[m] = "up" /\ serve[m] = "listen"
    /\ \E c \in backlog[m] :
        /\ peer' = [peer EXCEPT ![m] = c]
        /\ rpc' = [rpc EXCEPT ![c] = "open"]
    /\ serve' = [serve EXCEPT ![m] = "session"]
    /\ backlog' = [backlog EXCEPT ![m] = {}]
    /\ UNCHANGED <<status, opVars, msg, cacheVars, homeVars, locks>>

\* connectAndReceive accepts one connection and closes the listening socket:
\* the other queued connections are reset, and the exchange of addresses on
\* them throws.
Accept(m) ==
    /\ status[m] = "up" /\ serve[m] = "listen"
    /\ \E c \in backlog[m] :
        LET lost == backlog[m] \ {c} IN
        /\ peer' = [peer EXCEPT ![m] = c]
        /\ rpc' = [n \in Node |-> IF n = c THEN "open"
                                ELSE IF n \in lost THEN "none" ELSE rpc[n]]
        /\ Die(lost)
    /\ serve' = [serve EXCEPT ![m] = "session"]
    /\ backlog' = [backlog EXCEPT ![m] = {}]
    /\ UNCHANGED <<opVars, msg, avail, homeVars, locks>>

\* m is a server that listens again, or a writer that waits, or is about to
\* wait, for the invalidation it was promised.
ComesToListen(m) ==
    /\ status[m] = "up"
    /\ \/ m \in Server
       \/ stage[m] = "recall"
       \/ rpc[m] = "answered" /\ msg[m].imm = "INVALIDATE"

\* connectClientSocket has been refused too often and throws.
GiveUp(n) ==
    /\ status[n] = "up" /\ rpc[n] = "connect"
    /\ IF Patient THEN ~ ComesToListen(Target(n))
                  ELSE serve[Target(n)] # "listen"
    /\ Die({n})
    /\ UNCHANGED <<opVars, netVars, serverVars, avail, homeVars, locks>>

\* Mutant: a writer that was called back does not go on.
HandleResetOnly(m) ==
    /\ status[m] = "up" /\ serve[m] = "session"
    /\ rpc[peer[m]] = "closing"
    /\ serve' = [serve EXCEPT ![m] = "off"]
    /\ rpc' = [rpc EXCEPT ![peer[m]] = "closed"]
    /\ UNCHANGED <<status, opVars, msg, peer, backlog, cacheVars, homeVars,
                   locks>>

\* handleReset: the session ends.  A writer that served it in
\* prepareForInvalidate goes on to connect to Home again.
HandleReset(m) ==
    /\ status[m] = "up" /\ serve[m] = "session"
    /\ rpc[peer[m]] = "closing"
    /\ serve' = [serve EXCEPT ![m] = "off"]
    /\ IF stage[m] = "recall"
       THEN /\ stage' = [stage EXCEPT ![m] = "reconnect"]
            /\ rpc' = [rpc EXCEPT ![peer[m]] = "closed", ![m] = "connect"]
       ELSE /\ rpc' = [rpc EXCEPT ![peer[m]] = "closed"]
            /\ UNCHANGED stage
    /\ UNCHANGED <<status, op, msg, peer, backlog, cacheVars, homeVars, locks>>

-----------------------------------------------------------------------------
(* Node::read and Node::write, and their lock.                             *)

Start(n, kind, a, v) ==
    /\ n \in Client /\ status[n] = "up"
    /\ stage[n] = "idle" /\ serve[n] = "off"
    /\ cache[n][a] # None \/ avail[n] >= CacheReserve
    /\ op' = [op EXCEPT ![n] = [kind |-> kind, addr |-> a, val |-> v]]
    /\ Enter(n, "lock", LockPhase(n))
    /\ UNCHANGED <<status, msg, serverVars, cacheVars, homeVars, locks>>

StartRead(n, a) ==
    /\ Len(dir[a].sharers) < MaxSharers
    /\ Start(n, "READ", a, None)

StartWrite(n, a, v) == n \in MayWrite[a] /\ Start(n, "WRITE", a, v)

\* setLock on the lock node itself; a refused read or write returns at once.
LockLocally(n) ==
    /\ n = LockNode /\ status[n] = "up" /\ stage[n] = "lock"
    /\ SetLock(Wanted(n))
    /\ IF Grants(Wanted(n)) THEN Enter(n, "access", AccessPhase(n))
                            ELSE Enter(n, "idle", "none")
    /\ UNCHANGED <<status, op, msg, serverVars, cacheVars, homeVars>>

UnlockLocally(n) ==
    /\ n = LockNode /\ status[n] = "up" /\ stage[n] = "unlock"
    /\ SetLock("UNLOCKED")
    /\ Enter(n, "idle", "none")
    /\ UNCHANGED <<status, op, msg, serverVars, cacheVars, homeVars>>

\* setLock on another node asks the lock node.
CallLock(n) ==
    /\ \/ stage[n] = "lock" /\ Call(n, "LOCKS", None, Wanted(n))
       \/ stage[n] = "unlock" /\ Call(n, "LOCKS", None, "UNLOCKED")
    /\ UNCHANGED <<status, opVars, serverVars, cacheVars, homeVars, locks>>

HandleLocks(m) ==
    \E n \in Node :
        /\ Receives(m, n, "LOCKS")
        /\ SetLock(msg[n].val)
        /\ Answer(n, "DEFAULT",
                  IF Grants(msg[n].val) THEN "granted" ELSE "denied")
        /\ UNCHANGED <<status, opVars, serverVars, cacheVars, homeVars>>

LockAnswered(n) ==
    /\ Answered(n) /\ stage[n] \in {"lock", "unlock"}
    /\ Close(n)
    /\ stage' = [stage EXCEPT ![n] =
                    IF @ = "lock" /\ msg[n].val = "denied" THEN "denied" ELSE @]
    /\ UNCHANGED <<status, op, serverVars, cacheVars, homeVars, locks>>

\* The lock is held: performRead or performWrite begins.
EnterAccess(n) ==
    /\ status[n] = "up" /\ stage[n] = "lock" /\ rpc[n] = "closed"
    /\ Enter(n, "access", AccessPhase(n))
    /\ UNCHANGED <<status, op, msg, serverVars, cacheVars, homeVars, locks>>

\* The access is done: setLock(UNLOCKED).
EnterUnlock(n) ==
    /\ status[n] = "up" /\ stage[n] \in {"access", "reconnect"}
    /\ rpc[n] = "closed"
    /\ Enter(n, "unlock", LockPhase(n))
    /\ UNCHANGED <<status, op, msg, serverVars, cacheVars, homeVars, locks>>

\* read and write return.  A read whose performRead returned nullptr
\* dereferences it here, after the unlock.
Return(n) ==
    /\ status[n] = "up" /\ stage[n] \in {"denied", "unlock"}
    /\ rpc[n] = "closed"
    /\ Enter(n, "idle", "none")
    /\ IF stage[n] = "unlock" /\ op[n].kind = "READ" /\ op[n].val = None
       THEN Die({n}) ELSE UNCHANGED <<status, cache>>
    /\ UNCHANGED <<op, msg, serverVars, avail, homeVars, locks>>

-----------------------------------------------------------------------------
(* performRead.                                                            *)

ReadValue(n, v) ==
    op' = [op EXCEPT ![n] = [kind |-> "READ", addr |-> @.addr, val |-> v]]

\* The item is in the cache of n.
CachedRead(n) ==
    /\ status[n] = "up" /\ stage[n] = "access" /\ rpc[n] = "none"
    /\ n # Home /\ op[n].kind = "READ"
    /\ ReadValue(n, cache[n][op[n].addr])
    /\ Enter(n, "unlock", LockPhase(n))
    /\ UNCHANGED <<status, msg, serverVars, cacheVars, homeVars, locks>>

\* The address is local; an implausible iscached makes the result nullptr.
LocalRead(n) ==
    /\ status[n] = "up" /\ stage[n] = "access" /\ rpc[n] = "none"
    /\ n = Home /\ op[n].kind = "READ"
    /\ ReadValue(n, IF dir[op[n].addr].iscached = "WILD" THEN None
                    ELSE dir[op[n].addr].data)
    /\ Enter(n, "unlock", LockPhase(n))
    /\ UNCHANGED <<status, msg, serverVars, cacheVars, homeVars, locks>>

CallRead(n) ==
    /\ stage[n] = "access" /\ op[n].kind = "READ"
    /\ Call(n, "READ", op[n].addr, None)
    /\ UNCHANGED <<status, opVars, serverVars, cacheVars, homeVars, locks>>

\* handleRead: the reader joins the sharers.  An implausible iscached makes
\* performRead return nullptr, which handleRead dereferences.
HandleRead(m) ==
    \E n \in Node :
        LET a == msg[n].addr IN
        /\ Receives(m, n, "READ")
        /\ IF dir[a].iscached = "WILD"
           THEN Die({m}) /\ UNCHANGED <<netVars, dir>>
           ELSE /\ dir' = [dir EXCEPT ![a] = SharedBy(@, n)]
                /\ Answer(n, "DEFAULT", dir[a].data)
                /\ UNCHANGED <<status, cache>>
        /\ UNCHANGED <<opVars, serverVars, avail, targets, victim, locks>>

\* The value has arrived: cache it, then close the connection.
ReadReturned(n) ==
    /\ Answered(n) /\ stage[n] = "access" /\ op[n].kind = "READ"
    /\ ReadValue(n, msg[n].val)
    /\ AddCacheItem(n, op[n].addr, msg[n].val)
    /\ IF status'[n] = "up" THEN Close(n) ELSE UNCHANGED netVars
    /\ UNCHANGED <<stage, serverVars, homeVars, locks>>

-----------------------------------------------------------------------------
(* performWrite and the write of a local address.                          *)

\* The writer updates its own cache, then sends the data.
CallWrite(n) ==
    /\ stage[n] = "access" /\ op[n].kind = "WRITE"
    /\ status[n] = "up" /\ rpc[n] = "open"
    /\ AlterCacheItem(n, op[n].addr, op[n].val)
    /\ IF status'[n] = "up" THEN Call(n, "WRITE", op[n].addr, op[n].val)
                            ELSE UNCHANGED netVars
    /\ UNCHANGED <<opVars, serverVars, homeVars, locks>>

\* handleWrite of an entry nobody shares.
HandleWrite(m) ==
    \E n \in Node :
        LET a == msg[n].addr IN
        /\ Receives(m, n, "WRITE")
        /\ ~ RemoteNeedsInvalidation(dir[a])
        /\ dir' = [dir EXCEPT ![a] = Written(n, msg[n].val)]
        /\ Answer(n, "DEFAULT", None)
        /\ UNCHANGED <<status, opVars, serverVars, cacheVars, targets, victim,
                       locks>>

\* handleWrite of a shared entry: startInvalidations announces the
\* invalidation to the writer, writes, answers, closes the session itself
\* and begins to invalidate a copy of the list of sharers.
StartInvalidations(m) ==
    \E n \in Node :
        LET a == msg[n].addr IN
        /\ Receives(m, n, "WRITE")
        /\ RemoteNeedsInvalidation(dir[a])
        /\ dir' = [dir EXCEPT ![a] = Written(n, msg[n].val)]
        /\ msg' = [msg EXCEPT ![n] = Packet("INVALIDATE", a, None)]
        /\ serve' = [serve EXCEPT ![m] = "off"]
        /\ targets' = dir[a].sharers
        /\ victim' = a
        /\ stage' = [stage EXCEPT ![m] = "bcast"]
        /\ rpc' = [rpc EXCEPT ![n] = "answered", ![m] = "connect"]
        /\ UNCHANGED <<status, op, peer, backlog, cacheVars, locks>>

\* Mutant: an INVALIDATE answer is taken for the end of the write.
WriteReturnedAnyway(n) ==
    /\ Answered(n) /\ stage[n] = "access" /\ op[n].kind = "WRITE"
    /\ Close(n)
    /\ UNCHANGED <<status, opVars, serverVars, cacheVars, homeVars, locks>>

WriteReturned(n) ==
    /\ Answered(n) /\ stage[n] = "access" /\ op[n].kind = "WRITE"
    /\ msg[n].imm = "DEFAULT"
    /\ Close(n)
    /\ UNCHANGED <<status, opVars, serverVars, cacheVars, homeVars, locks>>

\* prepareForInvalidate: the writer takes the second answer, drops its
\* connection and listens for the one session it expects.
WriteRecalled(n) ==
    /\ Answered(n) /\ stage[n] = "access" /\ op[n].kind = "WRITE"
    /\ msg[n].imm = "INVALIDATE"
    /\ Enter(n, "recall", "none")
    /\ serve' = [serve EXCEPT ![n] = "listen"]
    /\ UNCHANGED <<status, op, msg, peer, backlog, cacheVars, homeVars, locks>>

\* The connection made after the recall is closed again by performWrite.
CloseReconnected(n) ==
    /\ status[n] = "up" /\ stage[n] = "reconnect" /\ rpc[n] = "open"
    /\ Close(n)
    /\ UNCHANGED <<status, opVars, serverVars, cacheVars, homeVars, locks>>

\* write on the home node: invalidate the sharers first, then store.
LocalWrite(n) ==
    LET a == op[n].addr IN
    /\ status[n] = "up" /\ stage[n] = "access" /\ rpc[n] = "none"
    /\ n = Home /\ op[n].kind = "WRITE"
    /\ IF NeedsInvalidation(dir[a])
       THEN /\ targets' = dir[a].sharers
            /\ victim' = a
            /\ Enter(n, "wbcast", "connect")
            /\ UNCHANGED dir
       ELSE /\ dir' = [dir EXCEPT ![a] = WrittenAtHome(op[n].val)]
            /\ Enter(n, "unlock", LockPhase(n))
            /\ UNCHANGED <<targets, victim>>
    /\ UNCHANGED <<status, op, msg, serverVars, cacheVars, locks>>

-----------------------------------------------------------------------------
(* broadcastInvalidations.                                                 *)

CallInvalidate(n) ==
    /\ stage[n] \in {"bcast", "wbcast"}
    /\ Call(n, "INVALIDATE", victim, None)
    /\ UNCHANGED <<status, opVars, serverVars, cacheVars, homeVars, locks>>

\* handleInvalidation: removeCacheItem gives no room back.
HandleInvalidation(m) ==
    \E n \in Node :
        /\ Receives(m, n, "INVALIDATE")
        /\ cache' = [cache EXCEPT ![m][msg[n].addr] = None]
        /\ Answer(n, "DEFAULT", None)
        /\ UNCHANGED <<status, opVars, serverVars, avail, homeVars, locks>>

InvalidationAnswered(n) ==
    /\ Answered(n) /\ stage[n] \in {"bcast", "wbcast"}
    /\ Close(n)
    /\ UNCHANGED <<status, opVars, serverVars, cacheVars, homeVars, locks>>

\* One sharer is done; go on with the next.
NextTarget(n) ==
    /\ status[n] = "up" /\ stage[n] \in {"bcast", "wbcast"}
    /\ rpc[n] = "closed" /\ Len(targets) > 1
    /\ targets' = Tail(targets)
    /\ rpc' = [rpc EXCEPT ![n] = "connect"]
    /\ UNCHANGED <<status, opVars, msg, serverVars, cacheVars, dir, victim,
                   locks>>

\* The last sharer is done: handleWrite returns to the server loop, a local
\* write stores its value.
EndBroadcast(n) ==
    /\ status[n] = "up" /\ rpc[n] = "closed" /\ Len(targets) = 1
    /\ targets' = << >>
    /\ \/ stage[n] = "bcast" /\ Enter(n, "idle", "none") /\ UNCHANGED dir
       \/ /\ stage[n] = "wbcast"
          /\ dir' = [dir EXCEPT ![op[n].addr] = WrittenAtHome(op[n].val)]
          /\ Enter(n, "unlock", LockPhase(n))
    /\ UNCHANGED <<status, op, msg, serverVars, cacheVars, victim, locks>>

-----------------------------------------------------------------------------
ServerStep(m) ==
    \/ Accept(m) \/ HandleReset(m) \/ HandleLocks(m)
    \/ HandleRead(m) \/ HandleWrite(m) \/ StartInvalidations(m)
    \/ HandleInvalidation(m)

ClientStep(n) ==
    \/ Connect(n) \/ GiveUp(n)
    \/ LockLocally(n) \/ UnlockLocally(n)
    \/ CallLock(n) \/ LockAnswered(n) \/ EnterAccess(n) \/ EnterUnlock(n)
    \/ Return(n)
    \/ CachedRead(n) \/ LocalRead(n) \/ CallRead(n) \/ ReadReturned(n)
    \/ CallWrite(n) \/ WriteReturned(n) \/ WriteRecalled(n)
    \/ CloseReconnected(n) \/ LocalWrite(n)
    \/ CallInvalidate(n) \/ InvalidationAnswered(n) \/ NextTarget(n)
    \/ EndBroadcast(n)

StartOp(n) ==
    \/ \E a \in Addr : StartRead(n, a)
    \/ \E a \in Addr, v \in Value : StartWrite(n, a, v)

Step(n) == Serve(n) \/ StartOp(n) \/ ClientStep(n) \/ ServerStep(n)

Next == \E n \in Node : Step(n)

Spec == Init /\ [][Next]_vars

\* A process that can take its next step takes it; a pure server always goes
\* back to listen.  Nobody has to call read or write.
Fairness ==
    \A n \in Node :
        /\ WF_vars(ClientStep(n) \/ ServerStep(n))
        /\ n \notin Client => WF_vars(Serve(n))

FairSpec == Spec /\ Fairness

=============================================================================
