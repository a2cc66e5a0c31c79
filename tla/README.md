# Verification of the coherent distributed memory

The program lets processes (`Node`) share memory over RDMA. An address belongs
to the node that allocated it; other nodes cache what they read, and the home
node keeps, with every word, a small directory (`SaveData`: the word, a state,
an owner, the nodes that share it) from which it invalidates the copies when the
word is written. This directory holds TLA+ models of that program, the runs of
the model checker TLC over them, and proofs checked by TLAPS.

    tlc -workers 2 -config one_writer.cfg MCShared.tla
    tlapm CoherenceProofs.tla

## 1. The system

| Component | State | Operations | Works with |
|---|---|---|---|
| Coherence protocol (`src/src/api.cpp`, `Receive.cpp`, `Send.cpp`) | the `SaveData` behind each address; the operation a node runs; the list a broadcast still has to visit | `read`, `write`, `performRead`, `performWrite`, `handleRead`, `handleWrite`, `startInvalidations`, `broadcastInvalidations`, `handleInvalidation`, `prepareForInvalidate` | cache, lock table, sessions |
| Sessions (`connectClientSocket`, `connectAndReceive`, `receive`, `closeClientSocket`, `handleReset`) | one TCP connection and one queue pair at a time per role; the listening socket and its kernel queue | connect with retries, listen, accept one, serve until RESET | everything remote |
| Lock table (`setLock`, `sendLock`, `handleLocks`) | `Node::locks` of port 2000: one lock per home node | shared, exclusive, unlock; a refusal is final | `read`, `write` |
| Cache (`src/src/Cache.cpp`) | items, `availablesize` | `getCacheItem`, `addCacheItem`, `alterCacheItem`, `removeCacheItem`, `removeOldestItem` | protocol |
| Memory allocation (`Malloc`, `Free`, `handleAllocation`, `handleFree`) | the heap of each node | allocate, free, free with invalidation | hash table, protocol |
| Hash table (`src/app/HashTable.h`) | chains of elements, a counter | `insert`, `erase`, `get`, `operator[]`, `count`, `size`, `empty`, `clear` | `Malloc`, `Free`, `read`, `write` |
| `main` (`src/main.cpp`) | - | the server loop of port 3000; one client, port 2000 | all |
| Transport (`src/rdma/QueuePair.cpp`, `RcQueuePair.cpp`, `src/util/socket/tcp.cpp`) | the queue pair and the socket of a session, posted receives, registered buffers | exchange of addresses and regions, connect, post, poll, reset | sessions |
| Completion queues (`src/rdma/CompletionQueuePair.cpp`) | two queues, an event channel, the events to acknowledge | `waitForCompletion`, the polling operations, the destructor | transport |
| Verbs resources (`src/rdma/Network.*`, `MemoryRegion.h`, `libibverbscpp.h`) | the objects of the adapter and who owns them | construction, destruction, replacement of a connection | transport |
| Sockets and descriptors (`src/util/socket/Socket.*`, `src/src/Connection.*`) | the descriptor of each `Socket` | create, accept, move, close, destroy | sessions |
| Messages (`src/util/defs.*`) | the packed structures and their lengths | build, post, read back | everything remote |

A node is a single thread. It runs one operation or serves one session, and it
does neither while it does the other - with two exceptions, which make the
protocol hard: a home node that handles a write of a shared word becomes a
client of its sharers (`startInvalidations`), and a writer that is told of an
invalidation becomes a server for one session in the middle of its own write
(`prepareForInvalidate`).

What makes each component correct:

* protocol: a copy that the directory knows of is the word at home; with one
  writer per address, reads and writes are atomic and a returned write has left
  no old copy; every operation returns;
* sessions: client and server never disagree on who talks to whom;
* lock table: what is locked has a holder, a refusal has a reason, and a lock
  excludes whom it should (it does not always, see section 5);
* cache: never more than its size, never an old value after an invalidation;
* allocation: no copy that was read outlives the word it was read from, and the
  home node serves on;
* hash table: a map of stacks that neither loses nor shares memory;
* transport: a call is handled once and returns its own answer;
* completion queues: a thread that waits is woken, every event is acknowledged;
* verbs, sockets: every object has one owner and is destroyed once, in order;
* messages: a field is read as what it was written.

The hard behaviours are listed, each at its line, under `hazards` in
`PROJECT.json`.

## 2. The modules

| Module | What it is |
|---|---|
| `Coherence` | the protocol: sessions, one lock, caches, directory, invalidations; one action per step of a node that others can see |
| `CoherenceProperties` | its properties, the inductive invariants, the refinement mappings to `AtomicMemory` and to `FragileLock`, and `MainDeployment` |
| `AtomicMemory` | abstract: a linearizable memory with `Invoke`, `TakeEffect`, `Refuse`, `Finish` |
| `CoherenceProofs`, `SequenceFacts` | the proofs about it: lemmas on single steps; types, pairing, freshness; the single-writer guarantees; atomicity; room and lists of sharers; the lock; the deployment of `main.cpp`; and facts about sequences |
| `LockTable` | `Node::locks` for any number of locks and nodes |
| `FragileLock` | abstract: a reader-writer lock until two readers share it; both the table and the operations of `Coherence` implement it |
| `LockTableProofs` | its proofs |
| `Cache` | the cache of one node with sizes, colliding keys and the order of use |
| `ForgetfulMap` | abstract: a map that may forget but shows no overwritten value |
| `Allocation`, `AllocationProofs` | the lives of remote memory: allocation, directory, copies, free; its proofs |
| `HashTable` | the hash table over the local memory of its node |
| `LifoMap` | abstract: under every key a stack of values |
| `Containers`, `ContainerProofs` | the cache and the hash table side by side; the proofs about both |
| `Transport`, `TransportProofs` | a session between two nodes, message by message; its proofs |
| `RemoteCall` | abstract: calls handled once, that return their own answer |
| `Completion`, `CompletionProofs` | the completion queue pair and its threads; its proofs |
| `Exchange` | `tcp::write` and `tcp::read` at both ends of a stream |
| `Swap` | abstract: records exchanged in step |
| `Verbs` | the verbs objects, their owners and the order of destruction |
| `QueuePairSetup` | `connect` of the three kinds of queue pair, and what keeps packets from queue pairs that are not ready |
| `Messages` | the bytes of every call |
| `Descriptors` | `Socket` objects and descriptors |
| `Ownership` | abstract: what a program may do with descriptors |
| `MCMain`, `MCShared`, `MCContainers`, `MCLockTable`, `MCTransport`, `MCAllocation`, `MCCompletion` | instances for TLC |
| `MCConnection` | the five parts of a connection - `Descriptors`, `Exchange`, `Verbs`, `QueuePairSetup`, `Messages` - side by side for TLC |
| `ConnectionProofs` | the proofs about them |

The layers meet in abstract specifications. `Coherence` takes a session as
`RemoteCall` describes it, and `Transport` implements `RemoteCall`; it contains
one entry of `LockTable` and a coarser `Cache`. `Allocation` lets a lock
refuse or not, and takes calls as `RemoteCall` describes them and caches as
large, since what it is about is an address over several lives. `Transport` takes the exchange of a record as
`Swap`, queue pairs as connected in the manner of `QueuePairSetup`, and a
message as its immediate data and the call it belongs to, which `Messages`
breaks down to bytes.

### Coherence and the code

*Nodes.* `Home` is `defs::port` (3000), to which every remote access goes,
whatever the address says; so all addresses of the model belong to `Home`.
`LockNode` is `defs::locknode` (2000). `Client` are the nodes whose program
calls `read` and `write`, `Server` those whose program calls
`connectAndReceive` in a loop; a node may be both, one at a time, as its program
chooses.

*Control.* `stage[n]` is where the thread of `n` is inside `read`/`write`:
`lock` and `unlock` in `setLock`; `denied` closing the connection after a refusal; `access` in
`performRead`/`performWrite` (or in the local branch of `write`); `recall` in
the nested `connectAndReceive` of `prepareForInvalidate`; `reconnect` from the
connection after it to its close; `bcast` in the broadcast of
`startInvalidations`; `wbcast` in the broadcast of a local write. `rpc[n]` is
its client connection: `connect` (in the loop of `connectClientSocket`),
`backlog` (queued by the peer's kernel), `open`, `sent` (request written, answer
awaited), `answered` (answer in the buffer), `closing` (RESET written, its
answer awaited), `closed`. `serve[m]` and `peer[m]` are `connectAndReceive`.
`msg[n]` is the message last written on the connection of `n`.

*One call, two or three actions.* `sendAddress`, `sendData` and `sendLock` each
write a request, block, and return an answer: an action `Call...` of the
client, an action `Handle...` of the server that is the whole handler including
its answer, and an action of the client that takes the answer and does all the
code does before the next message. Between them everybody else runs. The
broadcast is the same with the home node as client.

*Failure.* A thrown exception or a null dereference ends the process
(`Die`; nobody catches), with its cache. `Cache::addCacheItem` may loop for
ever (`status = "spin"`). A dead process refuses connections, and whoever is in
a session with it waits for ever, as the code does. `GiveUp` is the `throw` of
`connectClientSocket`. With `Patient` it happens only when the peer will not
come back to listen; without, whenever the peer does not listen at this moment.
Nothing is persisted, so there is no restart.

*What is abstracted.* Words are model values. An item has size one. Node ids
index functions. Freshly allocated memory may hold any of `FreshStates` in
`iscached` ("WILD" stands for a value that is no enumerator), but its vector of
sharers is taken to be empty: an arbitrary vector is undefined behaviour before
the protocol starts (`HashTable` does consider it). `ownerNode` is kept although
no code reads it, because a property speaks of it. Which item is evicted is left
open, which covers the order the code uses. A session is reliable.

### HashTable and the code

`storage[b]` is the chain of a bucket, its head first. `memory` is the
`SaveData` that `Malloc` returned for each element, as the operations of
`api.cpp` treat an address that is local to the caller: `Malloc` leaves what the
heap held (any value, plausible or not, with a garbage vector of sharers or
not), `write` overwrites it if it is granted the lock and walks the vector if
it is there, `read` returns the word, zero or dereferences null, `Free` walks
the vector and releases. Undefined behaviour ends the process (`ended`).
`Contended` says whether other nodes compete for the lock. `hashBucket` is a
parameter: two of the three keys collide.

### Cache and the code

`items[k]` is the item under key `k` of the `std::map`, `recent` the order of the
times in `lastused`, which are taken to be distinct. `keyOf` is
`GlobalAddressHash`, a parameter, because an exclusive or of size, pointer and
node may collide; `size` gives an address its size. A read is `getCacheItem` (a
hit) or `Fetch` (a miss, then `addCacheItem` of what the home node answered); a
write is `alterCacheItem`; an invalidation is `removeCacheItem`. `Evict(n)` is
what `removeOldestItem` does when it is called `n` times, and `addCacheItem`
picks the `n` at which its loop stops, or none. `lost` counts the room that
`removeCacheItem` does not give back and the difference in size when an item
replaces another of its key; it and `out`, which records what the last call did,
exist only for the properties. `Coherence` uses a coarser version of the same
cache: items of one size, no collisions, any item evicted.

### LockTable and the code

`locks` is the map of `Node::locks`; "absent" is an id `setLock` has not yet
entered. `phase[n]` is how far a `read` or `write` of `n` has come: `ask` and
`release` before its two calls of `setLock`, `asked` and `released` while
`sendLock` has a request under way, `granted`, `denied`, `freed` with the answer
still to be returned, `hold` during the access. `Grant`, `Deny`, `Unlock` are
`setLock`, for the lock node itself at once and for the others in `handleLocks`.
`GiveUp` is the exception of `connectClientSocket`; the lock of a process that
ends so stays. `shared` is a history variable: the locks that two nodes have
held at one time since they were last free.

### Allocation and the code

*Lives and copies.* An address is `live` between `handleAllocation` and the end
of `handleFree`. `ver[a]` counts writes and the beginnings and ends of lives, so
that a copy is old exactly if its number is not the current one.
`copy[n][a].by` tells how a copy came into the cache, by reading or by writing.
`Malloc` leaves in the directory entry what the heap held: `iscached` as the
allocator clobbers it, and the vector empty or that of an earlier life.

*Clients.* A client is one thread, and `waits[n]` says what it is doing:
nothing (`no`), `connectAndReceive` (`listen`), or an operation `call[n]` of its
own, from `Begin` on. In the operation it is first in `setLock`, in the retry
loop of `connectClientSocket` or queued by Home's kernel (`call`), then its
request is with Home (`answer`, `write` if it was called back), and at last it
waits for the answer to its RESET (`close`) and unlocks (`done`). A called-back
writer connects once more (`back`). Only a client in `listen` or `write` hears an
invalidation; one that has begun an operation of its own meanwhile, or does
nothing, is `Unheard`, and then Home ends in the middle of its list. Both serve a
single session, which for the node with the lock table may be somebody's
`setLock` (`LockAsked`). A client may be refused the lock (`Refused`) and may
give up connecting, or be dropped with the queue it was in (`Fail`), at any
time.

*Home* is idle, in a session whose RESET has still to come (`reset`), or in the
broadcast of a write or of a free, during which it serves nobody; each sharer is
a step of its own. `leaked` counts the buffers of `receive`, one for each
request and one for each RESET; heap objects are small next to them, so only
they use up the memory.

*Politeness* is chosen once. Polite programs take turns (`Turn`: an operation
begins when those of the others are over but for their unlock) and are careful
(`Careful`): they read what was written before, they write what nobody shares or
what they share themselves, they free what they do not share, and the other
sharers listen at that time and are listed once. With that goes what the
programs alone cannot promise: nobody fails while Home is up, retries and the
wait of a called-back writer outlast each other, and no lock request takes a
client's session. Without politeness none of this is assumed, and Home may
end in any broadcast. Locks are not modelled: an operation under way
may make another one be refused, or not.

### Transport and the code

`Caller` and `Home` have one connection at a time. `pc[n]` follows
`connectClientSocket`, `sendAddress`, `sendData`, `sendLock` on the client's side
and `connectAndReceive`, `receive` and its handlers on the server's: the address
of the queue pair is written and read (`address`), the queue pair connected
(`ready`), the region announced and the peer's read (`exchange`), the write
posted (`request`), its completion polled (`sent`), a receive posted
(`receive`) and its completion polled (`wait`). `own[n]` is a stack because a
called-back writer serves a session while its own call is open. `posted`,
`sendCQ` and `recvCQ` belong to the node, not to the connection, as the shared
receive queue and the completion queues do. `Deliver` is the adapter: with a
receive posted the write lands; without one it fails at once, because the queue
pairs retry zero times, or arrives after the receive is posted, which is what a
slower network does.

### Completion and the code

`cq`, `armed` and `channel` are the two completion queues and their event
channel. A thread of `waitForCompletion` goes through `asleep` (`getEvent`),
`woken`, `growing` and `grown` (`push_back` to `eventsToAck`, without the lock
that is declared for it), `polling`. The polling operations take one completion
and leave its event in the channel. `users` is the set of threads that use the
pair, chosen once: what holds for one thread only says so. Two threads that
append at once lose an entry or free the array twice, which ends the process.

### The parts of a connection and the code

*Exchange.* A turn of `Write` or `Read` is a turn of the loop around `send` or
`recv`, which moves any number of bytes up to what is left and what the kernel
holds. A record is written from the variable that the answer is then read into.

*Verbs.* `Construction` is the order of the initialisers in the constructor of
`Network`, `Destruction` the reverse of the declarations. Every creation may
throw, after which what exists is destroyed (`Unwind`). A program then opens
scopes - connection, buffer, region - in any order, moves a new connection over
an old one, takes events, and leaves the scopes in reverse. The library refuses
to destroy what something else was created from, and the wrapper logs that and
goes on. `main` catches nothing, so unwinding is what a program gets that does.

*QueuePairSetup.* An end goes through the steps of its program (`Steps`, `After`):
it writes its address and reads the peer's, calls `modify` for each state, and
then, call by call, announces a buffer, hears of the peer's, posts and polls, the
server in the opposite order; `pc` is the step, `calls` the calls behind it.
`modify` takes the attributes that are set and named, and refuses a step whose
mandatory attributes are not named. `flight` holds packets; `Deliver` drops one
for a queue pair that cannot receive.

*Messages.* A byte is a pair of the value it belongs to and its place. The
layouts of the packed structures are sequences of such bytes; `RequestLength`,
`AnswerLength` and the others are the lengths the code posts, `View` and
`Used` what the other end reads.  `CreateWriteWithImm` returns a work request
that points into itself, which is right because the compiler builds it in the
caller's place.

*Descriptors.* `s[o]` is what a `Socket` holds, `None` is -1, `Dead` a place
without an object. The kernel gives closed numbers out again, to sockets or to
the rest of the process (`OthersOpen`).

## 3. The runs

| Run | Question | Instance |
|---|---|---|
| `main_deployment` | does the deployment of `main.cpp` work: nobody fails, no sharer is listed twice, every operation returns | server + client that is the lock node, 2 addresses, caches that do not overflow |
| `one_writer` | is a word with one writer an atomic memory, with failures; are types, sessions and the directory as the proofs need them | 4 nodes, 2 clients that also serve, impatient retries |
| `home_writes` | the same when the home node, which broadcasts before it stores, and the lock node, whose nested server is also the lock server, write, with evictions | 2 nodes, each writes one of 2 addresses, cache of 1 item, implausible memory allowed |
| `lock_table` | who may hold what; is a refusal justified; which lock is the table | 3 nodes, 2 locks, one used by writers only |
| `containers` | is the room of a cache conserved, when does an insertion hang, is an old value ever found; do the table's chains, memory and counter stay in step, is it a map of stacks | sizes 1, 2, 2, 5 in a cache of 4, two addresses with one key; a table of 3 keys, 2 buckets, 3 addresses, contended locks |
| `evicts_oldest` | does `removeOldestItem` remove the oldest | expected violation |
| `allocation` | do copies outlive what they were read from, whatever the clients do at the same time | 3 clients, one of which never serves and one of which has the lock table, 1 address, memory for 12 buffers |
| `polite_programs` | what ends the home node if programs avoid what does; do calls return until then | the same, with programs that take turns and sharers that listen |
| `insert_again` | is `insert` non-overwriting, as its comment says | expected violation |
| `transport` | are calls handled once, answered, and always answered | 3 sessions of a call, a two-phase write, or the fallback of `Malloc` |
| `completion` | is a wake-up lost; are events acknowledged; does the destructor return | 1 or 2 threads, 2 queues of 2, 4 completions |
| `connection` | the five parts of a connection, each with its own properties | 3 sockets and descriptors; 3 records of 4 bytes; 4 scopes; 2 calls and a RESET on 3 kinds of queue pair and 2 fabrics; every call for objects of 0, 8, 492 and 493 bytes |

`one_writer` is the core: the new value is stored before the old copies are gone,
and the lock does not keep readers out (section 5), so readers see old and new
values in the same window. The run shows that it is atomic nevertheless: while an
old copy is left only the writer could see the new word, for the home node
answers nobody before the broadcast is over. The refinement mapping says so:
`MemoryValue` is the old value as long as a stale copy exists, and the write
takes effect when the last one goes - also when that is because the holder's
process ends, and also when the home node ends in the middle, in which case the
write never happens for anybody who can look.

With several writers this fails in the code: `performWrite` forgets an
exclusive owner that is not in the list of sharers (`api.cpp:172`), whose copy
nobody will invalidate. No document claims otherwise, so there is no finding;
`DirectoryFresh` and, over several lives of an address, `CopiesTracked` are what
the code does guarantee then: whoever *read* a copy is tracked, whoever wrote
one may not be. The theorems on atomicity have `SingleWriter(a)` as an explicit
condition.

`connection` puts five modules side by side that share no variable: a behaviour
picks one part and the others stay as they are, since nothing is to be
learnt from interleaving them; `containers` does the same with the cache and the
hash table. Each part keeps its own state, actions,
properties and fairness. Where parts do interact - a session uses sockets,
regions, queue pairs and messages - `Transport` and `Coherence` have that
interaction.

*The findings.* `insert` of a present key shadows the old value
(`HashTable.h:86-93`) although its comment says "insert value to HT if not
exists" and "used for non-overwriting inserts". And `removeOldestItem` keeps the
greatest `lastused` it meets and erases that item (`Cache.cpp:42`): in the run
`evicts_oldest` two items are in the cache, and a miss throws out the one used
last while the one used first stays.

*Bounds.* `CacheReserve` (an operation starts only while the cache has that
much room; 0 except in `main_deployment`, since filling the cache is what
`home_writes` and `containers` are about), `MaxSharers` (no remote read starts on a
longer list), `Gaddr` (live elements of the table), `MaxCount` (no call on a
cache once its counters exceed it: lost room is not bounded by the code),
`Memory` (buffers until the home node ends; 12 are six sessions, enough to
allocate, write, read, write again with a call back and free, or for a second life
of the address and a read in it), `MaxSessions` (3: the second and the
third find what the first left in the shared queues), `Arrivals` (4 completions,
twice a queue's size), `MaxScopes` (4: connection, buffer, region and the
connection that replaces the first), `MaxEvents` (2), `Rounds` (3: the queue
pairs' addresses and two regions), `Capacity` (a record: with less, both ends would wait for each other for ever). Two values
suffice to tell old from new; one address except where the cache must choose; two
sharing clients and the home give every role a partner: writer, sharer,
bystander that holds the lock. Object sizes are 0, a word, and the two sides of
what fits inline.

The runs of `MCShared` identify states that differ by a renaming of the values
(`SYMMETRY Words`), `containers` those that differ by a renaming of the table's
addresses:
the models copy and compare these and do nothing else with them. These runs check
no liveness. `CHECK_DEADLOCK FALSE` stands where processes may end, where a client may
stop calling, and where a part of the program comes to its end.

*Fairness.*

* `Coherence!FairSpec` (`main_deployment`): weak fairness of what a running
  thread does next, which is what the scheduler gives a thread that is not
  blocked, and of `Serve` for a node whose main loop is nothing but
  `connectAndReceive` (`main.cpp:17-19`). Starting an operation is not fair.
  Liveness needs `Patient`: that 240 ms of retries outlast the session the
  server is in, which the code hopes for.
* `Transport!FairSpec`: both processes go on and the network delivers. That a
  receive is posted in time is not assumed: `TooLate` says that one was not, and
  what must eventually happen is promised until then.
* `Allocation!Fairness` (`polite_programs`): Home goes on, and so does a client
  in an operation, as its thread is not blocked. No program has to begin an
  operation or to listen. `CallsReturn` is about polite programs, and its other way
  out is the end of Home; that a called-back writer's connection gets through
  is part of politeness, not of fairness.
* `Completion!FairSpec`: a thread that waits goes on and comes back to wait; the
  destructor goes on. When it is called is not fair.
* `MCConnection!PartSpec`: the peers of an exchange run unless they end;
  destructors are not interrupted; both processes of a call and the adapter go
  on; both ends of a queue pair go on and a packet that is not dropped arrives.

## 4. What is proved

TLAPS checks the following for all values of the constants that satisfy the named
assumptions of each module.

### Coherence

`NodesAssumption` and `DataAssumption` (who the nodes are and which of them serve
and write; that the values and the markers differ). In particular: any number of nodes, addresses and
values, any size of the cache, any deployment of clients and servers, with
failures.

* `TypesCorrect`: `Spec => []TypeOK`.
* `SessionsStayPaired`: `Spec => []SessionsPaired`.
* `DirectoryStaysFresh`: `Spec => []DirectoryFresh`, with any number of writers.

They rest on the inductive invariant `FreshInv`. `DirectoryFresh` alone is not
inductive. A reader gets its copy two steps after the directory lists it, so one
needs to know what an answered read carries (`AnswersFresh`); that depends on
nobody handling a write in between, which depends on who is in a session with
whom (`SessionsPaired`), on what messages mean in each stage (`MessagesFit`,
`StagesFit`), and on the writer's own copy (`CopiesFit`). The proof goes action
by action for each of these conjuncts. `ServedClient` is the central lemma: from
the pairing it derives, for every request a server receives, who sent it, in
which stage, and that no broadcast is running.

* `CoherenceInvariant`: `Spec => []CoherenceInv`;
* `SingleWriterStaysCoherent`: `Spec => []SingleWriterCoherence`;
* `WritesReturnVisible`: `Spec => []WriteVisibleWhenReturned`.

The single-writer guarantees need a second invariant, `CoherenceInv`. Freshness
speaks only of the copies the directory knows of; what is missing is that it
knows of all of them. `CopiesListed` says so: whoever has a copy is a writer, is
listed, or is among the targets of the broadcast that is going on. Its proof has
three parts: Home forgets a listed sharer only by moving it into `targets`
(`KnownStaysKnown`, which needs `SharersMarked`: a non-empty list is never
taken for unshared); Home drops a target only after its answer, when the copy
is gone (`BroadcastFits`); and a cache grows only at a reader that Home has just
listed or at a writer. `HomeIsLocal` keeps the home node out of the argument:
it never calls itself and never caches. `WriterFresh` uses the
condition: when all writers of an address are one node, every write is its own,
and its copy is what it wrote. `WritesApplied` says that the word at home is the
writer's once its write was answered, and, when the last answer has come, that
no broadcast of the address is left; with `SingleWriterCoherence` this
gives `WriteVisibleWhenReturned`.

* `AtomicityInvariant`: `Spec => []AtomicityInv`;
* `ReadsAndWritesAreAtomic`: if every address has a single writer,
  `Spec => ImplementsAtomicMemory`.

That the protocol is an atomic memory is a refinement, step by step. The
mapping gives the memory the old value of an address while an old copy is left,
so a write takes effect where the last one goes: at `HandleWrite` when there is
none, else at the `HandleInvalidation` that removes it or at a step that ends its
holder's process (a connection given up, or one that the listener drops). A write
of the home node itself takes effect where it is stored, after its broadcast. A
read takes effect where it gets its value: at `HandleRead`, `LocalRead` or
`CachedRead`.
`AtomicityInv` is what these steps need beyond `CoherenceInv`: the old copies of
an address are equally old (`OldCopiesAgree`: otherwise the memory would not
have one value while a broadcast lasts, and a reader that still hits in its
cache would go back in time); while there is an old copy the write it stands for
is not yet in effect (`OldCopiesAwaitWriter`); a read has a value from its
answer on and none before (`ReadsAnswered`); and the item of a hit is there when
it is copied (`ReadsHit`). The run `one_writer` checks the invariant, and the
refinement for the same deployment. Without the single writer the statement
is false (section 3).

* `RoomAndLists`: if `CacheReserve # 0`, `Spec => [](RoomInv /\ ListInv)`;
* `NobodyListedTwice`: if `CacheReserve # 0`, `Spec => []SharersDistinct`.

That nobody is listed twice needs room: an answered read whose item is dropped
by a full cache leaves the reader listed without a copy, and its next read lists
it again. `CacheReserve # 0` says that an operation starts only if what it adds
still fits. `RoomInv` carries that from the start of an operation to the one
point where it adds its item (`RoomKept`; nothing else of the same node comes in
between), so nothing is ever evicted (`NothingEvicted`). `ListInv` gives the
reason for which a running node is listed: it has the copy, it is about to store
an answer, or Home has a write in hand that will clear the list. A reader that
asks Home has none of these, so it is new. Any number of nodes, any deployment,
and connections that fail are allowed: a process that has ended is in no session
any more (`EndedQuietly`), so it is not listed again.

* `MainNeverFails`: if `MainDeployment`, `Spec => []NobodyFails`.

`MainDeployment` is what `main.cpp` sets up: the server and one client, which
holds the lock table. Its other conjuncts are what `main.cpp` cannot promise by
itself and the theorem needs: room in the cache (without it an insertion does not
return), memory that malloc does not return with an implausible `iscached` (a
read would dereference nullptr), and retries of `connectClientSocket` that last
longer than a server's turn or the wait of a writer called back. A process can
end or spin when any one of them is missing, or when a second client makes
`Accept` drop a queued connection. The run `main_deployment` has
an `ASSUME` of `MainDeployment`, so TLC confirms that the hypothesis holds of it.
`DeployInv` is the inductive invariant: the client locks without a connection,
Home is idle or broadcasts and is never listed itself, so it calls back at most
one node, and that one is waiting for the call or is about to (`Recalls`).

* `OperationsHoldTheLock`: `Spec => LocksAsPromised`, for any deployment.

The abstract lock of the lock table, `FragileLock`, is also what the
operations of the protocol implement. A node holds the lock from the step of the
lock node that grants it to the one that takes its unlock (`LockHeld`), through
the answer, the closing of that connection, the access, a call back and the
connection after it. The proof first shows that a request for the lock on its way
is what the operation needs (`LockAsked`) and that the lock node calls nobody for
it (`LockIsLocal`), then that no other step changes who holds the lock
(`HoldersStay`). A grant is then an acquisition (`LockTaken`), an unlock a
release (`LockFreed`), and all else is a stutter. A process that ends with the
lock keeps it, as in the code. No run lists `LocksAsPromised`; TLC checks the same
promise of the table alone, with many locks, in the run `lock_table`.

The proofs expand no recursive operator; facts about lists of sharers are the
lemmas of `SequenceFacts`.

### Lock table

For any nodes, locks and programs (`LockTableProofs`), by the inductive invariant
`LockInv`, which the theorem `LockInvariant` states: a lock that is taken has a
holder in the mode the table shows; a lock that was never held by two since it
was free shows its one holder; a lock that two have held since then still has a
holder; and a lock that no reader uses never becomes shared. It does not say that
what is handed out is compatible, which is false once two readers have shared a
lock (section 5).

* `TableIsFragileLock`: `Spec => ImplementsFragileLock`, initial states and
  steps: the table is a reader-writer lock until two readers share it, and is
  one again once all have released it.
* `RefusalsJustified`: `Spec => DenialJustified`.
* `WritersAlwaysExclude`: a lock that no reader uses has one holder.

### Allocation

For any clients, addresses and size of the memory (`AllocationProofs`):

* `ReadCopiesAreTracked`: `Spec => []CopiesTracked`, by `TrackInv`, which adds
  that nobody is left to be told when `Home` serves: that is why the vector a
  broadcast works on is not the one new readers enter. Since operations begin
  and clients fail at any time, it also needs that lifetimes are respected from the
  beginning of an operation to its end (`LifeInv`): what a queued read or write
  will use stays allocated, because nobody begins to free what another client is
  using, or to use what another client is freeing.
* `StaleMeansWritten`: what a cache holds out of date its own node has written.
* `PoliteProgramsAreServed`: `Spec => []DiesOnlyOfLeaks`. `Careful` holds when an
  operation begins, Home needs it when the request arrives, and what is said
  of a broadcast must hold until its end. `PoliteInv` carries it there: one
  operation at a time (`OneBusy`), and Home busy with that one or idle
  (`HomeServes`), so nobody changes the directory or stops listening in between
  and a caller is as careful when it is served as when it began
  (`CallsAreCareful`); and those left in a broadcast listen, or are the writer
  that waits to be called back, and are different (`AllCanBeTold`).

### Completion queues

For any threads and queues (`CompletionProofs`), by `WakeInv`:

* `EventsAreUnique`: `Spec => []OneEventPerQueue`;
* `NoWakeUpIsLost`: `Spec => []NothingUnannounced`. Alone it is not inductive:
  that a thread polls after it has armed the queue is of use only because no other
  thread arms it meanwhile, which is the first theorem;
* `EveryEventIsRemembered`: `Spec => []EventsRemembered`, by `AckInv`. What the
  property says of a thread that is alone needs what holds of all of them:
  nothing is noted that was not taken, also by a thread that has read the old
  vector and has not stored the new one (`NotedAreTaken`), and only users move.
  It assumes that there are finitely many threads.

### Transport

For any number of sessions and any programs (`TransportProofs`) in which nothing
is called after a RESET; the client's code closes the connection there.

* `SessionInvariant`: `Spec => []SessionInv`;
* `TransportInvariant`: `Spec => []TransportInv`: a session begins with empty
  queues, and a write under way meets a connected queue pair and a registered
  region;
* `FailuresAreClean`: `Spec => []FailureIsClean`;
* `EveryCallIsAnsweredOnce`: `Spec => Call!CallSpec`, initial states and steps of
  the refinement of `RemoteCall`.

`TransportInv` speaks of the queues at the beginning of a session and says
nothing of the middle, where they fill. `SessionInv` says for every place of
one end where the other can be (`Fits`, `SocketFits`), and from both places what
is in each queue, in each socket, in flight and in each region. Since the two
ends wait for each other, there is at most one write under way and one completion
in a queue; that is why what a session leaves behind is nothing, although the
queues belong to the node and outlive it. The proof has a lemma for each action
(`XKeeps`): what the action does to its node and to the peer, where both are
before and after, and then each part of the invariant for both. The stack of
regions is the part that a call back makes hard: `Kept` and `Active` say which
call each entry belongs to.

### Cache

For any addresses, sizes, hash and room (`ContainerProofs`), under
`CacheAssumption`, so also for keys that collide:

* `CacheInvariant`: `Spec => []RoomInv`;
* `RoomIsConserved`: `Spec => []RoomAccounted`;
* `OnlyDrainedCachesHang`: `Spec => []HangsOnlyWhenDrained`;
* `CacheIsForgetfulMap`: `Spec => ImplementsForgetfulMap`, initial states and steps.

`RoomInv` says that the list of uses names each item exactly once and that the
room in use, free and lost is what the constructor was given. Its steps need
what a sum over the items does when an item comes, changes its size or goes, and
when a whole tail of the list is evicted. `SumFunctionOnSet` of the community
modules is recursive; the lemmas `SumTake`, `SumSplit`, `SumSame` and `SumNat`
about it are proved by induction on the size of the set, as the absence of a
least counterexample (`SizeInduction`), which needs no induction theorem that
takes an operator.

### Hash table

For any keys, buckets, hash and memory, with refused locks (`ContainerProofs`),
under `TableAssumption`:

* `ElementsKeepTheirMemory`: `Table!Spec => []ElementsOwnMemory`, by
  `TableInv`: no two places of the chains name the same address (`Owned`), an
  address holds something exactly if a place names it (`Covered`), and the
  counter is the number of places (`Counted`), without which it would not be
  known to be positive when `erase` decrements it;
* `TableIsLifoMap`: `Table!Spec => ImplementsLifoMap`. A stack of `LifoMap` is a
  set of cells, the addresses of one key's elements, and which of them is above
  which, their order in the chain. Neither changes when an insert or an erase
  shifts the places of a bucket (`PrependShifts`, `UnlinkShifts`):
  `StacksPushed` and `StacksPopped` say that one cell comes to lie above the
  others of its key, or the one a lookup finds goes, and that other keys of
  the bucket, and the order of their elements, stay. Unique addresses (`Owned`)
  are what makes an address a cell.

### Connection

Of the parts of a connection (`ConnectionProofs`), each for itself.

*Descriptors*, for any objects and descriptors, by the invariant of types,
unique owners and `Accounted`:

* `EveryDescriptorHasOneOwner`: `Spec => [](TypeOK /\ OneOwner /\ Accounted)`;
* `SocketsImplementOwnership`: `Spec => ImplementsOwnership`. That a `Close`
  frees an owned descriptor, and not one of somebody else's, is the invariant.

*Verbs objects*, any number of them and of nested scopes:

* `VerbsObjectsAreHeld`: `Objects!Spec => []ObjectsHeld`, by `HoldInv`. That
  nothing is destroyed under what was created from it needs what everything was
  created from: a member from earlier members (`MemberFits`), a connection from
  members, a region from a member and a buffer of an enclosing scope
  (`ScopeFits`). The destructors run in the opposite
  order, so the one whose turn it is has no users left. The one step that breaks
  the order is `prepareForInvalidate`'s move of an inner connection to an
  outer one: a queue pair comes to stand below scopes that are older, which is
  harmless only because nothing is created from a queue pair.

*The stream*, for any number and length of records and any space in the kernel:

* `RecordsArriveWhole`: `Stream!Spec => ImplementsSwap`, by `StreamInv`. Nothing
  on the wire says where a record begins. `InStep` says from the places of both
  peers how many bytes are on the way: a peer is in the other's record, or one
  behind with all of it and a part of the next on the way, or one ahead, with
  nothing left to read. `InOrder` says that these bytes are the ones
  that are read next. A peer that has ended keeps what it has sent readable, and
  nothing is promised of what it would have sent.

*Two queue pairs*, for any number of calls (`CallsMade`), on any set of kinds and
networks and with ports that may refuse the MTU, by `SetupInv`:

* `QueuePairsLeadToEachOther`: `Pairs!Spec => []ConnectedAsMeant`;
* `NoPacketIsLost`: `Pairs!Spec => []NothingIsLost`.

Nothing in `modify` or in the adapter makes one end wait for the other; only the
socket does. `SetupInv` therefore counts at both ends, from the step and the calls
alone, what was told and heard over the socket and what was posted, polled and
taken (`Told`, `Heard`, `Posted`, `Polled`, `Taken`). What one end has told
is what the other has heard or has in its socket (`HeardFits`); what one has posted
the other has taken, but for one packet or one completion (`ArrivedFits`); the
attributes follow from the step (`PairFits`). Whoever posts has heard an
announcement, which is made only after RTS; and an end that closes has polled its
last write, so that the reset finds nothing on the way (`NobodyTooEarly`).

*The bytes of the calls*, for objects of any size (`ObjectSizes` and `BufferSize`
are any numbers, as long as what may be sent inline fits the server's buffer):

* `FieldsArriveAsMeant`: `Calls!Spec => []FieldsArrive`;
* `OnlyLargeObjectsThrow`: `Calls!Spec => []ThrowsOnlyWhenLarge`.

Both follow from `MessageInv`, which says for each stage of a call - `Resting`,
`Asking`, `Answering` - which bytes are on the wire and in both buffers. An answer
announces a call back exactly if another answer follows it, and the client
stops at the first that announces none: so it reads its buffer after the last
one. The other half is about the declarations: each layout's length and fields
(`OneField`, `TwoLayouts`, `AddressLayout`, `OtherLayouts`), that a field is read as
its value when all its bytes carry that value (`Understood`), and that the entry a
client lays over the answer to a read begins with the word, which is all the
answer has (`EntryLayout`). A `GlobalAddress` is the beginning of a
`SendGlobalAddr`, so the answer to an allocation lacks only the field
that nobody uses.

*The parts together* (`PartSpec`, what the run checks):

* `EveryPartIsItself`: a behaviour of `PartSpec` is one of `Descriptors`, `Exchange`,
  `Verbs`, `QueuePairSetup` and `Messages`, because every step of it is one of
  one part and leaves the variables of the others alone;
* `PartsKeepTheirTypes`: `PartSpec => []PartsTypeOK`. The bounds in these types are
  consequences: that little is ever waiting (`LittleIsWaiting`, `RoomIsThere`) follows from the
  counts of `SetupInv` and from the stages of a call;
* `PartsKeepTheirPromises`: all the safety properties and both refinements of the
  run, for every value of the constants.

### Only model-checked

* All liveness (`OperationsReturn`, `HomeListensAgain`, `CallsReturn`,
  `DestructorReturns`, `EveryCompletionIsPolled`, `EveryPartEnds`), which is out of
  the prover's reach.
* The fairness of `RemoteCall`: the refinement is proved without it.

Every safety property of a passing run is stated by a theorem.

## 5. What the models show about the code, beyond the properties

* The lock does not exclude readers from writers: a shared lock counts no
  readers, so the first reader's unlock frees it (`api.cpp:116-126`), and a
  late reader's unlock frees a writer's lock. `FragileLock` says how much is
  left. Atomicity with one writer does not depend on the lock.
* A process that ends in an access keeps its lock for ever (`api.cpp:164`), and
  every later operation on that home node is refused.
* A called-back writer that is not among the sharers waits for ever; so does one
  whose session went to a request for the lock, when it has the lock table.
* The room of an invalidated item is lost (`Cache.cpp:32-36`); after
  enough of them an insertion never returns. `HangsOnlyWhenDrained` says
  that nothing else makes it hang.
* An insertion that had to make room is dropped: the cache then has neither the
  evicted items nor the new one. The home node lists the reader all the same, and
  lists it again when it reads again (`Receive.cpp:128`); it then calls it twice,
  and ends if the reader has listened only once.
* Addresses with equal hashes share one item; a read of one may return the
  word of the other.
* `operator[]` returns a reference to a local variable (`HashTable.h:164`): what
  the caller does with it is undefined, and nothing a caller writes through it
  reaches the element.
* Each request costs the home node a buffer of 16 MB (`Receive.cpp:12`).
* A client that reads a word before anybody wrote it may end the home node, when
  `iscached` happens to be no enumerator; so does one that frees a word it has
  read itself.
* A sharer that does not listen ends the home node at the next write or free of
  what it shares: a program that never serves, one that has ended, and one that
  listens in general but has just begun an operation of its own, since `Free`
  and the way to a lock on another node take no lock that keeps the broadcast
  away (`Send.cpp:16-24`). Programs avoid it only by agreeing on turns, which
  is what `polite` stands for.
* A freed address may still be in the cache of a node that wrote it.
* The fallback of `Malloc` is for objects too large for `malloc`, but posts as
  many bytes as the object has, inline: for more than 492 of them it throws. And
  it closes its session without RESET, so that the server's `tcp::read` spins at
  the end of the stream.
* Requests and answers may arrive before the receive they need is posted
  (`Receive.cpp:21`, `Send.cpp:54`); then one end throws. `FailureIsClean` says
  what is left: a call that is not handled, or one that is handled and never
  returns.
* Two threads in `waitForCompletion` race on `eventsToAck`: a lost entry makes
  the destructor of the queue wait for ever. Polling leaves events behind, after
  which a wait returns without a completion.
* `UcQueuePair::connect` never gives its path a global routing header, although
  `UcQueuePair.h:16` calls it "Similar to RcQueuePair::connect()"; on a network
  routed by GIDs its packets are not delivered. `LeadToEachOther` therefore
  speaks of what the path of a kind can name.
* `Slice` cuts the length of a region to 32 bits (`libibverbscpp.h:2555`).

## 6. Plan

Done: everything in section 2. Left, in this order:

1. The message loop of `Coherence` refined by `Transport` itself, in one module
   with one home node.

## 7. Not modelled

* The fixed sequence of calls of `main`'s client and its output: the models call
  the operations in every order.
* What `libibverbscpp` wraps and the program never calls (XRC, memory windows,
  extended completion queues, flow steering), and the queries of `Network` that
  only print.
* The domain sockets' own calls (a socket passed through one is an object of
  `Descriptors`), and the ring buffers `RDMANetworking` was made for: nothing
  uses them.
* `bind`, `listen`, `setBlocking`: one call of the kernel each.
* Several home nodes: every remote access of the code goes to port 3000, whatever
  the address says.
* Crash recovery: nothing is persisted, and a process that ends is not restarted
  by anything.
* Logging.
