------------------------------ MODULE Allocation ------------------------------
(***************************************************************************)
(* The memory of the home node over several lives of an address: Malloc    *)
(* and Free of its clients, handleAllocation and handleFree, and the       *)
(* reads and writes between them with the directory entry and the copies   *)
(* that they leave behind.  Calls are remote calls (see RemoteCall),       *)
(* caches have room (see Cache).  The lock of a read or a write excludes   *)
(* nobody for sure (see LockTable): an operation under way may make        *)
(* another one be refused, or not.                                         *)
(*                                                                         *)
(* A client is one thread: it is in an operation of its own, or listens in *)
(* connectAndReceive until a session has come, or does neither.  Home      *)
(* serves one session at a time, and while it broadcasts it connects to    *)
(* the sharers one after the other and serves nobody.  It never gives back *)
(* the buffer it allocates for a request, and ends when it has no memory   *)
(* for another.                                                            *)
(***************************************************************************)
EXTENDS Naturals, Sequences, Functions

CONSTANTS
    Client,
    Addr,      \* the addresses malloc of the home node returns
    NoAddr,    \* no address
    Hearing,   \* the clients whose programs call connectAndReceive
    LockNode,  \* the client that holds the lock table, if one of them does
    Memory     \* how many receive buffers the home node's memory holds

ASSUME AllocationAssumption ==
    Hearing \subseteq Client /\ NoAddr \notin Addr /\ Memory \in Nat

VARIABLES
    polite,    \* from beginning to end, programs avoid what ends the home node
               \* and retries outlast what they wait for
    live,      \* the addresses allocated and not freed
    ver,       \* ver[a]: counts the writes of a and the beginnings and ends of
               \* its lives
    dir,       \* dir[a]: iscached and sharerNodes of the word at a
    copy,      \* copy[n][a]: n's cache item for a, and how it came there
    call,      \* call[n]: the operation that n's program is in
    waits,     \* waits[n]: what n is doing about it
    job,       \* what Home is doing
    at,        \* what it broadcasts about,
    left,      \* and who has still to be told
    leaked     \* the receive buffers Home has allocated

memoryVars == <<live, ver, dir>>
clientVars == <<call, waits>>
homeVars == <<job, at, left>>
vars == <<polite, memoryVars, copy, clientVars, homeVars, leaked>>

State == {"UNSHARED", "SHARED", "EXCLUS", "negative", "large"}
Plausible == {"UNSHARED", "SHARED", "EXCLUS"}
None == [ver |-> 0, by |-> "none"]

Op(o, a) == [op |-> o, addr |-> a]
NoCall == Op("none", NoAddr)
Calls == [op : {"MALLOC", "FOREIGN"}, addr : {NoAddr}]
             \cup [op : {"READ", "WRITE", "FREE"}, addr : Addr]

\* "call": in setLock or in connectClientSocket's loop, or Home has it queued;
\* "answer", "write": Home has its request, and has answered it with INVALIDATE;
\* "back": called back, it connects once more; "close": it has its answer and
\* Home waits for its RESET; "done": it unlocks and returns; "gone": it ended.
Waits == {"no", "listen", "call", "answer", "write", "back", "close", "done", "gone"}

TypeOK ==
    /\ polite \in BOOLEAN
    /\ live \subseteq Addr /\ ver \in [Addr -> Nat]
    /\ dir \in [Addr -> [iscached : State, sharers : Seq(Client)]]
    /\ copy \in [Client -> [Addr -> [ver : Nat, by : {"none", "read", "write"}]]]
    /\ call \in [Client -> Calls \cup {NoCall}] /\ waits \in [Client -> Waits]
    /\ job \in {"none", "reset", "write", "free", "dead"}
    /\ at \in Addr /\ left \in Seq(Client)
    /\ leaked \in 0 .. Memory

Init ==
    /\ polite \in BOOLEAN
    /\ live = {} /\ ver = [a \in Addr |-> 0]
    /\ dir = [a \in Addr |-> [iscached |-> "UNSHARED", sharers |-> << >>]]
    /\ copy = [n \in Client |-> [a \in Addr |-> None]]
    /\ call = [n \in Client |-> NoCall] /\ waits = [n \in Client |-> "no"]
    /\ job = "none" /\ at \in Addr /\ left = << >>
    /\ leaked = 0

-----------------------------------------------------------------------------
(* The clients' programs.                                                  *)

Enter(n, w) == waits' = [waits EXCEPT ![n] = w]

\* Programs respect lifetimes: they use what is allocated, and nobody frees an
\* address that another client is using.
Lawful(n, c) ==
    /\ c.op = "MALLOC" => live # Addr
    /\ c.addr # NoAddr =>
          /\ c.addr \in live
          /\ \A m \in Client \ {n} :
                call[m].addr = c.addr /\ "FREE" \in {c.op, call[m].op} =>
                    waits[m] \in {"done", "gone"}

\* A write of a is followed by invalidations.
Told(a) == dir[a].iscached \in {"SHARED", "EXCLUS"} /\ dir[a].sharers # << >>

\* The sharers of a listen and are called once; n itself may be among them.
CanTell(n, a) ==
    /\ \A i \in DOMAIN dir[a].sharers :
          dir[a].sharers[i] = n \/ waits[dir[a].sharers[i]] = "listen"
    /\ IsInjective(dir[a].sharers)

\* What avoids the end of the home node: what is read was written before, a
\* writer that will be called back is among those who are told, who frees is
\* not, and the others who are told listen.
Careful(n, c) ==
    \/ c.op = "MALLOC"
    \/ c.op = "READ" /\ (copy[n][c.addr] # None \/ dir[c.addr].iscached \in Plausible)
    \/ /\ c.op = "WRITE"
       /\ Told(c.addr) => CanTell(n, c.addr) /\ n \in Range(dir[c.addr].sharers)
    \/ /\ c.op = "FREE"
       /\ \/ dir[c.addr].iscached = "negative" \/ dir[c.addr].sharers = << >>
          \/ CanTell(n, c.addr) /\ n \notin Range(dir[c.addr].sharers)

\* Polite programs take turns: an operation begins when those of the others
\* are done but for their unlock.
Turn(n) == \A m \in Client \ {n} : waits[m] \in {"no", "listen", "done"}

\* The program of n calls Malloc, Free, read or write.  Nothing begins once
\* Home has ended.
Begin(n) ==
    /\ waits[n] = "no" /\ job # "dead"
    /\ \E c \in Calls :
          /\ Lawful(n, c) /\ (polite => Turn(n) /\ Careful(n, c))
          /\ call' = [call EXCEPT ![n] = c]
    /\ Enter(n, "call")
    /\ UNCHANGED <<polite, memoryVars, copy, homeVars, leaked>>

\* It calls connectAndReceive, which returns after one session.
Listen(n) ==
    /\ n \in Hearing /\ waits[n] = "no" /\ job # "dead"
    /\ Enter(n, "listen")
    /\ UNCHANGED <<polite, memoryVars, copy, call, homeVars, leaked>>

\* The access is over and the lock free.
Return(n) ==
    /\ waits[n] = "done"
    /\ Enter(n, "no") /\ call' = [call EXCEPT ![n] = NoCall]
    /\ UNCHANGED <<polite, memoryVars, copy, homeVars, leaked>>

\* Another client has the lock, or ended with it: a read or write returns.
Refused(n) ==
    /\ waits[n] = "call" /\ call[n].op \in {"READ", "WRITE"}
    /\ \E m \in Client \ {n} : {call[n].op, call[m].op} \in {{"WRITE"}, {"READ", "WRITE"}}
    /\ Enter(n, "no") /\ call' = [call EXCEPT ![n] = NoCall]
    /\ UNCHANGED <<polite, memoryVars, copy, homeVars, leaked>>

\* connectClientSocket has been refused too often, by Home or by the lock node,
\* or its connection is dropped with the queue it was in: the process ends.
Fail(n) ==
    /\ \/ waits[n] \in {"call", "back"} /\ (job = "dead" \/ ~ polite)
       \/ waits[n] = "done" /\ call[n].op \in {"READ", "WRITE"} /\ ~ polite
    /\ Enter(n, "gone")
    /\ copy' = [copy EXCEPT ![n] = [a \in Addr |-> None]]
    /\ UNCHANGED <<polite, memoryVars, call, homeVars, leaked>>

\* An invalidation of m reaches it: it listens, or is a writer that will.
Reached(m) == waits[m] \in {"listen", "write"}

\* The session that m serves is spent: it goes on, or connects to Home again.
Spent(m) == Enter(m, IF waits[m] = "write" THEN "back" ELSE "no")

\* The lock table is with a client, and the session it serves is another
\* client's setLock.
LockAsked(m) ==
    /\ m = LockNode /\ ~ polite /\ Reached(m)
    /\ \E n \in Client \ {m} :
          waits[n] \in {"call", "done"} /\ call[n].op \in {"READ", "WRITE"}
    /\ Spent(m)
    /\ UNCHANGED <<polite, memoryVars, copy, call, homeVars, leaked>>

-----------------------------------------------------------------------------
(* What Home answers.                                                      *)

\* Home accepts n, which asks it for o, and has memory for the request.
Serves(n, o, a) ==
    /\ waits[n] = "call" /\ call[n] = Op(o, a) /\ job = "none"
    /\ leaked < Memory /\ leaked' = leaked + 1

Answered(n) == Enter(n, "close") /\ job' = "reset" /\ UNCHANGED <<at, left>>

\* The answer never comes.
Ends(n) == Enter(n, "answer") /\ job' = "dead" /\ UNCHANGED <<at, left>>

\* receive has no memory for its buffer, which cannot be registered then.
RunOut ==
    /\ leaked = Memory
    /\ \/ job = "reset"
       \/ /\ job = "none"
          /\ \E n \in Client : waits[n] \in {"call", "back"}
    /\ job' = "dead"
    /\ UNCHANGED <<polite, memoryVars, copy, clientVars, at, left, leaked>>

\* handleReset.
Close(n) ==
    /\ waits[n] = "close" /\ job = "reset"
    /\ leaked < Memory /\ leaked' = leaked + 1
    /\ Enter(n, "done") /\ job' = "none"
    /\ UNCHANGED <<polite, memoryVars, copy, call, at, left>>

\* A writer that was called back connects once more, only for a RESET.
Reconnect(n) ==
    /\ waits[n] = "back" /\ job = "none"
    /\ leaked < Memory /\ leaked' = leaked + 1
    /\ Enter(n, "done")
    /\ UNCHANGED <<polite, memoryVars, copy, call, homeVars>>

\* Remote allocation.  Nothing is initialised: iscached is clobbered by the
\* allocator, the vector of sharers may be that of an earlier life.
Malloc(n) ==
    /\ Serves(n, "MALLOC", NoAddr) /\ Answered(n)
    /\ \E a \in Addr \ live, s \in {"UNSHARED", "negative", "large"} :
          /\ live' = live \cup {a}
          /\ ver' = [ver EXCEPT ![a] = @ + 1]
          /\ \E old \in {dir[a].sharers, << >>} :
                 dir' = [dir EXCEPT ![a] = [iscached |-> s, sharers |-> old]]
    /\ UNCHANGED <<polite, copy, call>>

\* performRead with a copy.
ReadHit(n, a) ==
    /\ waits[n] = "call" /\ call[n] = Op("READ", a) /\ copy[n][a] # None
    /\ Enter(n, "done")
    /\ UNCHANGED <<polite, memoryVars, copy, call, homeVars, leaked>>

\* Mutant: the reader is listed as the only sharer.
ReadMissAlone(n, a) ==
    /\ Serves(n, "READ", a) /\ copy[n][a] = None /\ dir[a].iscached \in Plausible
    /\ dir' = [dir EXCEPT ![a] = [iscached |-> "SHARED", sharers |-> <<n>>]]
    /\ copy' = [copy EXCEPT ![n][a] = [ver |-> ver[a], by |-> "read"]]
    /\ Answered(n)
    /\ UNCHANGED <<polite, live, ver, call>>

\* performRead without a copy, and handleRead; performRead gives handleRead a
\* null pointer for a word whose iscached makes no sense.
ReadMiss(n, a) ==
    /\ Serves(n, "READ", a) /\ copy[n][a] = None /\ dir[a].iscached \in Plausible
    /\ dir' = [dir EXCEPT ![a] = [iscached |-> "SHARED", sharers |-> Append(@.sharers, n)]]
    /\ copy' = [copy EXCEPT ![n][a] = [ver |-> ver[a], by |-> "read"]]
    /\ Answered(n)
    /\ UNCHANGED <<polite, live, ver, call>>

ReadNull(n, a) ==
    /\ Serves(n, "READ", a) /\ copy[n][a] = None /\ dir[a].iscached \notin Plausible
    /\ Ends(n)
    /\ UNCHANGED <<polite, memoryVars, copy, call>>

\* Mutant: the sharers are told while the writer waits for its answer.
WriteUncalled(n, a) ==
    /\ Serves(n, "WRITE", a)
    /\ ver' = [ver EXCEPT ![a] = @ + 1]
    /\ copy' = [copy EXCEPT ![n][a] = [ver |-> ver[a] + 1, by |-> "write"]]
    /\ dir' = [dir EXCEPT ![a] = [iscached |-> "EXCLUS", sharers |-> << >>]]
    /\ IF Told(a)
       THEN /\ Enter(n, "answer")
            /\ job' = "write" /\ at' = a /\ left' = dir[a].sharers
       ELSE Answered(n)
    /\ UNCHANGED <<polite, live, call>>

\* performWrite alters the copy of n, handleWrite the word; sharers are told
\* afterwards, and n is called back.
Write(n, a) ==
    /\ Serves(n, "WRITE", a)
    /\ ver' = [ver EXCEPT ![a] = @ + 1]
    /\ copy' = [copy EXCEPT ![n][a] = [ver |-> ver[a] + 1, by |-> "write"]]
    /\ dir' = [dir EXCEPT ![a] = [iscached |-> "EXCLUS", sharers |-> << >>]]
    /\ IF Told(a)
       THEN /\ Enter(n, "write")
            /\ job' = "write" /\ at' = a /\ left' = dir[a].sharers
       ELSE Answered(n)
    /\ UNCHANGED <<polite, live, call>>

\* Free of a remote address, up to the broadcast: no lock is taken, and n's
\* own copy stays.
Free(n, a) ==
    /\ Serves(n, "FREE", a)
    /\ job' = "free" /\ at' = a
    /\ left' = IF dir[a].iscached # "negative" THEN dir[a].sharers ELSE << >>
    /\ Enter(n, "answer")
    /\ UNCHANGED <<polite, memoryVars, copy, call>>

\* An address of another client: Home takes it for remote and connects to
\* port 3000, where nobody but itself would listen.
Foreign(n) ==
    /\ Serves(n, "FOREIGN", NoAddr) /\ Ends(n)
    /\ UNCHANGED <<polite, memoryVars, copy, call>>

-----------------------------------------------------------------------------
(* broadcastInvalidations.                                                 *)

Broadcasts == job \in {"write", "free"} /\ left # << >>

\* Mutant: a writer that is reached goes on waiting.
InvalidateUnreturned ==
    /\ Broadcasts /\ Reached(Head(left))
    /\ copy' = [copy EXCEPT ![Head(left)][at] = None]
    /\ left' = Tail(left)
    /\ UNCHANGED <<polite, memoryVars, clientVars, job, at, leaked>>

\* The next sharer is in connectAndReceive, and removes its copy.
Invalidate ==
    /\ Broadcasts /\ Reached(Head(left))
    /\ copy' = [copy EXCEPT ![Head(left)][at] = None]
    /\ Spent(Head(left))
    /\ left' = Tail(left)
    /\ UNCHANGED <<polite, memoryVars, call, job, at, leaked>>

\* It is not, because it has ended, or does not serve, or is in an operation of
\* its own: connectClientSocket throws.  A called-back writer may be late.
Unheard ==
    /\ Broadcasts
    /\ ~ Reached(Head(left)) \/ (waits[Head(left)] = "write" /\ ~ polite)
    /\ job' = "dead"
    /\ UNCHANGED <<polite, memoryVars, copy, clientVars, at, left, leaked>>

EndBroadcast ==
    /\ job = "write" /\ left = << >>
    /\ job' = "none"
    /\ UNCHANGED <<polite, memoryVars, copy, clientVars, at, left, leaked>>

\* The memory is freed and the client answered.
FreeReturns(n) ==
    /\ job = "free" /\ left = << >> /\ waits[n] = "answer"
    /\ live' = live \ {at}
    /\ ver' = [ver EXCEPT ![at] = @ + 1]
    /\ Answered(n)
    /\ UNCHANGED <<polite, dir, copy, call, leaked>>

-----------------------------------------------------------------------------
HomeStep == RunOut \/ Invalidate \/ Unheard \/ EndBroadcast

CallStep(n) ==
    \/ Malloc(n) \/ Foreign(n) \/ FreeReturns(n)
    \/ Close(n) \/ Reconnect(n) \/ Return(n)
    \/ \E a \in Addr :
          ReadHit(n, a) \/ ReadMiss(n, a) \/ ReadNull(n, a) \/ Write(n, a) \/ Free(n, a)

ProgramStep(n) == Begin(n) \/ Listen(n) \/ Refused(n) \/ Fail(n) \/ LockAsked(n)

Next == HomeStep \/ \E n \in Client : CallStep(n) \/ ProgramStep(n)

Spec == Init /\ [][Next]_vars

\* Home goes on, and so does a client in an operation.  Nobody has to begin
\* one, to listen, to be refused or to fail.
Fairness == WF_vars(HomeStep) /\ \A n \in Client : WF_vars(CallStep(n))

-----------------------------------------------------------------------------
\* A copy that n obtained by reading is current and n is listed for it, until
\* n is told; so of a freed address no such copy is left, although Free takes no
\* lock and broadcasts to whatever the vector holds.
CopiesTracked ==
    \A n \in Client, a \in Addr : copy[n][a].by = "read" =>
        \/ /\ copy[n][a].ver = ver[a] /\ a \in live
           /\ dir[a].iscached = "SHARED" /\ n \in Range(dir[a].sharers)
           /\ ~ (job = "free" /\ at = a)
        \/ at = a /\ n \in Range(left)

\* Nobody is left to be told when Home serves.
ToldBeforeServing == job \in {"none", "reset"} => left = << >>

\* What is read from a cache is what the address holds in its present life, or
\* is about to be invalidated, or was written by the reader itself: in an
\* earlier life, or before another node's write that forgot the owner.
StaleCopiesAreWritten ==
    \A n \in Client, a \in Addr :
        copy[n][a].by # "none" /\ copy[n][a].ver # ver[a] =>
            copy[n][a].by = "write" \/ (at = a /\ n \in Range(left))

\* If programs take turns, write before they read, write what they have read,
\* free what they have not, and if those who are told listen and retries last,
\* then nothing ends the home node but its own leak,
DiesOnlyOfLeaks == polite /\ job = "dead" => leaked = Memory

\* and until then every operation returns.
CallsReturn ==
    \A n \in Client : polite /\ call[n] # NoCall ~> call[n] = NoCall \/ job = "dead"

=============================================================================
