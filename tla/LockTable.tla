------------------------------ MODULE LockTable ------------------------------
(***************************************************************************)
(* The locks of the distributed memory.  Node::locks of one node, the lock *)
(* node, holds a lock for every home node; read takes it shared and write  *)
(* exclusive, for the time of the access, by setLock: locally on the lock  *)
(* node, through sendLock and handleLocks elsewhere.  A refused operation  *)
(* returns at once.  A process that ends while it holds a lock keeps it.   *)
(***************************************************************************)
EXTENDS Naturals, FiniteSets

CONSTANTS
    Node,
    LockNode,  \* defs::locknode
    LockId,    \* the ids of home nodes
    Uses,      \* Uses[n]: the pairs of lock and mode that n's program asks for
    Mutex      \* the locks no reader uses

Mode == {"SHAREDLOCK", "EXCLUSIVE"}
LockState == Mode \cup {"UNLOCKED"}

ASSUME LockAssumption ==
    /\ LockNode \in Node
    /\ Uses \in [Node -> SUBSET (LockId \X Mode)]
    /\ Mutex \subseteq LockId
    /\ \A n \in Node, i \in Mutex : <<i, "SHAREDLOCK">> \notin Uses[n]

VARIABLES
    locks,   \* Node::locks of the lock node; "absent" is an id not yet entered
    phase,   \* phase[n]: how far read or write of n has come with its lock
    want,    \* want[n]: the lock and the mode it is about
    alive,   \* the processes that have not ended
    shared   \* history: the locks two nodes have held since they were last free

vars == <<locks, phase, want, alive, shared>>

Phase == {"idle", "ask", "asked", "granted", "denied", "hold", "release",
          "released", "freed"}

TypeOK ==
    /\ locks \in [LockId -> LockState \cup {"absent"}]
    /\ phase \in [Node -> Phase]
    /\ want \in [Node -> LockId \X Mode]
    /\ alive \in SUBSET Node
    /\ shared \in SUBSET LockId

Init ==
    /\ locks = [i \in LockId |-> "absent"]
    /\ phase = [n \in Node |-> "idle"]
    /\ want \in [Node -> LockId \X Mode]
    /\ alive = Node
    /\ shared = {}

\* n has been granted its lock and the lock node has not seen its unlock.
Holds(n) == phase[n] \in {"granted", "hold", "release", "released"}

HoldersOf(i) == {n \in Node : Holds(n) /\ want[n][1] = i}

\* Mutant: a reader is let in beside a writer.
GrantsReaders(i, s) ==
    locks[i] = "absent" \/ s = "SHAREDLOCK" \/ locks[i] = "UNLOCKED"

\* Mutant: a lock not yet entered is refused to readers.
GrantsWriterFirst(i, s) ==
    \/ s = "EXCLUSIVE" /\ locks[i] \in {"absent", "UNLOCKED"}
    \/ s = "SHAREDLOCK" /\ locks[i] \notin {"absent", "EXCLUSIVE"}

\* setLock: an id that is not there is entered in whatever state is asked for.
Grants(i, s) ==
    \/ locks[i] = "absent"
    \/ s = "EXCLUSIVE" /\ locks[i] = "UNLOCKED"
    \/ s = "SHAREDLOCK" /\ locks[i] # "EXCLUSIVE"

Enter(n, p) == phase' = [phase EXCEPT ![n] = p]

\* read or write begins.
Start(n, w) ==
    /\ n \in alive /\ phase[n] = "idle" /\ w \in Uses[n]
    /\ want' = [want EXCEPT ![n] = w]
    /\ Enter(n, "ask")
    /\ UNCHANGED <<locks, alive, shared>>

\* sendLock of a node that is not the lock node.
SendLock(n) ==
    /\ n \in alive /\ n # LockNode
    /\ \/ phase[n] = "ask" /\ Enter(n, "asked")
       \/ phase[n] = "release" /\ Enter(n, "released")
    /\ UNCHANGED <<locks, want, alive, shared>>

\* Whether setLock runs now for a request of n: locally, or in handleLocks.
Arrives(n, before, sent) ==
    /\ LockNode \in alive /\ n \in alive
    /\ phase[n] = IF n = LockNode THEN before ELSE sent

\* Mutant: a new id is entered as unlocked.
GrantUnentered(n) ==
    LET i == want[n][1] IN
    /\ Arrives(n, "ask", "asked") /\ Grants(i, want[n][2])
    /\ locks' = [locks EXCEPT ![i] = IF @ = "absent" THEN "UNLOCKED" ELSE want[n][2]]
    /\ Enter(n, "granted")
    /\ shared' = IF HoldersOf(i) = {} THEN shared ELSE shared \cup {i}
    /\ UNCHANGED <<want, alive>>

\* setLock for a lock that is asked for: granted, or refused for good.
Grant(n) ==
    LET i == want[n][1] IN
    /\ Arrives(n, "ask", "asked") /\ Grants(i, want[n][2])
    /\ locks' = [locks EXCEPT ![i] = want[n][2]]
    /\ Enter(n, "granted")
    /\ shared' = IF HoldersOf(i) = {} THEN shared ELSE shared \cup {i}
    /\ UNCHANGED <<want, alive>>

Deny(n) ==
    /\ Arrives(n, "ask", "asked") /\ ~ Grants(want[n][1], want[n][2])
    /\ Enter(n, "denied")
    /\ UNCHANGED <<locks, want, alive, shared>>

\* setLock with UNLOCKED, whoever asks and whatever the state is.
Unlock(n) ==
    LET i == want[n][1] IN
    /\ Arrives(n, "release", "released")
    /\ locks' = [locks EXCEPT ![i] = "UNLOCKED"]
    /\ Enter(n, "freed")
    /\ shared' = IF HoldersOf(i) = {n} THEN shared \ {i} ELSE shared
    /\ UNCHANGED <<want, alive>>

\* read and write between their two calls of setLock, and their return.
Proceed(n) ==
    /\ n \in alive
    /\ \/ phase[n] = "granted" /\ Enter(n, "hold")
       \/ phase[n] = "hold" /\ Enter(n, "release")
       \/ phase[n] \in {"denied", "freed"} /\ Enter(n, "idle")
    /\ UNCHANGED <<locks, want, alive, shared>>

\* connectClientSocket gives up - in setLock, which the lock node calls
\* without it, or in the access - and nobody catches.
GiveUp(n) ==
    /\ n \in alive
    /\ phase[n] = "hold" \/ (n # LockNode /\ phase[n] \in {"ask", "release"})
    /\ alive' = alive \ {n}
    /\ UNCHANGED <<locks, phase, want, shared>>

Next ==
    \E n \in Node :
        \/ \E w \in LockId \X Mode : Start(n, w)
        \/ SendLock(n) \/ Grant(n) \/ Deny(n) \/ Unlock(n)
        \/ Proceed(n) \/ GiveUp(n)

Spec == Init /\ [][Next]_vars

-----------------------------------------------------------------------------
\* A lock that is taken was taken by a node that has not released it yet: no
\* interleaving of unlocks and grants leaves a lock behind that nobody holds.
LockHasHolder ==
    \A i \in LockId : locks[i] \in Mode =>
        \E n \in HoldersOf(i) : want[n][2] = locks[i]

\* While a lock was never held by two nodes at a time since it was last free,
\* the table shows its one holder.
TableShowsHolder ==
    \A i \in LockId \ shared : \A n \in HoldersOf(i) :
        locks[i] = want[n][2] /\ HoldersOf(i) = {n}

\* Locks without readers are mutexes.
WritersExclude ==
    \A i \in Mutex : \A n, m \in HoldersOf(i) : n = m

\* The part of the inductive invariant that links the history to the table.
SharedIsHeld == \A i \in shared : HoldersOf(i) # {} /\ locks[i] # "absent"
MutexUnshared == \A i \in Mutex : i \notin shared
WantsAreUsed == \A n \in Node : phase[n] # "idle" => want[n] \in Uses[n]

LockInv ==
    /\ TypeOK
    /\ LockHasHolder /\ TableShowsHolder
    /\ SharedIsHeld /\ MutexUnshared /\ WantsAreUsed

\* Nobody is refused while the lock is free: some other node holds it, though
\* it may be one whose process has ended.
DenialStep ==
    \A n \in Node : phase[n] # "denied" /\ phase'[n] = "denied" =>
        \E m \in HoldersOf(want[n][1]) : m # n
DenialJustified == [][DenialStep]_vars

\* The table is a reader-writer lock for as long as no two readers share it.
HoldsMap == [i \in LockId |-> [n \in Node |->
                IF n \in HoldersOf(i) THEN want[n][2] ELSE "none"]]
Fragile == INSTANCE FragileLock WITH holds <- HoldsMap, broken <- shared
ImplementsFragileLock == Fragile!FragileSpec

=============================================================================
