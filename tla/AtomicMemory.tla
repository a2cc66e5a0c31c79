---------------------------- MODULE AtomicMemory ----------------------------
(***************************************************************************)
(* What Node::read and Node::write promise: a linearizable memory.  An     *)
(* operation takes effect at one instant between its call and its return;  *)
(* a read returns the value of that instant.  An operation whose lock is   *)
(* refused returns without an effect, and one whose process ends may or    *)
(* may not have had one.                                                   *)
(***************************************************************************)
CONSTANTS Process, Addr, Value, None

VARIABLES
    mem,   \* mem[a]: the value of the word at a
    call   \* call[p]: the operation p runs and how far it is

memoryVars == <<mem, call>>

Call == [phase : {"idle", "pending", "done"}, kind : {"READ", "WRITE"},
         addr : Addr, val : Value \cup {None}]

MemoryTypeOK == mem \in [Addr -> Value] /\ call \in [Process -> Call]

MemoryInit ==
    /\ mem \in [Addr -> Value]
    /\ call \in [Process -> {c \in Call : c.phase = "idle"}]

\* p calls read or write.
Invoke(p) ==
    /\ call[p].phase = "idle"
    /\ \E a \in Addr, v \in Value :
        \E c \in {[phase |-> "pending", kind |-> "READ", addr |-> a, val |-> None],
                  [phase |-> "pending", kind |-> "WRITE", addr |-> a, val |-> v]} :
            call' = [call EXCEPT ![p] = c]
    /\ UNCHANGED mem

\* The operation of p happens.
TakeEffect(p) ==
    LET c == call[p] IN
    /\ c.phase = "pending"
    /\ \/ /\ c.kind = "READ"
          /\ call' = [call EXCEPT ![p].phase = "done", ![p].val = mem[c.addr]]
          /\ UNCHANGED mem
       \/ /\ c.kind = "WRITE"
          /\ call' = [call EXCEPT ![p].phase = "done"]
          /\ mem' = [mem EXCEPT ![c.addr] = c.val]

\* The lock is refused: read returns 0, write an empty address.
Refuse(p) ==
    /\ call[p].phase = "pending"
    /\ call' = [call EXCEPT ![p].phase = "idle"]
    /\ UNCHANGED mem

\* The operation of p returns.
Finish(p) ==
    /\ call[p].phase = "done"
    /\ call' = [call EXCEPT ![p].phase = "idle"]
    /\ UNCHANGED mem

MemoryNext ==
    \E p \in Process : Invoke(p) \/ TakeEffect(p) \/ Refuse(p) \/ Finish(p)

MemorySpec == MemoryInit /\ [][MemoryNext]_memoryVars

=============================================================================
