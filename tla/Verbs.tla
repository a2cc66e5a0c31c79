------------------------------- MODULE Verbs -------------------------------
(***************************************************************************)
(* The verbs objects of one process and who holds them.  Every object is   *)
(* created from others (a queue pair from a protection domain, two         *)
(* completion queues and a shared receive queue), is held by one           *)
(* unique_ptr, and can be destroyed only when nothing created from it is   *)
(* left: a destruction that is refused is logged and not repeated, and the *)
(* object stays behind (checkStatusNoThrow).                               *)
(*                                                                         *)
(* rdma::Network is built member by member; any step may throw.  Then the  *)
(* program opens scopes: a connection, a buffer, a memory region over a    *)
(* buffer.  It leaves them in the reverse order, on return or because      *)
(* something threw, and at last the Network is destroyed.  main catches    *)
(* nothing, so there an exception ends the process and the kernel reclaims *)
(* everything; the unwinding here is what the classes give a program that  *)
(* catches it.                                                             *)
(***************************************************************************)
EXTENDS Naturals, Sequences, FiniteSets

CONSTANTS Handles,    \* what the library returns: as many as a run needs
          MaxScopes,  \* bound: open scopes
          MaxEvents   \* bound: events fetched and not acknowledged

NULL == "null"

VerbsAssumption ==
    IsFiniteSet(Handles) /\ NULL \notin Handles /\ MaxScopes \in Nat /\ MaxEvents \in Nat

VARIABLES kind,     \* the kind of each object, "none" when there is none
          uses,     \* the objects each object was created from
          member,   \* what the members of the Network hold
          scopes,   \* the local owners, the innermost last
          phase,    \* where the life of the Network stands
          step,     \* the next step of the constructor or the destructor
          unacked   \* events fetched from the channel and not acknowledged

vars == <<kind, uses, member, scopes, phase, step, unacked>>

Members == {"devices", "context", "protectionDomain", "channel", "sendQueue",
            "receiveQueue", "sharedReceiveQueue"}

(* The order of the initialisers of Network, with those of its             *)
(* CompletionQueuePair, then the body of the constructor.                  *)
Construction == <<"devices", "context", "channel", "sendQueue", "receiveQueue",
                  "notify", "protectionDomain", "sharedReceiveQueue">>

\* Mutant: the shared receive queue declared before the protection domain.
DestructionOfSwapped == <<"ack", "receiveQueue", "sendQueue", "channel",
                          "protectionDomain", "sharedReceiveQueue", "context", "devices">>

(* The members in the reverse of the order of their declarations; the body *)
(* of ~CompletionQueuePair, "ack", comes before its members.               *)
Destruction == <<"sharedReceiveQueue", "ack", "receiveQueue", "sendQueue", "channel",
                 "protectionDomain", "context", "devices">>

Live == {h \in Handles : kind[h] # "none"}

Init == /\ kind = [h \in Handles |-> "none"]
        /\ uses = [h \in Handles |-> {}]
        /\ member = [m \in Members |-> NULL]
        /\ scopes = <<>>
        /\ phase = "constructing"
        /\ step = 1
        /\ unacked = 0

-----------------------------------------------------------------------------
(* The library, as this code uses it. *)

Fresh == CHOOSE h \in Handles : kind[h] = "none"

Create(k, from) == /\ Live # Handles
                   /\ kind' = [kind EXCEPT ![Fresh] = k]
                   /\ uses' = [uses EXCEPT ![Fresh] = from]

(* Memory can be freed under a region; the library refuses to destroy an   *)
(* object another one was created from.                                    *)
Refused(h) == kind[h] # "memory" /\ \E other \in Live : h \in uses[other]

Delete(h) == IF h = NULL \/ Refused(h)
             THEN UNCHANGED <<kind, uses>>
             ELSE /\ kind' = [kind EXCEPT ![h] = "none"]
                  /\ uses' = [uses EXCEPT ![h] = {}]

-----------------------------------------------------------------------------
(* The constructor of Network. *)

Advance == IF step = Len(Construction)
           THEN phase' = "running" /\ step' = 1
           ELSE phase' = phase /\ step' = step + 1

Constructs(m) == phase = "constructing" /\ Construction[step] = m

Construct(m, from) == /\ Constructs(m)
                      /\ Create(m, {member[n] : n \in from})
                      /\ member' = [member EXCEPT ![m] = Fresh]
                      /\ Advance
                      /\ UNCHANGED <<scopes, unacked>>

GetDeviceList == Construct("devices", {})

(* The library opens a device whether the list it came from is kept or not. *)
OpenUnambiguousDevice == Construct("context", {})

CreateCompletionEventChannel == Construct("channel", {"context"})

CreateCompletionQueue ==
    \E q \in {"sendQueue", "receiveQueue"} : Construct(q, {"context", "channel"})

RequestNotify == /\ Constructs("notify")
                 /\ Advance
                 /\ UNCHANGED <<kind, uses, member, scopes, unacked>>

AllocProtectionDomain == Construct("protectionDomain", {"context"})

CreateSrq == Construct("sharedReceiveQueue", {"protectionDomain"})

(* No device, more than one, or a call that fails.  The members built so   *)
(* far are destroyed; the others hold nothing.                             *)
ConstructionThrows == /\ phase = "constructing"
                      /\ phase' = "destroying"
                      /\ step' = 1
                      /\ UNCHANGED <<kind, uses, member, scopes, unacked>>

-----------------------------------------------------------------------------
(* The scopes of a running program. *)

Enter(k, from) == /\ phase = "running" /\ Len(scopes) < MaxScopes
                  /\ Create(k, from)
                  /\ scopes' = Append(scopes, Fresh)
                  /\ UNCHANGED <<member, phase, step, unacked>>

(* A connection: a queue pair on the shared queues of the Network. *)
CreateQueuePair == Enter("queuePair", {member[m] : m \in {"protectionDomain", "sendQueue",
                                                          "receiveQueue", "sharedReceiveQueue"}})

(* The vector of a RegisteredMemoryRegion, a parameter or a local variable. *)
Allocate == Enter("memory", {})

(* A region over memory of an enclosing scope. *)
RegisterMr == \E i \in DOMAIN scopes :
                 /\ scopes[i] # NULL /\ kind[scopes[i]] = "memory"
                 /\ Enter("memoryRegion", {member["protectionDomain"], scopes[i]})

Leave == /\ scopes # <<>>
         /\ Delete(scopes[Len(scopes)])
         /\ scopes' = SubSeq(scopes, 1, Len(scopes) - 1)
         /\ UNCHANGED <<member, step, unacked>>

(* A destructor at the end of a scope, on the way back to the caller. *)
Return == phase = "running" /\ Leave /\ UNCHANGED phase

(* prepareForInvalidate: c = std::move(newcon), with newcon the innermost  *)
(* local: the queue pair c held is destroyed and newcon is left empty.     *)
ReplaceConnection ==
    LET new == Len(scopes) IN
    /\ phase = "running"
    /\ \E c \in 1..(new - 1) :
          /\ \A i \in {c, new} : scopes[i] # NULL /\ kind[scopes[i]] = "queuePair"
          /\ Delete(scopes[c])
          /\ scopes' = [scopes EXCEPT ![c] = scopes[new], ![new] = NULL]
    /\ UNCHANGED <<member, phase, step, unacked>>

(* waitForCompletion fetches an event and notes it in eventsToAck. *)
GetEvent == /\ phase = "running" /\ unacked < MaxEvents
            /\ unacked' = unacked + 1
            /\ UNCHANGED <<kind, uses, member, scopes, phase, step>>

(* A poll, a socket or a creation fails. *)
Throw == /\ phase = "running"
         /\ phase' = "unwinding"
         /\ UNCHANGED <<kind, uses, member, scopes, step, unacked>>

Unwind == phase = "unwinding" /\ Leave /\ UNCHANGED phase

(* The program is out of its last scope: ~Node begins. *)
Finish == /\ phase \in {"running", "unwinding"} /\ scopes = <<>>
          /\ phase' = "destroying"
          /\ UNCHANGED <<kind, uses, member, scopes, step, unacked>>

-----------------------------------------------------------------------------
(* The destructor of Network. *)

(* ibv_destroy_cq waits until every event of the queue is acknowledged. *)
Blocked(m) == m \in {"sendQueue", "receiveQueue"} /\ member[m] # NULL /\ unacked > 0

\* Mutant: a destructor that acknowledges one event.
AckOne == unacked' = (IF unacked = 0 THEN 0 ELSE unacked - 1) /\ UNCHANGED <<kind, uses, member>>

AckEvents == unacked' = 0 /\ UNCHANGED <<kind, uses, member>>

Release(m) == /\ ~ Blocked(m)
              /\ Delete(member[m])
              /\ member' = [member EXCEPT ![m] = NULL]
              /\ UNCHANGED unacked

DestroyMember == /\ phase = "destroying"
                 /\ IF Destruction[step] = "ack" THEN AckEvents ELSE Release(Destruction[step])
                 /\ IF step = Len(Destruction)
                    THEN phase' = "stopped" /\ step' = 1
                    ELSE phase' = phase /\ step' = step + 1
                 /\ UNCHANGED scopes

-----------------------------------------------------------------------------
NetworkConstructor == \/ GetDeviceList \/ OpenUnambiguousDevice
                      \/ CreateCompletionEventChannel \/ CreateCompletionQueue
                      \/ RequestNotify \/ AllocProtectionDomain \/ CreateSrq
                      \/ ConstructionThrows

Program == \/ CreateQueuePair \/ Allocate \/ RegisterMr \/ ReplaceConnection
           \/ GetEvent \/ Return \/ Throw

Destructors == Unwind \/ DestroyMember

Next == NetworkConstructor \/ Program \/ Finish \/ Destructors

(* Destructors are not interrupted: what is being left is left.  The       *)
(* program itself may run for ever.                                        *)
Spec == Init /\ [][Next]_vars
FairSpec == Spec /\ WF_vars(Destructors) /\ WF_vars(Finish /\ phase = "unwinding")

-----------------------------------------------------------------------------
Held == {member[m] : m \in Members} \cup {scopes[i] : i \in DOMAIN scopes}

(* Every variable keeps its type. *)
TypeOK == /\ kind \in [Handles -> Members \cup {"queuePair", "memory", "memoryRegion", "none"}]
          /\ uses \in [Handles -> SUBSET Handles]
          /\ member \in [Members -> Handles \cup {NULL}]
          /\ scopes \in Seq(Handles \cup {NULL}) /\ Len(scopes) <= MaxScopes
          /\ phase \in {"constructing", "running", "unwinding", "destroying", "stopped"}
          /\ step \in 1..Len(Construction)
          /\ unacked \in 0..MaxEvents

(* No object is left behind: each one that exists has an owner that will   *)
(* still destroy it.  A destruction the library refused, and the move of a *)
(* connection over another one, are where it could be lost.                *)
NothingForgotten == Live \subseteq Held

(* No owner holds an object that is gone, and no two hold the same one: a  *)
(* second destruction would free what is not there any more.               *)
OneOwner == /\ Held \ {NULL} \subseteq Live
            /\ \A i \in DOMAIN scopes : scopes[i] # NULL =>
                  /\ \A j \in DOMAIN scopes : scopes[j] = scopes[i] => j = i
                  /\ \A m \in Members : member[m] # scopes[i]

(* The memory under a registered region is there as long as the region is: *)
(* a peer may write into it at any moment.                                 *)
RegionsCoverLiveMemory ==
    \A r \in Live : kind[r] = "memoryRegion" => \E m \in uses[r] : kind[m] = "memory"

(* Once the constructor has thrown, or the program has left its last       *)
(* scope, every object is destroyed: no destructor waits for ever.         *)
EverythingIsReleased == phase \in {"unwinding", "destroying"} ~> (phase = "stopped" /\ Live = {})
=============================================================================
