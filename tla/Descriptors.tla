---------------------------- MODULE Descriptors ----------------------------
(***************************************************************************)
(* Socket objects and the descriptors they own.  A Socket is created, made *)
(* of a descriptor that accept or receive_fd returns, moved into another   *)
(* one, closed and destroyed, in any order; moving swaps, so that what the *)
(* target had is closed with the source.  A Connection is moved by moving  *)
(* its socket.                                                             *)
(*                                                                         *)
(* The kernel gives out the numbers of closed descriptors again, also to   *)
(* the verbs library and to everybody else in the process: closing twice   *)
(* closes a descriptor that is something else by then.                     *)
(***************************************************************************)
CONSTANTS Sockets,   \* places for Socket objects
          Fds,       \* numbers of descriptors
          None,      \* -1
          Dead       \* of a place without an object

ASSUME DescriptorsAssumption == None \notin Fds /\ Dead \notin Fds \cup {None}

VARIABLES s,         \* the descriptor of each object
          open,      \* descriptors that are open in the process
          others,    \* those of them that other parts have opened
          leaked     \* those of them a failed creation has left behind

vars == <<s, open, others, leaked>>

Live == {o \in Sockets : s[o] # Dead}
Held == {s[o] : o \in Sockets} \cap Fds

Init == /\ s = [o \in Sockets |-> Dead]
        /\ others \in SUBSET Fds /\ open = others /\ leaked = {}

-----------------------------------------------------------------------------
\* Socket()
Default(o) == /\ o \notin Live
              /\ s' = [s EXCEPT ![o] = None]
              /\ UNCHANGED <<open, others, leaked>>

\* fromRaw of what socket, accept or recvmsg return.
FromRaw(o, fd) == /\ o \notin Live /\ fd \in Fds \ open
                  /\ open' = open \cup {fd}
                  /\ s' = [s EXCEPT ![o] = fd]
                  /\ UNCHANGED <<others, leaked>>

\* create: the descriptor is open when setsockopt fails and it throws.
CreateThrows(fd) == /\ fd \in Fds \ open
                    /\ open' = open \cup {fd} /\ leaked' = leaked \cup {fd}
                    /\ UNCHANGED <<s, others>>

Create(o, fd) == FromRaw(o, fd) \/ CreateThrows(fd)

\* Socket(Socket &&): the new object starts with -1 and swaps.
MoveConstruct(o, p) == /\ o \notin Live /\ p \in Live
                       /\ s' = [s EXCEPT ![o] = s[p], ![p] = None]
                       /\ UNCHANGED <<open, others, leaked>>

\* Mutant: a move assignment that forgets what it had.
MoveAssignForgets(o, p) == /\ o \in Live /\ p \in Live /\ o # p
                           /\ s' = [s EXCEPT ![o] = s[p], ![p] = None]
                           /\ UNCHANGED <<open, others, leaked>>

\* Mutant: one that leaves what it had open for good.
MoveAssignLeaks(o, p) == /\ o \in Live /\ p \in Live /\ o # p
                         /\ s' = [s EXCEPT ![o] = s[p], ![p] = None]
                         /\ leaked' = leaked \cup ({s[o]} \cap Fds)
                         /\ UNCHANGED <<open, others>>

\* operator=(Socket &&), also to itself.
MoveAssign(o, p) == /\ o \in Live /\ p \in Live
                    /\ s' = [s EXCEPT ![o] = s[p], ![p] = s[o]]
                    /\ UNCHANGED <<open, others, leaked>>

\* close(), nothing if there is no descriptor.  The kernel closes whatever
\* has the number, be it somebody else's.
Close(o) == /\ o \in Live
            /\ open' = open \ {s[o]}
            /\ others' = others \ {s[o]}
            /\ s' = [s EXCEPT ![o] = None]
            /\ UNCHANGED leaked

\* ~Socket
Destroy(o) == /\ o \in Live
              /\ open' = open \ {s[o]}
              /\ others' = others \ {s[o]}
              /\ s' = [s EXCEPT ![o] = Dead]
              /\ UNCHANGED leaked

\* External: the rest of the process opens and closes descriptors of its own.
OthersOpen(fd) == /\ fd \in Fds \ open
                  /\ open' = open \cup {fd} /\ others' = others \cup {fd}
                  /\ UNCHANGED <<s, leaked>>

OthersClose(fd) == /\ fd \in others
                   /\ open' = open \ {fd} /\ others' = others \ {fd}
                   /\ UNCHANGED <<s, leaked>>

Next == \/ \E o \in Sockets : Default(o) \/ Close(o) \/ Destroy(o)
        \/ \E o \in Sockets, fd \in Fds : Create(o, fd)
        \/ \E o, p \in Sockets : MoveConstruct(o, p) \/ MoveAssign(o, p)
        \/ \E fd \in Fds : OthersOpen(fd) \/ OthersClose(fd)

Spec == Init /\ [][Next]_vars

-----------------------------------------------------------------------------
\* Every variable keeps its type.
TypeOK == /\ s \in [Sockets -> Fds \cup {None, Dead}]
          /\ open \subseteq Fds /\ others \subseteq Fds /\ leaked \subseteq Fds

\* No two objects own the same descriptor, however they have been moved.
OneOwner == \A o, p \in Sockets : s[o] = s[p] /\ s[o] \in Fds => o = p

\* What is open is owned by an object, by the rest of the process, or was
\* left behind by a failed creation, and by one of them only: no descriptor
\* is lost by a move, and none an object owns has been closed under it.
Accounted == /\ open = Held \cup others \cup leaked
             /\ Held \cap others = {} /\ Held \cap leaked = {} /\ others \cap leaked = {}

\* Seen from outside, the program closes each descriptor it has opened at
\* most once and closes none of anybody else's.
Abstract == INSTANCE Ownership WITH owned <- Held, foreign <- others, lost <- leaked

ImplementsOwnership == Abstract!Spec
=============================================================================
