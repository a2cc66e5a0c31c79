-------------------------- MODULE ConnectionProofs --------------------------
(***************************************************************************)
(* Proofs about the parts of a connection.                                 *)
(*                                                                         *)
(* Socket objects, any number of them and any descriptors: each descriptor *)
(* has one owner however the objects are moved, and the process opens and  *)
(* closes descriptors as Ownership says.                                   *)
(*                                                                         *)
(* Verbs objects, any number of them and of open scopes: HoldInv says what *)
(* every owner holds and what it was created from, and that the order of   *)
(* the members and the nesting of the scopes destroy the later first.      *)
(*                                                                         *)
(* The stream of two sockets, for any number and length of records and any *)
(* space in the kernel: StreamInv says how far one peer is behind the      *)
(* other and that what is on the way is what is read next.                 *)
(*                                                                         *)
(* Two queue pairs, for any number of calls: SetupInv relates the steps of *)
(* both ends by what each has told, heard, posted and polled.              *)
(*                                                                         *)
(* The bytes of the calls, for objects of any size: MessageInv says, for   *)
(* each stage of a call, which bytes are on the wire and in both buffers,  *)
(* and the layouts are shown to be read back as what they were built from. *)
(*                                                                         *)
(* The parts together: every behaviour of the program that uses them is    *)
(* one of each part, so that what was proved of one holds of the whole.    *)
(***************************************************************************)
EXTENDS MCConnection, FiniteSets, Sequences, SequenceTheorems, TLAPS

IInv == TypeOK /\ OneOwner /\ Accounted

LEMMA InitIInv == Init => IInv
  BY DescriptorsAssumption DEF Init, IInv, TypeOK, OneOwner, Accounted, Held

\* A descriptor is taken off the object that has it, and no other has it.
LEMMA Released ==
    ASSUME IInv, NEW o \in Live, NEW v \in {None, Dead},
           s' = [s EXCEPT ![o] = v]
    PROVE  /\ s' \in [Sockets -> Fds \cup {None, Dead}] /\ OneOwner'
           /\ Held' = Held \ {s[o]}
  <1> USE DescriptorsAssumption DEF IInv, TypeOK, Live
  <1>1. s' \in [Sockets -> Fds \cup {None, Dead}]
    OBVIOUS
  <1>2. OneOwner'
    BY DEF OneOwner
  <1>3. Held' = Held \ {s[o]}
    BY DEF Held, OneOwner
  <1> QED
    BY <1>1, <1>2, <1>3

\* A descriptor is given to an object that has none.
LEMMA Given ==
    ASSUME IInv, NEW o \in Sockets, s[o] \notin Fds, NEW fd \in Fds, fd \notin Held,
           s' = [s EXCEPT ![o] = fd]
    PROVE  /\ s' \in [Sockets -> Fds \cup {None, Dead}] /\ OneOwner'
           /\ Held' = Held \cup {fd}
  <1> USE DescriptorsAssumption DEF IInv, TypeOK
  <1>1. s' \in [Sockets -> Fds \cup {None, Dead}]
    OBVIOUS
  <1>2. OneOwner'
    BY DEF OneOwner, Held
  <1>3. Held' = Held \cup {fd}
    BY DEF Held
  <1> QED
    BY <1>1, <1>2, <1>3

\* A move changes no set of descriptors.
LEMMA Moved ==
    ASSUME IInv, NEW o \in Sockets, NEW p \in Live, MoveConstruct(o, p) \/ MoveAssign(o, p)
    PROVE  /\ s' \in [Sockets -> Fds \cup {None, Dead}] /\ OneOwner'
           /\ Held' = Held /\ UNCHANGED <<open, others, leaked>>
  <1> USE DescriptorsAssumption DEF IInv, TypeOK, Live
  <1>1. CASE MoveConstruct(o, p)
    <2>1. o # p /\ s[o] = Dead /\ s' = [s EXCEPT ![o] = s[p], ![p] = None]
      BY <1>1 DEF MoveConstruct
    <2>2. OneOwner'
      BY <2>1 DEF OneOwner
    <2>3. Held' = Held
      BY <2>1 DEF Held
    <2> QED
      BY <1>1, <2>1, <2>2, <2>3 DEF MoveConstruct
  <1>2. CASE MoveAssign(o, p)
    <2>1. s' = [s EXCEPT ![o] = s[p], ![p] = s[o]]
      BY <1>2 DEF MoveAssign
    <2>2. OneOwner'
      BY <2>1 DEF OneOwner
    <2>3. Held' = Held
      BY <2>1 DEF Held
    <2> QED
      BY <1>2, <2>1, <2>2, <2>3 DEF MoveAssign
  <1> QED
    BY <1>1, <1>2

\* What a step does to the sets of descriptors is a step of Ownership, and
\* the invariant holds again.
LEMMA Step ==
    ASSUME IInv, [Next]_vars
    PROVE  IInv' /\ [Abstract!Next]_(Abstract!vars)
  <1> USE DescriptorsAssumption
  <1> DEFINE AVars == <<Held, others, leaked>>
  <1>0. Held \subseteq Fds
    BY DEF Held
  <1>1. ASSUME NEW o \in Sockets, Default(o) PROVE IInv' /\ AVars' = AVars
    <2>1. s' = [s EXCEPT ![o] = None] /\ s[o] = Dead /\ UNCHANGED <<open, others, leaked>>
      BY <1>1 DEF Default, Live
    <2>2. Held' = Held
      BY <2>1 DEF Held, IInv, TypeOK
    <2> QED
      BY <2>1, <2>2 DEF IInv, TypeOK, OneOwner, Accounted
  <1>2. ASSUME NEW o \in Sockets, Close(o) \/ Destroy(o)
        PROVE  IInv' /\ (Abstract!Close \/ AVars' = AVars)
    <2>1. /\ o \in Live /\ open' = open \ {s[o]} /\ others' = others \ {s[o]}
          /\ UNCHANGED leaked /\ \E v \in {None, Dead} : s' = [s EXCEPT ![o] = v]
      BY <1>2 DEF Close, Destroy
    <2>2. s' \in [Sockets -> Fds \cup {None, Dead}] /\ OneOwner' /\ Held' = Held \ {s[o]}
      BY <2>1, Released
    <2>3. s[o] \notin others /\ s[o] \notin leaked
      BY <2>1 DEF IInv, TypeOK, Accounted, Held, Live
    <2>4. IInv'
      BY <2>1, <2>2, <2>3 DEF IInv, TypeOK, Accounted
    <2>5. others' = others
      BY <2>1, <2>3
    <2>6. CASE s[o] \in Fds
      <3>1. s[o] \in Held
        BY <2>6 DEF Held
      <3> QED
        BY <2>1, <2>2, <2>4, <2>5, <3>1 DEF Abstract!Close
    <2>7. CASE s[o] \notin Fds
      BY <2>1, <2>2, <2>4, <2>5, <2>7, <1>0
    <2> QED
      BY <2>6, <2>7
  <1>3. ASSUME NEW o \in Sockets, NEW fd \in Fds, FromRaw(o, fd)
        PROVE  IInv' /\ Abstract!Open
    <2>1. /\ s[o] \notin Fds /\ fd \notin open /\ open' = open \cup {fd}
          /\ s' = [s EXCEPT ![o] = fd] /\ UNCHANGED <<others, leaked>>
      BY <1>3 DEF FromRaw, Live
    <2>2. fd \notin Held \cup others \cup leaked
      BY <2>1 DEF IInv, Accounted
    <2>3. s' \in [Sockets -> Fds \cup {None, Dead}] /\ OneOwner' /\ Held' = Held \cup {fd}
      BY <2>1, <2>2, Given
    <2> QED
      BY <2>1, <2>2, <2>3 DEF IInv, TypeOK, Accounted, Abstract!Open, Abstract!Free
  <1>4. ASSUME NEW fd \in Fds, CreateThrows(fd) PROVE IInv' /\ Abstract!Lose
    <2>1. /\ fd \notin Held \cup others \cup leaked
          /\ Held' = Held /\ OneOwner' /\ UNCHANGED <<s, others>>
          /\ open' = open \cup {fd} /\ leaked' = leaked \cup {fd}
      BY <1>4 DEF CreateThrows, Held, IInv, Accounted, OneOwner
    <2> QED
      BY <2>1 DEF IInv, TypeOK, Accounted, Abstract!Lose, Abstract!Free
  <1>5. ASSUME NEW o \in Sockets, NEW p \in Sockets, MoveConstruct(o, p) \/ MoveAssign(o, p)
        PROVE  IInv' /\ AVars' = AVars
    <2>1. p \in Live
      BY <1>5 DEF MoveConstruct, MoveAssign
    <2>2. /\ s' \in [Sockets -> Fds \cup {None, Dead}] /\ OneOwner'
          /\ Held' = Held /\ UNCHANGED <<open, others, leaked>>
      BY <1>5, <2>1, Moved
    <2> QED
      BY <2>2 DEF IInv, TypeOK, Accounted
  <1>6. ASSUME NEW fd \in Fds, OthersOpen(fd) PROVE IInv' /\ Abstract!OthersOpen
    <2>1. /\ fd \notin Held \cup others \cup leaked
          /\ Held' = Held /\ OneOwner' /\ UNCHANGED <<s, leaked>>
          /\ open' = open \cup {fd} /\ others' = others \cup {fd}
      BY <1>6 DEF OthersOpen, Held, IInv, Accounted, OneOwner
    <2> QED
      BY <2>1 DEF IInv, TypeOK, Accounted, Abstract!OthersOpen, Abstract!Free
  <1>7. ASSUME NEW fd \in Fds, OthersClose(fd) PROVE IInv' /\ Abstract!OthersClose
    <2>1. /\ fd \in others /\ Held' = Held /\ OneOwner' /\ UNCHANGED <<s, leaked>>
          /\ open' = open \ {fd} /\ others' = others \ {fd}
      BY <1>7 DEF OthersClose, Held, IInv, OneOwner
    <2> QED
      BY <2>1 DEF IInv, TypeOK, Accounted, Abstract!OthersClose
  <1>8. ASSUME UNCHANGED vars PROVE IInv' /\ AVars' = AVars
    BY <1>8 DEF vars, IInv, TypeOK, OneOwner, Accounted, Held
  <1> QED
    BY <1>1, <1>2, <1>3, <1>4, <1>5, <1>6, <1>7, <1>8
    DEF Next, Create, Abstract!Next, Abstract!vars

\* Socket.cpp: no descriptor has two owners, and none is lost but by a
\* create whose setsockopt fails.
THEOREM EveryDescriptorHasOneOwner == Spec => [](TypeOK /\ OneOwner /\ Accounted)
  <1>1. IInv /\ [Next]_vars => IInv'
    BY Step
  <1> QED
    BY InitIInv, <1>1, PTL DEF Spec, IInv

\* Socket.cpp: the program closes each descriptor it has opened at most once,
\* and none of anybody else's.
THEOREM SocketsImplementOwnership == Spec => ImplementsOwnership
  <1>1. Init => Abstract!Init
    BY DescriptorsAssumption DEF Init, Held, Abstract!Init
  <1>2. IInv /\ [Next]_vars => IInv' /\ [Abstract!Next]_(Abstract!vars)
    BY Step
  <1> QED
    BY InitIInv, <1>1, <1>2, PTL DEF Spec, ImplementsOwnership, Abstract!Spec

-----------------------------------------------------------------------------
(* The verbs objects.                                                      *)

\* What the objects of a member are created from.
From(m) ==
    CASE m \in {"devices", "context"} -> {}
      [] m \in {"channel", "protectionDomain"} -> {"context"}
      [] m \in {"sendQueue", "receiveQueue"} -> {"context", "channel"}
      [] m = "sharedReceiveQueue" -> {"protectionDomain"}

\* A member holds an object of its kind, created from other members.
MemberFits(m) ==
    member[m] # Objects!NULL =>
        /\ object[member[m]] = m
        /\ uses[member[m]] = {member[n] : n \in From(m)}
        /\ \A n \in From(m) : member[n] # Objects!NULL

\* A local owner holds a connection, which is created from members, a buffer,
\* or a region over a buffer of an enclosing scope; and no other holds that.
ScopeFits(i) ==
    scopes[i] # Objects!NULL =>
        /\ \/ /\ object[scopes[i]] = "queuePair"
              /\ uses[scopes[i]] \subseteq {member[m] : m \in Objects!Members}
           \/ object[scopes[i]] = "memory" /\ uses[scopes[i]] = {}
           \/ /\ object[scopes[i]] = "memoryRegion"
              /\ \E j \in 1 .. (i - 1) :
                    /\ scopes[j] # Objects!NULL /\ object[scopes[j]] = "memory"
                    /\ uses[scopes[i]] = {member["protectionDomain"], scopes[j]}
        /\ \A j \in DOMAIN scopes : scopes[j] = scopes[i] => j = i

\* Which members there are while the Network is built, used and destroyed.
PhaseFits ==
    /\ phase \in {"running", "unwinding"} =>
           \A m \in Objects!Members : member[m] # Objects!NULL
    /\ phase \notin {"running", "unwinding"} => scopes = << >>
    /\ phase = "constructing" =>
           \A m \in Objects!Members :
               member[m] # Objects!NULL
                   <=> \E i \in 1 .. (step - 1) : Objects!Construction[i] = m
    /\ phase = "destroying" =>
           \A m \in Objects!Members : \A i \in 1 .. (step - 1) :
               Objects!Destruction[i] = m => member[m] = Objects!NULL
    /\ phase \in {"running", "unwinding"} => step = 1

\* The inductive invariant.
HoldInv ==
    /\ Objects!TypeOK
    /\ \A m \in Objects!Members : MemberFits(m)
    /\ \A i \in DOMAIN scopes : ScopeFits(i)
    /\ Objects!Live \subseteq Objects!Held
    /\ PhaseFits

\* Nothing is there before the constructor of the Network begins.
LEMMA HoldInit == Objects!Init => HoldInv
<1> SUFFICES ASSUME Objects!Init PROVE HoldInv
  OBVIOUS
<1>1. /\ object = [h \in Handles |-> "none"] /\ uses = [h \in Handles |-> {}]
      /\ member = [m \in Objects!Members |-> Objects!NULL] /\ scopes = << >>
      /\ phase = "constructing" /\ step = 1 /\ unacked = 0
  BY DEF Objects!Init
<1>2. Objects!TypeOK
  BY <1>1, PartsAssumption DEF Objects!TypeOK, Objects!VerbsAssumption, Objects!Construction
<1>3. Objects!Live = {}
  BY <1>1 DEF Objects!Live
<1>4. \A m \in Objects!Members : MemberFits(m)
  BY <1>1 DEF MemberFits
<1>5. PhaseFits
  BY <1>1 DEF PhaseFits
<1> QED
  BY <1>1, <1>2, <1>3, <1>4, <1>5 DEF HoldInv

\* What the invariant says of the parts of a state, without case distinctions.
LEMMA HoldFacts ==
    ASSUME HoldInv
    PROVE  /\ object \in [Handles -> Objects!Members
                             \cup {"queuePair", "memory", "memoryRegion", "none"}]
           /\ uses \in [Handles -> SUBSET Handles]
           /\ member \in [Objects!Members -> Handles \cup {Objects!NULL}]
           /\ scopes \in Seq(Handles \cup {Objects!NULL})
           /\ Len(scopes) \in Nat /\ DOMAIN scopes = 1 .. Len(scopes)
           /\ \A i \in 1 .. Len(scopes) : scopes[i] \in Handles \cup {Objects!NULL}
           /\ step \in 1 .. 8 /\ unacked \in 0 .. MaxEvents
           /\ Objects!NULL \notin Handles /\ MaxScopes \in Nat /\ MaxEvents \in Nat
  BY PartsAssumption DEF HoldInv, Objects!TypeOK, Objects!VerbsAssumption, Objects!Construction

\* Nobody holds an object that is not there, and members and local owners hold
\* different objects.
LEMMA HeldObjects ==
    ASSUME HoldInv
    PROVE  /\ \A m \in Objects!Members : member[m] # Objects!NULL =>
                  member[m] \in Handles /\ object[member[m]] = m
           /\ \A i \in 1 .. Len(scopes) : scopes[i] # Objects!NULL =>
                  /\ scopes[i] \in Handles
                  /\ object[scopes[i]] \in {"queuePair", "memory", "memoryRegion"}
                  /\ \A j \in 1 .. Len(scopes) : scopes[j] = scopes[i] => j = i
           /\ \A h \in Handles : object[h] # "none" =>
                  \/ \E m \in Objects!Members : member[m] = h
                  \/ \E i \in 1 .. Len(scopes) : scopes[i] = h
<1>1. \A m \in Objects!Members : member[m] # Objects!NULL =>
          member[m] \in Handles /\ object[member[m]] = m
  BY HoldFacts DEF HoldInv, MemberFits
<1>2. \A i \in 1 .. Len(scopes) : scopes[i] # Objects!NULL =>
          /\ scopes[i] \in Handles
          /\ object[scopes[i]] \in {"queuePair", "memory", "memoryRegion"}
          /\ \A j \in 1 .. Len(scopes) : scopes[j] = scopes[i] => j = i
  BY HoldFacts DEF HoldInv, ScopeFits
<1>3. ASSUME NEW h \in Handles, object[h] # "none"
      PROVE  \/ \E m \in Objects!Members : member[m] = h
             \/ \E i \in 1 .. Len(scopes) : scopes[i] = h
  <2>1. h \in Objects!Held
    BY <1>3 DEF HoldInv, Objects!Live
  <2> QED
    BY <2>1, HoldFacts DEF Objects!Held
<1> QED
  BY <1>1, <1>2, <1>3

\* Only members and buffers have something created from them: the first by later
\* members and by local owners, the second by the regions of inner scopes.
LEMMA UsedObjects ==
    ASSUME HoldInv, NEW h \in Handles, NEW g \in Handles, object[g] # "none", h \in uses[g]
    PROVE  \/ /\ \E n \in Objects!Members : g = member[n] /\ \E m \in From(n) : h = member[m]
           \/ \E i \in 1 .. Len(scopes) :
                 /\ g = scopes[i]
                 /\ \/ \E m \in Objects!Members : h = member[m]
                    \/ /\ object[g] = "memoryRegion"
                       /\ \E j \in 1 .. (i - 1) : h = scopes[j] /\ object[h] = "memory"
<1>1. CASE \E n \in Objects!Members : member[n] = g
  <2>1. PICK n \in Objects!Members : member[n] = g
    BY <1>1
  <2>2. uses[g] = {member[m] : m \in From(n)}
    BY <2>1, HoldFacts DEF HoldInv, MemberFits
  <2> QED
    BY <2>1, <2>2
<1>2. CASE \E i \in 1 .. Len(scopes) : scopes[i] = g
  <2>1. PICK i \in 1 .. Len(scopes) : scopes[i] = g
    BY <1>2
  <2>2. ScopeFits(i) /\ g # Objects!NULL
    BY <2>1, HoldFacts DEF HoldInv
  <2>3. CASE uses[g] \subseteq {member[m] : m \in Objects!Members}
    BY <2>1, <2>3
  <2>4. CASE uses[g] = {}
    BY <2>4
  <2>5. CASE /\ object[g] = "memoryRegion"
             /\ \E j \in 1 .. (i - 1) :
                   /\ scopes[j] # Objects!NULL /\ object[scopes[j]] = "memory"
                   /\ uses[g] = {member["protectionDomain"], scopes[j]}
    <3>1. "protectionDomain" \in Objects!Members
      BY DEF Objects!Members
    <3> QED
      BY <2>1, <2>5, <3>1
  <2> QED
    BY <2>1, <2>2, <2>3, <2>4, <2>5 DEF ScopeFits
<1> QED
  BY <1>1, <1>2, HeldObjects

\* The invariant, in the words of the property that the run checks.
LEMMA HoldMeans == ASSUME HoldInv PROVE ObjectsHeld
<1>1. Objects!NothingForgotten
  BY DEF HoldInv, Objects!NothingForgotten
<1>2. Objects!OneOwner
  <2>1. ASSUME NEW h \in Objects!Held \ {Objects!NULL} PROVE h \in Objects!Live
    <3>1. CASE \E m \in Objects!Members : h = member[m]
      BY <2>1, <3>1, HeldObjects DEF Objects!Live, Objects!Members
    <3>2. CASE \E i \in 1 .. Len(scopes) : h = scopes[i]
      BY <2>1, <3>2, HeldObjects DEF Objects!Live
    <3> QED
      BY <2>1, <3>1, <3>2, HoldFacts DEF Objects!Held
  <2>2. ASSUME NEW i \in 1 .. Len(scopes), scopes[i] # Objects!NULL, NEW m \in Objects!Members
        PROVE  member[m] # scopes[i]
    BY <2>2, HeldObjects DEF Objects!Members
  <2> QED
    BY <2>1, <2>2, HeldObjects, HoldFacts DEF Objects!OneOwner
<1>3. Objects!RegionsCoverLiveMemory
  <2> SUFFICES ASSUME NEW r \in Handles, object[r] = "memoryRegion"
               PROVE  \E m \in uses[r] : object[m] = "memory"
    BY DEF Objects!RegionsCoverLiveMemory, Objects!Live
  <2>1. ~ \E m \in Objects!Members : member[m] = r
    BY HeldObjects, HoldFacts DEF Objects!Members
  <2>2. PICK i \in 1 .. Len(scopes) : scopes[i] = r
    BY <2>1, HeldObjects
  <2>3. ScopeFits(i) /\ scopes[i] # Objects!NULL
    BY <2>2, HoldFacts DEF HoldInv
  <2> QED
    BY <2>2, <2>3 DEF ScopeFits
<1> QED
  BY <1>1, <1>2, <1>3 DEF ObjectsHeld

\* Every member is built after those it is created from, and is destroyed before
\* them.
LEMMA Orders ==
    /\ Len(Objects!Construction) = 8 /\ Len(Objects!Destruction) = 8
    /\ \A i, j \in 1 .. 8 : Objects!Construction[i] = Objects!Construction[j] => i = j
    /\ \A m \in Objects!Members : \E i \in 1 .. 8 : Objects!Construction[i] = m
    /\ \A m \in Objects!Members : \A n \in From(m) : \A i \in 1 .. 8 :
           Objects!Construction[i] = m =>
               n \in Objects!Members /\ \E j \in 1 .. (i - 1) : Objects!Construction[j] = n
    /\ \A m \in Objects!Members : \E i \in 1 .. 8 : Objects!Destruction[i] = m
    /\ \A n \in Objects!Members : \A m \in From(n) : \A i \in 1 .. 8 :
           Objects!Destruction[i] = m => \E j \in 1 .. (i - 1) : Objects!Destruction[j] = n
    /\ \A i \in 1 .. 8 : Objects!Destruction[i] \in Objects!Members \cup {"ack"}
<1> DEFINE c == Objects!Construction
           d == Objects!Destruction
<1>1. /\ c[1] = "devices" /\ c[2] = "context" /\ c[3] = "channel" /\ c[4] = "sendQueue"
      /\ c[5] = "receiveQueue" /\ c[6] = "notify" /\ c[7] = "protectionDomain"
      /\ c[8] = "sharedReceiveQueue" /\ Len(c) = 8
  BY DEF Objects!Construction
<1>2. /\ d[1] = "sharedReceiveQueue" /\ d[2] = "ack" /\ d[3] = "receiveQueue"
      /\ d[4] = "sendQueue" /\ d[5] = "channel" /\ d[6] = "protectionDomain"
      /\ d[7] = "context" /\ d[8] = "devices" /\ Len(d) = 8
  BY DEF Objects!Destruction
<1> HIDE DEF c, d
<1>3. \A i, j \in 1 .. 8 : c[i] = c[j] => i = j
  BY <1>1
<1>4. \A m \in Objects!Members : \E i \in 1 .. 8 : c[i] = m
  BY <1>1 DEF Objects!Members
<1>5. \A m \in Objects!Members : \E i \in 1 .. 8 : d[i] = m
  BY <1>2 DEF Objects!Members
<1>6. \A i \in 1 .. 8 : d[i] \in Objects!Members \cup {"ack"}
  BY <1>2 DEF Objects!Members
<1>7. ASSUME NEW m \in Objects!Members, NEW n \in From(m), NEW i \in 1 .. 8, c[i] = m
      PROVE  n \in Objects!Members /\ \E j \in 1 .. (i - 1) : c[j] = n
  BY <1>1, <1>7 DEF Objects!Members, From
<1>8. ASSUME NEW n \in Objects!Members, NEW m \in From(n), NEW i \in 1 .. 8, d[i] = m
      PROVE  \E j \in 1 .. (i - 1) : d[j] = n
  BY <1>2, <1>8 DEF Objects!Members, From
<1> QED
  BY <1>1, <1>2, <1>3, <1>4, <1>5, <1>6, <1>7, <1>8 DEF c, d

\* Members are created from members.
LEMMA FromMembers == \A m \in Objects!Members : From(m) \subseteq Objects!Members
  BY DEF Objects!Members, From

\* A new object is one that nobody holds.
LEMMA FreshIsNew ==
    ASSUME HoldInv, Objects!Live # Handles
    PROVE  /\ Objects!Fresh \in Handles /\ object[Objects!Fresh] = "none"
           /\ Objects!Fresh # Objects!NULL
           /\ \A m \in Objects!Members : member[m] # Objects!Fresh
           /\ \A i \in 1 .. Len(scopes) : scopes[i] # Objects!Fresh
<1>1. \E h \in Handles : object[h] = "none"
  BY DEF Objects!Live
<1>2. Objects!Fresh \in Handles /\ object[Objects!Fresh] = "none"
  BY <1>1 DEF Objects!Fresh
<1>3. Objects!Fresh # Objects!NULL
  BY <1>2, HoldFacts
<1>4. \A m \in Objects!Members : member[m] # Objects!Fresh
  BY <1>2, <1>3, HeldObjects DEF Objects!Members
<1> QED
  BY <1>2, <1>3, <1>4, HeldObjects

\* Members that keep their objects fit as before.
LEMMA MembersKeep ==
    ASSUME HoldInv, member' = member,
           \A m \in Objects!Members : member[m] # Objects!NULL =>
               object'[member[m]] = object[member[m]] /\ uses'[member[m]] = uses[member[m]]
    PROVE  \A m \in Objects!Members : MemberFits(m)'
  BY DEF HoldInv, MemberFits

\* A local owner that keeps its object, and below which buffers stay, fits as
\* before.
LEMMA ScopeKeeps ==
    ASSUME HoldInv, member' = member, NEW i \in 1 .. Len(scopes),
           scopes'[i] = scopes[i],
           scopes[i] # Objects!NULL =>
               /\ object'[scopes[i]] = object[scopes[i]] /\ uses'[scopes[i]] = uses[scopes[i]]
               /\ \A j \in DOMAIN scopes' : scopes'[j] = scopes[i] => j = i,
           \A j \in 1 .. (i - 1) : scopes[j] # Objects!NULL /\ object[scopes[j]] = "memory" =>
               scopes'[j] = scopes[j] /\ object'[scopes[j]] = "memory"
    PROVE  ScopeFits(i)'
<1> SUFFICES ASSUME scopes[i] # Objects!NULL PROVE ScopeFits(i)'
  BY DEF ScopeFits
<1>1. ScopeFits(i)
  BY HoldFacts DEF HoldInv
<1>2. CASE /\ object[scopes[i]] = "queuePair"
           /\ uses[scopes[i]] \subseteq {member[m] : m \in Objects!Members}
  BY <1>2 DEF ScopeFits
<1>3. CASE object[scopes[i]] = "memory" /\ uses[scopes[i]] = {}
  BY <1>3 DEF ScopeFits
<1>4. CASE /\ object[scopes[i]] = "memoryRegion"
           /\ \E j \in 1 .. (i - 1) :
                 /\ scopes[j] # Objects!NULL /\ object[scopes[j]] = "memory"
                 /\ uses[scopes[i]] = {member["protectionDomain"], scopes[j]}
  BY <1>4 DEF ScopeFits
<1> QED
  BY <1>1, <1>2, <1>3, <1>4 DEF ScopeFits

\* A scope is entered with an object of its own.
LEMMA EnterKeeps ==
    ASSUME HoldInv, NEW k, NEW from, Objects!Enter(k, from),
           \/ k = "queuePair" /\ from \subseteq {member[m] : m \in Objects!Members}
           \/ k = "memory" /\ from = {}
           \/ /\ k = "memoryRegion"
              /\ \E j \in 1 .. Len(scopes) :
                    /\ scopes[j] # Objects!NULL /\ object[scopes[j]] = "memory"
                    /\ from = {member["protectionDomain"], scopes[j]}
    PROVE  HoldInv'
<1> DEFINE f == Objects!Fresh
           n == Len(scopes)
<1>1. /\ phase = "running" /\ n < MaxScopes /\ Objects!Live # Handles
      /\ object' = [object EXCEPT ![f] = k] /\ uses' = [uses EXCEPT ![f] = from]
      /\ scopes' = Append(scopes, f) /\ member' = member
      /\ phase' = phase /\ step' = step /\ unacked' = unacked
  BY DEF Objects!Enter, Objects!Create
<1>2. /\ f \in Handles /\ object[f] = "none" /\ f # Objects!NULL
      /\ \A m \in Objects!Members : member[m] # f
      /\ \A i \in 1 .. n : scopes[i] # f
  BY <1>1, FreshIsNew
<1>3. \A m \in Objects!Members : member[m] \in Handles
  BY <1>1, HoldFacts DEF HoldInv, PhaseFits
<1>4. from \subseteq Handles
        /\ k \in Objects!Members \cup {"queuePair", "memory", "memoryRegion", "none"}
  <2>1. "protectionDomain" \in Objects!Members
    BY DEF Objects!Members
  <2> QED
    BY <1>3, <2>1, HoldFacts
<1> HIDE DEF f
<1>5. /\ Len(scopes') = n + 1 /\ DOMAIN scopes' = 1 .. (n + 1)
      /\ scopes'[n + 1] = f /\ \A i \in 1 .. n : scopes'[i] = scopes[i]
      /\ scopes' \in Seq(Handles \cup {Objects!NULL}) /\ n \in Nat
  BY <1>1, <1>2, HoldFacts
<1>6. Objects!TypeOK'
  <2>1. /\ object' \in [Handles -> Objects!Members
                             \cup {"queuePair", "memory", "memoryRegion", "none"}]
        /\ uses' \in [Handles -> SUBSET Handles]
    BY <1>1, <1>4, HoldFacts
  <2> QED
    BY <1>1, <1>5, <2>1, HoldFacts DEF HoldInv, Objects!TypeOK
<1>7. \A h \in Handles : h # f => object'[h] = object[h] /\ uses'[h] = uses[h]
  BY <1>1, <1>2, HoldFacts
<1>8. object'[f] = k /\ uses'[f] = from
  BY <1>1, <1>2, HoldFacts
<1>9. \A m \in Objects!Members : MemberFits(m)'
  BY <1>1, <1>2, <1>3, <1>7, MembersKeep
<1>10. ASSUME NEW i \in 1 .. n PROVE ScopeFits(i)'
  <2>1. \A j \in 1 .. n : scopes[j] # Objects!NULL =>
            /\ object'[scopes[j]] = object[scopes[j]] /\ uses'[scopes[j]] = uses[scopes[j]]
    BY <1>2, <1>7, HeldObjects
  <2>2. \A j \in 1 .. (i - 1) : j \in 1 .. n
    BY <1>5
  <2>3. ASSUME scopes[i] # Objects!NULL, NEW j \in 1 .. (n + 1), scopes'[j] = scopes[i]
        PROVE  j = i
    <3>1. j # n + 1
      BY <1>2, <1>5, <2>3
    <3>2. j \in 1 .. n
      BY <1>5, <3>1
    <3> QED
      BY <1>5, <2>3, <3>2, HeldObjects
  <2>4. \A j \in 1 .. (i - 1) : scopes[j] # Objects!NULL /\ object[scopes[j]] = "memory" =>
            scopes'[j] = scopes[j] /\ object'[scopes[j]] = "memory"
    BY <1>5, <2>1, <2>2
  <2>5. scopes[i] # Objects!NULL =>
            /\ object'[scopes[i]] = object[scopes[i]] /\ uses'[scopes[i]] = uses[scopes[i]]
            /\ \A j \in DOMAIN scopes' : scopes'[j] = scopes[i] => j = i
    BY <1>5, <2>1, <2>3
  <2>6. i \in 1 .. Len(scopes) /\ scopes'[i] = scopes[i] /\ member' = member
    BY <1>1, <1>5
  <2> QED
    BY <2>4, <2>5, <2>6, ScopeKeeps
<1>11. ASSUME NEW i, i = n + 1 PROVE ScopeFits(i)'
  <2>1. \A j \in DOMAIN scopes' : scopes'[j] = f => j = i
    <3>1. ASSUME NEW j \in 1 .. (n + 1), j # n + 1 PROVE scopes'[j] # f
      <4>1. j \in 1 .. n
        BY <1>5, <3>1
      <4> QED
        BY <1>2, <1>5, <4>1
    <3> QED
      BY <1>5, <1>11, <3>1
  <2>2. CASE k = "queuePair" /\ from \subseteq {member[m] : m \in Objects!Members}
    BY <1>1, <1>5, <1>8, <1>11, <2>1, <2>2 DEF ScopeFits
  <2>3. CASE k = "memory" /\ from = {}
    BY <1>1, <1>5, <1>8, <1>11, <2>1, <2>3 DEF ScopeFits
  <2>4. CASE /\ k = "memoryRegion"
             /\ \E j \in 1 .. n :
                   /\ scopes[j] # Objects!NULL /\ object[scopes[j]] = "memory"
                   /\ from = {member["protectionDomain"], scopes[j]}
    <3>1. PICK j \in 1 .. n : /\ scopes[j] # Objects!NULL /\ object[scopes[j]] = "memory"
                              /\ from = {member["protectionDomain"], scopes[j]}
      BY <2>4
    <3>2. scopes'[j] = scopes[j] /\ object'[scopes[j]] = "memory" /\ j \in 1 .. (i - 1)
      BY <1>2, <1>5, <1>7, <1>11, <3>1, HeldObjects
    <3> QED
      BY <1>1, <1>5, <1>8, <1>11, <2>1, <2>4, <3>1, <3>2 DEF ScopeFits
  <2> QED
    BY <2>2, <2>3, <2>4
<1>12. ASSUME NEW h \in Handles, object'[h] # "none" PROVE h \in Objects!Held'
  <2>1. CASE h = f
    BY <1>5, <2>1 DEF Objects!Held
  <2>2. CASE h # f
    <3>1. \/ \E m \in Objects!Members : member[m] = h
          \/ \E i \in 1 .. n : scopes[i] = h
      BY <1>7, <1>12, <2>2, HeldObjects
    <3> QED
      BY <1>1, <1>5, <3>1 DEF Objects!Held
  <2> QED
    BY <2>1, <2>2
<1>13. PhaseFits'
  BY <1>1 DEF HoldInv, PhaseFits
<1>14. \A i \in DOMAIN scopes' : ScopeFits(i)'
  <2>1. ASSUME NEW i \in 1 .. (n + 1) PROVE i \in 1 .. n \/ i = n + 1
    BY <1>5
  <2> QED
    BY <1>5, <1>10, <1>11, <2>1
<1>15. (Objects!Live \subseteq Objects!Held)'
  BY <1>12 DEF Objects!Live
<1> QED
  BY <1>6, <1>9, <1>13, <1>14, <1>15 DEF HoldInv

\* An object that nothing was created from goes, and the others stay.
LEMMA DeleteClears ==
    ASSUME HoldInv, NEW h \in Handles \cup {Objects!NULL}, Objects!Delete(h),
           \A g \in Handles : object[g] # "none" => h \notin uses[g]
    PROVE  /\ object' \in [Handles -> Objects!Members
                              \cup {"queuePair", "memory", "memoryRegion", "none"}]
           /\ uses' \in [Handles -> SUBSET Handles]
           /\ h # Objects!NULL => object'[h] = "none"
           /\ \A g \in Handles : g # h => object'[g] = object[g] /\ uses'[g] = uses[g]
<1>1. CASE h = Objects!NULL
  BY <1>1, HoldFacts DEF Objects!Delete
<1>2. CASE h # Objects!NULL
  <2>1. ~ Objects!Refused(h)
    BY DEF Objects!Refused, Objects!Live
  <2>2. object' = [object EXCEPT ![h] = "none"] /\ uses' = [uses EXCEPT ![h] = {}]
    BY <1>2, <2>1 DEF Objects!Delete
  <2> QED
    BY <1>2, <2>2, HoldFacts
<1> QED
  BY <1>1, <1>2

\* A sequence without its last element.
LEMMA WithoutLast ==
    ASSUME NEW S, NEW list \in Seq(S), list # << >>
    PROVE  /\ SubSeq(list, 1, Len(list) - 1) \in Seq(S)
           /\ Len(SubSeq(list, 1, Len(list) - 1)) = Len(list) - 1
           /\ DOMAIN SubSeq(list, 1, Len(list) - 1) = 1 .. (Len(list) - 1)
           /\ \A i \in 1 .. (Len(list) - 1) : SubSeq(list, 1, Len(list) - 1)[i] = list[i]
<1> DEFINE shorter == SubSeq(list, 1, Len(list) - 1)
<1>1. /\ Len(list) \in Nat /\ Len(list) > 0 /\ 1 \in Int /\ Len(list) - 1 \in Int
      /\ \A i \in 1 .. (Len(list) - 1) : list[i] \in S
  OBVIOUS
<1>2. /\ shorter \in Seq(S) /\ Len(shorter) = IF 1 <= Len(list) - 1 THEN (Len(list) - 1) - 1 + 1 ELSE 0
      /\ \A i \in 1 .. ((Len(list) - 1) - 1 + 1) : shorter[i] = list[1 + i - 1]
  BY <1>1, SubSeqProperties
<1> HIDE DEF shorter
<1>3. Len(shorter) = Len(list) - 1
  <2>1. \A k \in Nat : k > 0 => (IF 1 <= k - 1 THEN (k - 1) - 1 + 1 ELSE 0) = k - 1
    OBVIOUS
  <2> QED
    BY <1>1, <1>2, <2>1
<1>4. \A i \in 1 .. (Len(list) - 1) : shorter[i] = list[i]
  BY <1>1, <1>2
<1>5. DOMAIN shorter = 1 .. Len(shorter)
  BY <1>2
<1> QED
  BY <1>2, <1>3, <1>4, <1>5 DEF shorter

\* What a step does that leaves a scope: what was innermost is destroyed.
LEMMA LeaveKeeps ==
    ASSUME HoldInv, phase \in {"running", "unwinding"}, phase' = phase, Objects!Leave
    PROVE  HoldInv'
<1> DEFINE n == Len(scopes)
           h == scopes[n]
<1>1. /\ Objects!Delete(h) /\ scopes' = SubSeq(scopes, 1, n - 1) /\ scopes # << >>
      /\ member' = member /\ step' = step /\ unacked' = unacked
  BY DEF Objects!Leave
<1>2. n \in Nat \ {0} /\ n \in 1 .. n /\ h \in Handles \cup {Objects!NULL}
  BY <1>1, HoldFacts
<1>3. ASSUME NEW g \in Handles, object[g] # "none", h \in uses[g] PROVE FALSE
  <2>1. h \in Handles /\ h # Objects!NULL
    BY <1>3, HoldFacts
  <2>2. ~ \E m \in Objects!Members : h = member[m]
    BY <1>2, <2>1, HeldObjects DEF Objects!Members
  <2>3. \A m \in Objects!Members : From(m) \subseteq Objects!Members
    BY Orders
  <2>4. PICK i \in 1 .. n : \E j \in 1 .. (i - 1) : h = scopes[j]
    BY <1>3, <2>1, <2>2, <2>3, UsedObjects
  <2>5. PICK j \in 1 .. (i - 1) : h = scopes[j]
    BY <2>4
  <2>6. j \in 1 .. n /\ j # n
    BY <1>2
  <2> QED
    BY <1>2, <2>1, <2>5, <2>6, HeldObjects
<1>4. /\ object' \in [Handles -> Objects!Members
                         \cup {"queuePair", "memory", "memoryRegion", "none"}]
      /\ uses' \in [Handles -> SUBSET Handles]
      /\ h # Objects!NULL => object'[h] = "none"
      /\ \A g \in Handles : g # h => object'[g] = object[g] /\ uses'[g] = uses[g]
  BY <1>1, <1>2, <1>3, DeleteClears
<1> HIDE DEF h
<1>5. /\ Len(scopes') = n - 1 /\ DOMAIN scopes' = 1 .. (n - 1)
      /\ \A i \in 1 .. (n - 1) : scopes'[i] = scopes[i] /\ i \in 1 .. n /\ i # n
      /\ scopes' \in Seq(Handles \cup {Objects!NULL})
  <2>1. \A i \in 1 .. (n - 1) : i \in 1 .. n /\ i # n
    BY <1>2
  <2> QED
    BY <1>1, <2>1, HoldFacts, WithoutLast
<1>6. \A i \in 1 .. (n - 1) : scopes[i] # Objects!NULL => scopes[i] # h /\ scopes[i] \in Handles
  BY <1>2, <1>5, HeldObjects DEF h
<1>7. Objects!TypeOK'
  <2>1. Len(scopes') <= MaxScopes
    BY <1>2, <1>5, HoldFacts DEF HoldInv, Objects!TypeOK
  <2> QED
    BY <1>1, <1>4, <1>5, <2>1 DEF HoldInv, Objects!TypeOK
<1>8. \A m \in Objects!Members : member[m] # Objects!NULL => member[m] # h /\ member[m] \in Handles
  BY <1>2, HeldObjects DEF Objects!Members, h
<1>9. \A m \in Objects!Members : MemberFits(m)'
  BY <1>1, <1>4, <1>8, MembersKeep
<1>10. ASSUME NEW i \in 1 .. (n - 1) PROVE ScopeFits(i)'
  <2>1. \A j \in 1 .. (i - 1) : scopes[j] # Objects!NULL /\ object[scopes[j]] = "memory" =>
            scopes'[j] = scopes[j] /\ object'[scopes[j]] = "memory"
    <3>1. \A j \in 1 .. (i - 1) : j \in 1 .. (n - 1)
      BY <1>2
    <3> QED
      BY <1>4, <1>5, <1>6, <3>1
  <2>2. scopes[i] # Objects!NULL =>
            /\ object'[scopes[i]] = object[scopes[i]] /\ uses'[scopes[i]] = uses[scopes[i]]
            /\ \A j \in DOMAIN scopes' : scopes'[j] = scopes[i] => j = i
    <3>1. ASSUME scopes[i] # Objects!NULL, NEW j \in 1 .. (n - 1), scopes'[j] = scopes[i]
          PROVE  j = i
      BY <1>5, <3>1, HeldObjects
    <3> QED
      BY <1>4, <1>5, <1>6, <3>1
  <2>3. i \in 1 .. Len(scopes) /\ scopes'[i] = scopes[i] /\ member' = member
    BY <1>1, <1>5
  <2> QED
    BY <2>1, <2>2, <2>3, ScopeKeeps
<1>11. ASSUME NEW g \in Handles, object'[g] # "none" PROVE g \in Objects!Held'
  <2>1. g # h /\ object[g] # "none"
    BY <1>4, <1>11, HoldFacts
  <2>2. CASE \E m \in Objects!Members : member[m] = g
    BY <1>1, <2>2 DEF Objects!Held
  <2>3. CASE \E i \in 1 .. n : scopes[i] = g
    <3>1. PICK i \in 1 .. n : scopes[i] = g
      BY <2>3
    <3>2. i # n
      BY <2>1, <3>1 DEF h
    <3>3. i \in 1 .. (n - 1)
      BY <1>2, <3>2
    <3> QED
      BY <1>5, <3>1, <3>3 DEF Objects!Held
  <2> QED
    BY <2>1, <2>2, <2>3, HeldObjects
<1>12. PhaseFits'
  BY <1>1 DEF HoldInv, PhaseFits
<1>13. (Objects!Live \subseteq Objects!Held)'
  BY <1>11 DEF Objects!Live
<1> QED
  BY <1>5, <1>7, <1>9, <1>10, <1>12, <1>13 DEF HoldInv

\* A connection takes the place of an earlier one, which is destroyed.
LEMMA ReplaceKeeps == ASSUME HoldInv, Objects!ReplaceConnection PROVE HoldInv'
<1> DEFINE n == Len(scopes)
<1>1. /\ phase = "running" /\ member' = member /\ phase' = phase /\ step' = step
      /\ unacked' = unacked
  BY DEF Objects!ReplaceConnection
<1>2. PICK c \in 1 .. (n - 1) :
          /\ \A i \in {c, n} : scopes[i] # Objects!NULL /\ object[scopes[i]] = "queuePair"
          /\ Objects!Delete(scopes[c])
          /\ scopes' = [scopes EXCEPT ![c] = scopes[n], ![n] = Objects!NULL]
  BY DEF Objects!ReplaceConnection
<1>3. /\ n \in Nat /\ c \in 1 .. n /\ n \in 1 .. n /\ c # n
      /\ scopes[c] \in Handles /\ scopes[n] \in Handles /\ scopes[c] # scopes[n]
  BY <1>2, HoldFacts, HeldObjects
<1>4. ASSUME NEW g \in Handles, object[g] # "none", scopes[c] \in uses[g] PROVE FALSE
  <2>1. ~ \E m \in Objects!Members : scopes[c] = member[m]
    BY <1>2, <1>3, HeldObjects DEF Objects!Members
  <2>2. \A m \in Objects!Members : From(m) \subseteq Objects!Members
    BY Orders
  <2> QED
    BY <1>2, <1>3, <1>4, <2>1, <2>2, UsedObjects
<1>5. /\ object' \in [Handles -> Objects!Members
                         \cup {"queuePair", "memory", "memoryRegion", "none"}]
      /\ uses' \in [Handles -> SUBSET Handles]
      /\ object'[scopes[c]] = "none"
      /\ \A g \in Handles : g # scopes[c] => object'[g] = object[g] /\ uses'[g] = uses[g]
  BY <1>2, <1>3, <1>4, DeleteClears
<1>6. /\ DOMAIN scopes' = 1 .. n /\ Len(scopes') = n
      /\ scopes' \in Seq(Handles \cup {Objects!NULL})
      /\ scopes'[c] = scopes[n] /\ scopes'[n] = Objects!NULL
      /\ \A i \in 1 .. n : i # c /\ i # n => scopes'[i] = scopes[i]
  BY <1>2, <1>3, HoldFacts
<1>7. \A i \in 1 .. n : scopes[i] # Objects!NULL /\ i # c =>
          /\ scopes[i] # scopes[c] /\ scopes[i] \in Handles
          /\ object'[scopes[i]] = object[scopes[i]] /\ uses'[scopes[i]] = uses[scopes[i]]
  BY <1>3, <1>5, HeldObjects
<1>8. Objects!TypeOK'
  BY <1>1, <1>5, <1>6, HoldFacts DEF HoldInv, Objects!TypeOK
<1>9. \A m \in Objects!Members : MemberFits(m)'
  <2>1. \A m \in Objects!Members : member[m] # Objects!NULL =>
            member[m] # scopes[c] /\ member[m] \in Handles
    BY <1>2, <1>3, HeldObjects DEF Objects!Members
  <2> QED
    BY <1>1, <1>5, <2>1, MembersKeep
<1>10. ASSUME NEW i \in 1 .. n, i # c, i # n PROVE ScopeFits(i)'
  <2>1. ASSUME NEW j \in 1 .. (i - 1), scopes[j] # Objects!NULL, object[scopes[j]] = "memory"
        PROVE  scopes'[j] = scopes[j] /\ object'[scopes[j]] = "memory"
    <3>1. j \in 1 .. n /\ j # n
      BY <1>3
    <3>2. j # c
      BY <1>2, <2>1
    <3> QED
      BY <1>6, <1>7, <2>1, <3>1, <3>2
  <2>2. ASSUME scopes[i] # Objects!NULL, NEW j \in 1 .. n, scopes'[j] = scopes[i]
        PROVE  j = i
    <3>1. j # n
      BY <1>6, <2>2
    <3>2. j # c
      BY <1>3, <1>6, <1>10, <2>2, HeldObjects
    <3>3. scopes[j] = scopes[i]
      BY <1>6, <2>2, <3>1, <3>2
    <3> QED
      BY <2>2, <3>3, HeldObjects
  <2>3. scopes[i] # Objects!NULL =>
            /\ object'[scopes[i]] = object[scopes[i]] /\ uses'[scopes[i]] = uses[scopes[i]]
            /\ \A j \in DOMAIN scopes' : scopes'[j] = scopes[i] => j = i
    BY <1>6, <1>7, <1>10, <2>2
  <2>4. i \in 1 .. Len(scopes) /\ scopes'[i] = scopes[i] /\ member' = member
    BY <1>1, <1>6, <1>10
  <2> QED
    BY <2>1, <2>3, <2>4, ScopeKeeps
<1>11. ScopeFits(c)'
  <2>1. ScopeFits(n)
    BY <1>3, HoldFacts DEF HoldInv
  <2>2. uses[scopes[n]] \subseteq {member[m] : m \in Objects!Members}
    BY <1>2, <2>1 DEF ScopeFits
  <2>3. object'[scopes[n]] = "queuePair" /\ uses'[scopes[n]] = uses[scopes[n]]
    BY <1>2, <1>3, <1>7
  <2>4. \A j \in 1 .. n : scopes'[j] = scopes[n] => j = c
    BY <1>2, <1>3, <1>6, HeldObjects
  <2>5. (/\ object[scopes[c]] = "queuePair"
         /\ uses[scopes[c]] \subseteq {member[m] : m \in Objects!Members})'
    BY <1>1, <1>6, <2>2, <2>3
  <2> QED
    BY <1>6, <2>4, <2>5 DEF ScopeFits
<1>12. ASSUME NEW i \in 1 .. n, i = n PROVE ScopeFits(i)'
  BY <1>6, <1>12 DEF ScopeFits
<1>13. ASSUME NEW g \in Handles, object'[g] # "none" PROVE g \in Objects!Held'
  <2>1. g # scopes[c] /\ object[g] # "none"
    BY <1>5, <1>13
  <2>2. CASE \E m \in Objects!Members : member[m] = g
    BY <1>1, <2>2 DEF Objects!Held
  <2>3. CASE \E i \in 1 .. n : scopes[i] = g
    <3>1. PICK i \in 1 .. n : scopes[i] = g
      BY <2>3
    <3>2. \E j \in 1 .. n : scopes'[j] = g
      BY <1>3, <1>6, <2>1, <3>1
    <3> QED
      BY <1>6, <3>2 DEF Objects!Held
  <2> QED
    BY <2>1, <2>2, <2>3, HeldObjects
<1>14. PhaseFits'
  BY <1>1 DEF HoldInv, PhaseFits
<1>15. (Objects!Live \subseteq Objects!Held)'
  BY <1>13 DEF Objects!Live
<1>16. \A i \in DOMAIN scopes' : ScopeFits(i)'
  BY <1>6, <1>10, <1>11, <1>12
<1> QED
  BY <1>8, <1>9, <1>14, <1>15, <1>16 DEF HoldInv

\* The constructor goes on to its next step, when that of this one is done.
LEMMA AdvanceKeeps ==
    ASSUME HoldInv, phase = "constructing", Objects!Advance, scopes' = scopes,
           \A m \in Objects!Members :
               member'[m] # Objects!NULL
                   <=> member[m] # Objects!NULL \/ Objects!Construction[step] = m
    PROVE  PhaseFits' /\ step' \in 1 .. 8 /\ phase' \in {"constructing", "running"}
<1>1. /\ scopes = << >> /\ step \in 1 .. 8
      /\ \A m \in Objects!Members :
            member[m] # Objects!NULL <=> \E i \in 1 .. (step - 1) : Objects!Construction[i] = m
  BY HoldFacts DEF HoldInv, PhaseFits
<1>2. \A m \in Objects!Members :
          member'[m] # Objects!NULL <=> \E i \in 1 .. step : Objects!Construction[i] = m
  <2>1. \A i \in 1 .. step : i \in 1 .. (step - 1) \/ i = step
    BY <1>1
  <2>2. step \in 1 .. step /\ \A i \in 1 .. (step - 1) : i \in 1 .. step
    BY <1>1
  <2> QED
    BY <1>1, <2>1, <2>2
<1>3. CASE step = 8
  <2>1. phase' = "running" /\ step' = 1
    BY <1>3, Orders DEF Objects!Advance
  <2>2. \A m \in Objects!Members : member'[m] # Objects!NULL
    BY <1>2, <1>3, Orders
  <2> QED
    BY <1>1, <2>1, <2>2 DEF PhaseFits
<1>4. CASE step # 8
  <2>1. phase' = "constructing" /\ step' = step + 1
    BY <1>4, Orders DEF Objects!Advance
  <2>2. step' - 1 = step /\ step' \in 1 .. 8
    BY <1>1, <1>4, <2>1
  <2> QED
    BY <1>1, <1>2, <2>1, <2>2 DEF PhaseFits
<1> QED
  BY <1>3, <1>4

\* A member is built.
LEMMA ConstructKeeps ==
    ASSUME HoldInv, NEW m \in Objects!Members, Objects!Construct(m, From(m))
    PROVE  HoldInv'
<1> DEFINE f == Objects!Fresh
           used == {member[n] : n \in From(m)}
<1>1. /\ phase = "constructing" /\ Objects!Construction[step] = m /\ Objects!Live # Handles
      /\ object' = [object EXCEPT ![f] = m] /\ uses' = [uses EXCEPT ![f] = used]
      /\ member' = [member EXCEPT ![m] = f] /\ scopes' = scopes /\ unacked' = unacked
      /\ Objects!Advance
  BY DEF Objects!Construct, Objects!Constructs, Objects!Create
<1>2. f \in Handles /\ object[f] = "none" /\ f # Objects!NULL
      /\ \A n \in Objects!Members : member[n] # f
  BY <1>1, FreshIsNew
<1> HIDE DEF f
<1>3. /\ scopes = << >> /\ step \in 1 .. 8
      /\ \A n \in Objects!Members :
            member[n] # Objects!NULL <=> \E i \in 1 .. (step - 1) : Objects!Construction[i] = n
  BY <1>1, HoldFacts DEF HoldInv, PhaseFits
<1>4. member[m] = Objects!NULL
  <2>1. \A i \in 1 .. (step - 1) : i \in 1 .. 8 /\ i # step
    BY <1>3
  <2> QED
    BY <1>1, <1>3, <2>1, Orders
<1>5. \A n \in From(m) : n \in Objects!Members /\ n # m /\ member[n] # Objects!NULL
  <2>1. \A n \in From(m) : n \in Objects!Members /\ member[n] # Objects!NULL
    BY <1>1, <1>3, Orders
  <2> QED
    BY <1>4, <2>1
<1>6. used \subseteq Handles
  BY <1>5, HoldFacts
<1>7. /\ object'[f] = m /\ uses'[f] = used /\ member'[m] = f
      /\ \A h \in Handles : h # f => object'[h] = object[h] /\ uses'[h] = uses[h]
      /\ \A n \in Objects!Members : n # m => member'[n] = member[n]
  BY <1>1, <1>2, HoldFacts
<1>8. /\ object' \in [Handles -> Objects!Members
                         \cup {"queuePair", "memory", "memoryRegion", "none"}]
      /\ uses' \in [Handles -> SUBSET Handles]
      /\ member' \in [Objects!Members -> Handles \cup {Objects!NULL}]
  <2> HIDE DEF used
  <2> QED
    BY <1>1, <1>2, <1>6, HoldFacts
<1>9. PhaseFits' /\ step' \in 1 .. 8 /\ phase' \in {"constructing", "running"}
  BY <1>1, <1>2, <1>4, <1>7, AdvanceKeeps
<1>10. Objects!TypeOK'
  BY <1>1, <1>8, <1>9, Orders DEF HoldInv, Objects!TypeOK
<1>11. ASSUME NEW x \in Objects!Members PROVE MemberFits(x)'
  <2>1. CASE x = m
    <3>1. used = {member'[n] : n \in From(m)}
      BY <1>5, <1>7
    <3>2. \A n \in From(m) : member'[n] # Objects!NULL
      BY <1>5, <1>7
    <3> QED
      BY <1>7, <2>1, <3>1, <3>2 DEF MemberFits
  <2>2. CASE x # m /\ member[x] # Objects!NULL
    <3>1. /\ member[x] \in Handles /\ object[member[x]] = x
          /\ uses[member[x]] = {member[n] : n \in From(x)}
          /\ \A n \in From(x) : n \in Objects!Members /\ member[n] # Objects!NULL
      <4>1. MemberFits(x) /\ member[x] \in Handles
        BY <2>2, HoldFacts DEF HoldInv
      <4> QED
        BY <2>2, <4>1, FromMembers DEF MemberFits
    <3>2. \A n \in From(x) : member'[n] = member[n]
      BY <1>4, <1>7, <3>1
    <3>3. {member[n] : n \in From(x)} = {member'[n] : n \in From(x)}
      BY <3>2
    <3>4. /\ member'[x] = member[x] /\ object'[member[x]] = x
          /\ uses'[member[x]] = uses[member[x]]
      BY <1>2, <1>7, <2>2, <3>1
    <3> QED
      BY <3>1, <3>2, <3>3, <3>4 DEF MemberFits
  <2>3. CASE x # m /\ member[x] = Objects!NULL
    BY <1>7, <2>3 DEF MemberFits
  <2> QED
    BY <2>1, <2>2, <2>3
<1>12. ASSUME NEW h \in Handles, object'[h] # "none" PROVE \E n \in Objects!Members : member'[n] = h
  <2>1. CASE h = f
    BY <1>7, <2>1
  <2>2. CASE h # f
    <3>1. PICK n \in Objects!Members : member[n] = h
      BY <1>3, <1>7, <1>12, <2>2, HeldObjects
    <3> QED
      BY <1>4, <1>7, <3>1, HoldFacts
  <2> QED
    BY <2>1, <2>2
<1>13. (Objects!Live \subseteq Objects!Held)'
  BY <1>12 DEF Objects!Live, Objects!Held
<1>14. DOMAIN scopes' = {}
  BY <1>1, <1>3
<1> QED
  BY <1>9, <1>10, <1>11, <1>13, <1>14 DEF HoldInv

\* A step that leaves the objects and their owners alone.
LEMMA StandingStill ==
    ASSUME HoldInv, object' = object, uses' = uses, member' = member, scopes' = scopes,
           phase' \in {"constructing", "running", "unwinding", "destroying", "stopped"},
           step' \in 1 .. 8, unacked' \in 0 .. MaxEvents, PhaseFits'
    PROVE  HoldInv'
<1>1. Objects!TypeOK'
  BY Orders DEF HoldInv, Objects!TypeOK
<1>2. \A m \in Objects!Members : MemberFits(m)'
  BY DEF HoldInv, MemberFits
<1>3. \A i \in DOMAIN scopes' : ScopeFits(i)'
  BY DEF HoldInv, ScopeFits
<1>4. (Objects!Live \subseteq Objects!Held)'
  BY DEF HoldInv, Objects!Live, Objects!Held
<1> QED
  BY <1>1, <1>2, <1>3, <1>4 DEF HoldInv

\* A step of the destructor of the Network: what was created from a member has
\* been destroyed before it.
LEMMA DestroyKeeps == ASSUME HoldInv, Objects!DestroyMember PROVE HoldInv'
<1> DEFINE d == Objects!Destruction[step]
<1>1. /\ phase = "destroying" /\ scopes' = scopes
      /\ IF d = "ack" THEN Objects!AckEvents ELSE Objects!Release(d)
      /\ IF step = 8 THEN phase' = "stopped" /\ step' = 1
                     ELSE phase' = phase /\ step' = step + 1
  BY Orders DEF Objects!DestroyMember
<1>2. /\ scopes = << >> /\ step \in 1 .. 8
      /\ \A m \in Objects!Members : \A i \in 1 .. (step - 1) :
            Objects!Destruction[i] = m => member[m] = Objects!NULL
  BY <1>1, HoldFacts DEF HoldInv, PhaseFits
<1>3. step' \in 1 .. 8 /\ phase' \in {"destroying", "stopped"} /\ scopes' = << >>
  BY <1>1, <1>2
<1>4. ASSUME \A m \in Objects!Members : (m = d \/ member[m] = Objects!NULL) => member'[m] = Objects!NULL
      PROVE  PhaseFits'
  <2>1. CASE step = 8
    BY <1>1, <1>3, <2>1 DEF PhaseFits
  <2>2. CASE step # 8
    <3>1. phase' = "destroying" /\ step' = step + 1
      BY <1>1, <2>2
    <3>2. \A i \in 1 .. (step' - 1) : i \in 1 .. (step - 1) \/ i = step
      BY <1>2, <3>1
    <3>3. ASSUME NEW m \in Objects!Members, NEW i \in 1 .. (step' - 1),
                 Objects!Destruction[i] = m
          PROVE  member'[m] = Objects!NULL
      BY <1>2, <1>4, <3>2, <3>3
    <3> QED
      BY <1>3, <3>1, <3>3 DEF PhaseFits
  <2> QED
    BY <2>1, <2>2
<1>5. CASE d = "ack"
  <2>1. unacked' = 0 /\ object' = object /\ uses' = uses /\ member' = member
    BY <1>1, <1>5 DEF Objects!AckEvents
  <2>2. \A m \in Objects!Members : m # d
    BY <1>5 DEF Objects!Members
  <2>3. PhaseFits'
    BY <1>4, <2>1, <2>2
  <2>4. unacked' \in 0 .. MaxEvents
    BY <2>1, HoldFacts
  <2> QED
    BY <1>2, <1>3, <2>1, <2>3, <2>4, StandingStill
<1>6. CASE d # "ack"
  <2> DEFINE h == member[d]
  <2>1. d \in Objects!Members
    BY <1>2, <1>6, Orders
  <2>2. /\ Objects!Delete(h) /\ member' = [member EXCEPT ![d] = Objects!NULL]
        /\ unacked' = unacked /\ h \in Handles \cup {Objects!NULL}
    BY <1>1, <1>6, <2>1, HoldFacts DEF Objects!Release
  <2>3. \A n \in Objects!Members : d \in From(n) => member[n] = Objects!NULL
    BY <1>2, <2>1, Orders
  <2>4. ASSUME NEW g \in Handles, object[g] # "none", h \in uses[g] PROVE FALSE
    <3>1. h \in Handles /\ h # Objects!NULL /\ DOMAIN scopes = {} /\ Len(scopes) = 0
      BY <1>2, <2>4, HoldFacts
    <3>2. PICK n \in Objects!Members : g = member[n] /\ \E m \in From(n) : h = member[m]
      BY <2>4, <3>1, UsedObjects
    <3>3. PICK m \in From(n) : h = member[m]
      BY <3>2
    <3>4. m \in Objects!Members
      BY Orders
    <3>5. m = d
      BY <2>1, <3>1, <3>3, <3>4, HeldObjects
    <3> QED
      BY <2>3, <3>2, <3>5, HoldFacts
  <2>5. /\ object' \in [Handles -> Objects!Members
                           \cup {"queuePair", "memory", "memoryRegion", "none"}]
        /\ uses' \in [Handles -> SUBSET Handles]
        /\ h # Objects!NULL => object'[h] = "none"
        /\ \A g \in Handles : g # h => object'[g] = object[g] /\ uses'[g] = uses[g]
    BY <2>2, <2>4, DeleteClears
  <2>6. /\ member'[d] = Objects!NULL /\ \A n \in Objects!Members : n # d => member'[n] = member[n]
        /\ member' \in [Objects!Members -> Handles \cup {Objects!NULL}]
    BY <2>1, <2>2, HoldFacts
  <2>7. PhaseFits'
    BY <1>4, <2>6
  <2>8. Objects!TypeOK'
    BY <1>1, <1>3, <2>2, <2>5, <2>6, Orders DEF HoldInv, Objects!TypeOK
  <2>9. ASSUME NEW x \in Objects!Members PROVE MemberFits(x)'
    <3>1. CASE x # d /\ member[x] # Objects!NULL
      <4>1. /\ member[x] \in Handles /\ object[member[x]] = x
            /\ uses[member[x]] = {member[n] : n \in From(x)}
            /\ \A n \in From(x) : n \in Objects!Members /\ member[n] # Objects!NULL
        <5>1. MemberFits(x) /\ member[x] \in Handles
          BY <3>1, HoldFacts DEF HoldInv
        <5> QED
          BY <3>1, <5>1, FromMembers DEF MemberFits
      <4>2. \A n \in From(x) : member'[n] = member[n]
        BY <2>3, <2>6, <3>1, <4>1
      <4>3. {member[n] : n \in From(x)} = {member'[n] : n \in From(x)}
        BY <4>2
      <4>4. member[x] # h
        BY <2>1, <3>1, HeldObjects
      <4>5. /\ member'[x] = member[x] /\ object'[member[x]] = x
            /\ uses'[member[x]] = uses[member[x]]
        BY <2>5, <2>6, <3>1, <4>1, <4>4
      <4> QED
        BY <4>1, <4>2, <4>3, <4>5 DEF MemberFits
    <3>2. CASE x = d \/ member[x] = Objects!NULL
      BY <2>6, <3>2 DEF MemberFits
    <3> QED
      BY <3>1, <3>2
  <2>10. ASSUME NEW g \in Handles, object'[g] # "none" PROVE \E n \in Objects!Members : member'[n] = g
    <3>1. g # h /\ object[g] # "none"
      BY <2>5, <2>10, HoldFacts
    <3>2. PICK n \in Objects!Members : member[n] = g
      BY <1>2, <3>1, HeldObjects
    <3> QED
      BY <2>6, <3>1, <3>2
  <2>11. (Objects!Live \subseteq Objects!Held)'
    BY <2>10 DEF Objects!Live, Objects!Held
  <2>12. DOMAIN scopes' = {}
    BY <1>3
  <2> QED
    BY <2>7, <2>8, <2>9, <2>11, <2>12 DEF HoldInv
<1> QED
  BY <1>5, <1>6

\* Every step keeps the invariant.
LEMMA HoldNext == ASSUME HoldInv, [Objects!Next]_(Objects!vars) PROVE HoldInv'
<1>1. ASSUME Objects!NetworkConstructor PROVE HoldInv'
  <2>1. CASE Objects!GetDeviceList
    BY <2>1, ConstructKeeps DEF Objects!GetDeviceList, Objects!Members, From
  <2>2. CASE Objects!OpenUnambiguousDevice
    BY <2>2, ConstructKeeps DEF Objects!OpenUnambiguousDevice, Objects!Members, From
  <2>3. CASE Objects!CreateCompletionEventChannel
    BY <2>3, ConstructKeeps DEF Objects!CreateCompletionEventChannel, Objects!Members, From
  <2>4. CASE Objects!CreateCompletionQueue
    <3>1. PICK q \in {"sendQueue", "receiveQueue"} : Objects!Construct(q, {"context", "channel"})
      BY <2>4 DEF Objects!CreateCompletionQueue
    <3>2. q \in Objects!Members /\ From(q) = {"context", "channel"}
      BY DEF Objects!Members, From
    <3> QED
      BY <3>1, <3>2, ConstructKeeps
  <2>5. CASE Objects!RequestNotify
    <3>1. /\ phase = "constructing" /\ Objects!Construction[step] = "notify" /\ Objects!Advance
          /\ object' = object /\ uses' = uses /\ member' = member /\ scopes' = scopes
          /\ unacked' = unacked
      BY <2>5 DEF Objects!RequestNotify, Objects!Constructs
    <3>2. PhaseFits' /\ step' \in 1 .. 8 /\ phase' \in {"constructing", "running"}
      BY <3>1, AdvanceKeeps DEF Objects!Members
    <3> QED
      BY <3>1, <3>2, HoldFacts, StandingStill
  <2>6. CASE Objects!AllocProtectionDomain
    BY <2>6, ConstructKeeps DEF Objects!AllocProtectionDomain, Objects!Members, From
  <2>7. CASE Objects!CreateSrq
    BY <2>7, ConstructKeeps DEF Objects!CreateSrq, Objects!Members, From
  <2>8. CASE Objects!ConstructionThrows
    <3>1. /\ phase = "constructing" /\ phase' = "destroying" /\ step' = 1
          /\ object' = object /\ uses' = uses /\ member' = member /\ scopes' = scopes
          /\ unacked' = unacked
      BY <2>8 DEF Objects!ConstructionThrows
    <3>2. PhaseFits'
      BY <3>1 DEF HoldInv, PhaseFits
    <3> QED
      BY <3>1, <3>2, HoldFacts, StandingStill
  <2> QED
    BY <1>1, <2>1, <2>2, <2>3, <2>4, <2>5, <2>6, <2>7, <2>8 DEF Objects!NetworkConstructor
<1>2. ASSUME Objects!Program PROVE HoldInv'
  <2>1. CASE Objects!CreateQueuePair
    <3> DEFINE used == {member[m] : m \in {"protectionDomain", "sendQueue", "receiveQueue",
                                           "sharedReceiveQueue"}}
    <3>1. Objects!Enter("queuePair", used)
      BY <2>1 DEF Objects!CreateQueuePair
    <3>2. used \subseteq {member[m] : m \in Objects!Members}
      BY DEF Objects!Members
    <3> HIDE DEF used
    <3> QED
      BY <3>1, <3>2, EnterKeeps
  <2>2. CASE Objects!Allocate
    BY <2>2, EnterKeeps DEF Objects!Allocate
  <2>3. CASE Objects!RegisterMr
    <3>1. PICK i \in 1 .. Len(scopes) :
              /\ scopes[i] # Objects!NULL /\ object[scopes[i]] = "memory"
              /\ Objects!Enter("memoryRegion", {member["protectionDomain"], scopes[i]})
      BY <2>3, HoldFacts DEF Objects!RegisterMr
    <3> DEFINE used == {member["protectionDomain"], scopes[i]}
    <3>2. \E j \in 1 .. Len(scopes) :
              /\ scopes[j] # Objects!NULL /\ object[scopes[j]] = "memory"
              /\ used = {member["protectionDomain"], scopes[j]}
      BY <3>1
    <3>3. Objects!Enter("memoryRegion", used)
      BY <3>1
    <3> HIDE DEF used
    <3> QED
      BY <3>2, <3>3, EnterKeeps
  <2>4. CASE Objects!ReplaceConnection
    BY <2>4, ReplaceKeeps
  <2>5. CASE Objects!GetEvent
    <3>1. /\ phase = "running" /\ unacked < MaxEvents /\ unacked' = unacked + 1
          /\ phase' = phase /\ step' = step
          /\ object' = object /\ uses' = uses /\ member' = member /\ scopes' = scopes
      BY <2>5 DEF Objects!GetEvent
    <3>2. PhaseFits'
      BY <3>1 DEF HoldInv, PhaseFits
    <3>3. unacked' \in 0 .. MaxEvents
      BY <3>1, HoldFacts
    <3> QED
      BY <3>1, <3>2, <3>3, HoldFacts, StandingStill
  <2>6. CASE Objects!Return
    BY <2>6, LeaveKeeps DEF Objects!Return
  <2>7. CASE Objects!Throw
    <3>1. /\ phase = "running" /\ phase' = "unwinding" /\ step' = step
          /\ object' = object /\ uses' = uses /\ member' = member /\ scopes' = scopes
          /\ unacked' = unacked
      BY <2>7 DEF Objects!Throw
    <3>2. PhaseFits'
      BY <3>1 DEF HoldInv, PhaseFits
    <3> QED
      BY <3>1, <3>2, HoldFacts, StandingStill
  <2> QED
    BY <1>2, <2>1, <2>2, <2>3, <2>4, <2>5, <2>6, <2>7 DEF Objects!Program
<1>3. ASSUME Objects!Finish PROVE HoldInv'
  <2>1. /\ phase \in {"running", "unwinding"} /\ scopes = << >> /\ phase' = "destroying"
        /\ step' = step
        /\ object' = object /\ uses' = uses /\ member' = member /\ scopes' = scopes
        /\ unacked' = unacked
    BY <1>3 DEF Objects!Finish
  <2>2. step = 1
    BY <2>1 DEF HoldInv, PhaseFits
  <2>3. PhaseFits'
    BY <2>1, <2>2 DEF PhaseFits
  <2> QED
    BY <2>1, <2>3, HoldFacts, StandingStill
<1>4. ASSUME Objects!Destructors PROVE HoldInv'
  BY <1>4, LeaveKeeps, DestroyKeeps DEF Objects!Destructors, Objects!Unwind
<1>5. ASSUME UNCHANGED Objects!vars PROVE HoldInv'
  <2>1. /\ object' = object /\ uses' = uses /\ member' = member /\ scopes' = scopes
        /\ phase' = phase /\ step' = step /\ unacked' = unacked
    BY <1>5 DEF Objects!vars
  <2>2. PhaseFits'
    BY <2>1 DEF HoldInv, PhaseFits
  <2>3. phase \in {"constructing", "running", "unwinding", "destroying", "stopped"}
    BY DEF HoldInv, Objects!TypeOK
  <2> QED
    BY <2>1, <2>2, <2>3, HoldFacts, StandingStill
<1> QED
  BY <1>1, <1>2, <1>3, <1>4, <1>5 DEF Objects!Next

\* No verbs object is left without an owner, none is held by two or after it is
\* gone, and the memory under a region outlives it: whatever the program creates,
\* replaces and leaves, wherever the constructor of the Network or a call throws.
THEOREM VerbsObjectsAreHeld == Objects!Spec => []ObjectsHeld
<1>1. Objects!Init => HoldInv
  BY HoldInit
<1>2. HoldInv /\ [Objects!Next]_(Objects!vars) => HoldInv'
  BY HoldNext
<1>3. HoldInv => ObjectsHeld
  BY HoldMeans
<1> QED
  BY <1>1, <1>2, <1>3, PTL DEF Objects!Spec

-----------------------------------------------------------------------------
(* The stream between two sockets.                                         *)

\* The two ends, and the bytes of any of their records.
Peers == {"client", "server"}
Bytes == {Stream!Byte(p, r, i) : p \in Peers, r \in Nat, i \in Nat}

\* A peer in its loops; how many bytes of the other's record it has read, and
\* of its own it has written.
Looping(p) == loop[p] \in {"write", "read"}
ReadSoFar(p) == IF loop[p] = "read" THEN current[p] ELSE 0
Written(p) == IF loop[p] = "write" THEN current[p] ELSE RecordSize

\* What is on the way from p is the rest of the record q reads, then the next one.
InOrder(p, q) ==
    \A i \in 1 .. Len(stream[p]) :
        stream[p][i] = IF ReadSoFar(q) + i <= RecordSize
                       THEN Stream!Byte(p, round[q], ReadSoFar(q) + i)
                       ELSE Stream!Byte(p, round[q] + 1, ReadSoFar(q) + i - RecordSize)

\* q reads the record p writes, or the one before it, or waits for the next one.
InStep(p, q) ==
    \/ /\ round[p] = round[q] /\ ReadSoFar(q) + Len(stream[p]) <= RecordSize
       /\ Looping(p) => ReadSoFar(q) + Len(stream[p]) = Written(p)
    \/ /\ round[p] = round[q] + 1 /\ ReadSoFar(q) + Len(stream[p]) <= RecordSize + RecordSize
       /\ Looping(p) => ReadSoFar(q) + Len(stream[p]) = RecordSize + Written(p)
    \/ /\ round[q] = round[p] + 1 /\ ReadSoFar(q) = 0 /\ Len(stream[p]) = 0
       /\ Looping(p) => loop[p] = "read"

\* The record of p in p's variable, and what it has read of the record of q.
Recorded(p, q) ==
    /\ loop[p] = "write" => record[p] = Stream!RecordOf(p, round[p])
    /\ loop[p] = "read" => \A i \in 1 .. current[p] : record[p][i] = Stream!Byte(q, round[p], i)

\* The types of its variables.
StreamTypes ==
    /\ loop \in [Peers -> {"write", "read", "closed", "ended"}]
    /\ round \in [Peers -> Nat \ {0}] /\ current \in [Peers -> Nat]
    /\ stream \in [Peers -> Seq(Bytes)]
    /\ record \in [Peers -> [1 .. RecordSize -> Bytes]]
    /\ got \in [Peers -> Seq([1 .. RecordSize -> Bytes])]

\* The inductive invariant.
StreamInv ==
    /\ StreamTypes
    /\ \A p \in Peers :
          /\ current[p] < RecordSize /\ Len(got[p]) = round[p] - 1
          /\ Looping(p) => round[p] <= Rounds
    /\ \A p \in Peers : \A q \in Peers \ {p} :
          Recorded(p, q) /\ (Looping(q) => InOrder(p, q) /\ InStep(p, q))

\* A sequence without its first n elements.
LEMMA Cut ==
    ASSUME NEW S, NEW list \in Seq(S), NEW n \in 1 .. Len(list)
    PROVE  /\ SubSeq(list, n + 1, Len(list)) \in Seq(S)
           /\ Len(SubSeq(list, n + 1, Len(list))) = Len(list) - n
           /\ \A i \in 1 .. (Len(list) - n) : SubSeq(list, n + 1, Len(list))[i] = list[n + i]
<1> DEFINE rest == SubSeq(list, n + 1, Len(list))
           l == Len(list)
<1>1. /\ l \in Nat /\ n \in Nat /\ n + 1 \in Int /\ l \in Int
      /\ \A i \in n + 1 .. l : list[i] \in S
  OBVIOUS
<1>2. /\ rest \in Seq(S) /\ Len(rest) = IF n + 1 <= l THEN l - (n + 1) + 1 ELSE 0
      /\ \A i \in 1 .. (l - (n + 1) + 1) : rest[i] = list[n + 1 + i - 1]
  BY <1>1, SubSeqProperties
<1> HIDE DEF rest
<1>3. n <= l
  BY <1>1
<1> HIDE DEF l
<1>4. Len(rest) = l - n
  <2>1. \A a, b \in Nat : a <= b => (IF a + 1 <= b THEN b - (a + 1) + 1 ELSE 0) = b - a
    OBVIOUS
  <2> QED
    BY <1>1, <1>2, <1>3, <2>1
<1>5. \A i \in 1 .. (l - n) : i \in 1 .. (l - (n + 1) + 1) /\ n + 1 + i - 1 = n + i
  BY <1>1
<1>6. \A i \in 1 .. (l - n) : rest[i] = list[n + i]
  BY <1>2, <1>5
<1> QED
  BY <1>2, <1>4, <1>6 DEF rest, l

\* A sequence with the elements from a + 1 to b of another at its end.
LEMMA Extended ==
    ASSUME NEW S, NEW list \in Seq(S), NEW other, NEW a \in Nat, NEW b \in Nat, a <= b,
           \A i \in a + 1 .. b : other[i] \in S
    PROVE  /\ list \o SubSeq(other, a + 1, b) \in Seq(S)
           /\ Len(list \o SubSeq(other, a + 1, b)) = Len(list) + (b - a)
           /\ \A i \in 1 .. Len(list) : (list \o SubSeq(other, a + 1, b))[i] = list[i]
           /\ \A i \in Len(list) + 1 .. Len(list) + (b - a) :
                 (list \o SubSeq(other, a + 1, b))[i] = other[a + (i - Len(list))]
<1> DEFINE more == SubSeq(other, a + 1, b)
           l == Len(list)
           all == list \o more
<1>1. l \in Nat /\ a + 1 \in Int /\ b \in Int
  OBVIOUS
<1>2. /\ more \in Seq(S) /\ Len(more) = IF a + 1 <= b THEN b - (a + 1) + 1 ELSE 0
      /\ \A i \in 1 .. (b - (a + 1) + 1) : more[i] = other[a + 1 + i - 1]
  BY <1>1, SubSeqProperties
<1> HIDE DEF more
<1>3. Len(more) = b - a
  <2>1. \A x, y \in Nat : x <= y => (IF x + 1 <= y THEN y - (x + 1) + 1 ELSE 0) = y - x
    OBVIOUS
  <2> QED
    BY <1>2, <2>1
<1>4. /\ all \in Seq(S) /\ Len(all) = l + Len(more)
      /\ \A i \in 1 .. l : all[i] = list[i]
      /\ \A i \in l + 1 .. l + Len(more) : all[i] = more[i - l]
  BY <1>2
<1> HIDE DEF all, l
<1>5. \A i \in l + 1 .. l + (b - a) :
          /\ i - l \in 1 .. (b - (a + 1) + 1) /\ a + 1 + (i - l) - 1 = a + (i - l)
  BY <1>1
<1>6. \A i \in l + 1 .. l + (b - a) : all[i] = other[a + (i - l)]
  BY <1>2, <1>3, <1>4, <1>5
<1> QED
  BY <1>3, <1>4, <1>6 DEF all, more, l

\* send and recv move no more than is left of the record, or than there is.
LEMMA SmallerOfTwo ==
    ASSUME NEW a \in Int, NEW b \in Int
    PROVE  Stream!Min({a, b}) \in Int /\ Stream!Min({a, b}) <= a /\ Stream!Min({a, b}) <= b
<1>1. \E x \in {a, b} : \A y \in {a, b} : x <= y
  OBVIOUS
<1>2. Stream!Min({a, b}) \in {a, b} /\ \A y \in {a, b} : Stream!Min({a, b}) <= y
  BY <1>1 DEF Stream!Min
<1> QED
  BY <1>2

\* Each peer has one other.
LEMMA Opposite ==
    ASSUME NEW p \in Peers
    PROVE  \E q \in Peers \ {p} : Peers = {p, q} /\ Stream!Other(p) = q /\ Stream!Other(q) = p
<1>1. Stream!Other("client") = "server" /\ Stream!Other("server") = "client"
  BY DEF Stream!Other
<1> QED
  BY <1>1 DEF Peers

\* What the assumption says of the constants.
LEMMA SizeFacts ==
    /\ RecordSize \in Nat /\ RecordSize > 0 /\ Rounds \in Nat /\ Rounds > 0
    /\ Capacity \in Nat
  BY PartsAssumption DEF Stream!ExchangeAssumption

\* What the invariant says of one peer.
LEMMA StreamFacts ==
    ASSUME StreamInv, NEW p \in Peers
    PROVE  /\ round[p] \in Nat /\ round[p] > 0 /\ current[p] \in Nat /\ current[p] < RecordSize
           /\ stream[p] \in Seq(Bytes) /\ Len(stream[p]) \in Nat
           /\ record[p] \in [1 .. RecordSize -> Bytes]
           /\ ReadSoFar(p) \in Nat /\ ReadSoFar(p) < RecordSize
  BY SizeFacts DEF StreamInv, StreamTypes, ReadSoFar

\* A peer that has not its record written writes some more of it.
LEMMA WriteFacts ==
    ASSUME StreamInv, NEW p \in Peers, Stream!Write(p)
    PROVE  \E to \in (current[p] + 1) .. RecordSize :
              /\ loop[p] = "write"
              /\ stream' = [stream EXCEPT ![p] = @ \o SubSeq(record[p], current[p] + 1, to)]
              /\ current' = [current EXCEPT ![p] = IF to = RecordSize THEN 0 ELSE to]
              /\ loop' = [loop EXCEPT ![p] = IF to = RecordSize THEN "read" ELSE "write"]
              /\ UNCHANGED <<round, record, got>>
<1> DEFINE most == Stream!Min({RecordSize - current[p], Capacity - Len(stream[p])})
<1>1. /\ RecordSize - current[p] \in Int /\ Capacity - Len(stream[p]) \in Int
      /\ current[p] \in Nat
  BY SizeFacts, StreamFacts
<1>2. most \in Int /\ most <= RecordSize - current[p]
  BY <1>1, SmallerOfTwo
<1>3. PICK res \in 1 .. most :
          /\ loop[p] = "write"
          /\ stream' = [stream EXCEPT ![p] = @ \o SubSeq(record[p], current[p] + 1, current[p] + res)]
          /\ current' = [current EXCEPT ![p] = IF current[p] + res = RecordSize THEN 0
                                               ELSE current[p] + res]
          /\ loop' = [loop EXCEPT ![p] = IF current[p] + res = RecordSize THEN "read" ELSE "write"]
          /\ UNCHANGED <<round, record, got>>
  BY DEF Stream!Write
<1> HIDE DEF most
<1>4. current[p] + res \in (current[p] + 1) .. RecordSize
  BY <1>1, <1>2, SizeFacts
<1> QED
  BY <1>3, <1>4

\* Where the bytes of a write are.
LEMMA Offset ==
    ASSUME NEW k \in Nat, NEW n \in Nat, NEW a \in Nat, NEW b \in Nat, NEW size \in Nat,
           a < b, b <= size
    PROVE  /\ k + n = a => k + (n + (b - a)) = b
           /\ k + n = size + a => k + (n + (b - a)) = size + b
           /\ \A i \in n + 1 .. n + (b - a) :
                 /\ a + (i - n) \in 1 .. size
                 /\ k + n = a => k + i <= size /\ k + i = a + (i - n)
                 /\ k + n = size + a => ~ (k + i <= size) /\ k + i - size = a + (i - n)
  OBVIOUS

\* What a write puts on the way, and what it leaves.
LEMMA WriteKeeps ==
    ASSUME StreamInv, NEW p \in Peers, Stream!Write(p)
    PROVE  StreamInv'
<1>1. PICK q \in Peers \ {p} : Peers = {p, q}
  BY Opposite
<1>2. PICK to \in (current[p] + 1) .. RecordSize :
          /\ loop[p] = "write"
          /\ stream' = [stream EXCEPT ![p] = @ \o SubSeq(record[p], current[p] + 1, to)]
          /\ current' = [current EXCEPT ![p] = IF to = RecordSize THEN 0 ELSE to]
          /\ loop' = [loop EXCEPT ![p] = IF to = RecordSize THEN "read" ELSE "write"]
          /\ UNCHANGED <<round, record, got>>
  BY WriteFacts
<1> DEFINE c == current[p]
           l == Len(stream[p])
<1>3. c \in Nat /\ to \in Nat /\ c < to /\ to <= RecordSize /\ l \in Nat
  BY <1>2, SizeFacts, StreamFacts
<1>4. /\ loop' \in [Peers -> {"write", "read", "closed", "ended"}] /\ current' \in [Peers -> Nat]
      /\ loop'[q] = loop[q] /\ current'[q] = current[q] /\ stream'[q] = stream[q]
      /\ loop'[p] = (IF to = RecordSize THEN "read" ELSE "write")
      /\ current'[p] = (IF to = RecordSize THEN 0 ELSE to)
  BY <1>1, <1>2, <1>3 DEF StreamInv, StreamTypes
<1>5. /\ stream'[p] \in Seq(Bytes) /\ Len(stream'[p]) = l + (to - c)
      /\ \A i \in 1 .. l : stream'[p][i] = stream[p][i]
      /\ \A i \in l + 1 .. l + (to - c) : stream'[p][i] = record[p][c + (i - l)]
  <2>1. \A i \in c + 1 .. to : record[p][i] \in Bytes
    BY <1>3, SizeFacts, StreamFacts
  <2>2. stream'[p] = stream[p] \o SubSeq(record[p], c + 1, to) /\ stream[p] \in Seq(Bytes)
    BY <1>2, StreamFacts DEF StreamInv, StreamTypes
  <2>3. /\ stream[p] \o SubSeq(record[p], c + 1, to) \in Seq(Bytes)
        /\ Len(stream[p] \o SubSeq(record[p], c + 1, to)) = Len(stream[p]) + (to - c)
        /\ \A i \in 1 .. Len(stream[p]) :
              (stream[p] \o SubSeq(record[p], c + 1, to))[i] = stream[p][i]
        /\ \A i \in Len(stream[p]) + 1 .. Len(stream[p]) + (to - c) :
              (stream[p] \o SubSeq(record[p], c + 1, to))[i] = record[p][c + (i - Len(stream[p]))]
    <3> DEFINE before == stream[p]
               other == record[p]
    <3>1. before \in Seq(Bytes) /\ c \in Nat /\ to \in Nat /\ c <= to
      BY <1>3, <2>2
    <3>2. \A i \in c + 1 .. to : other[i] \in Bytes
      BY <2>1
    <3> HIDE DEF c, before, other
    <3>3. /\ before \o SubSeq(other, c + 1, to) \in Seq(Bytes)
          /\ Len(before \o SubSeq(other, c + 1, to)) = Len(before) + (to - c)
          /\ \A i \in 1 .. Len(before) : (before \o SubSeq(other, c + 1, to))[i] = before[i]
          /\ \A i \in Len(before) + 1 .. Len(before) + (to - c) :
                (before \o SubSeq(other, c + 1, to))[i] = other[c + (i - Len(before))]
      BY <3>1, <3>2, Extended
    <3> QED
      BY <3>3 DEF before, other
  <2> QED
    BY <2>2, <2>3
<1>6. stream' \in [Peers -> Seq(Bytes)]
  BY <1>2, <1>5 DEF StreamInv, StreamTypes
<1>7. StreamTypes'
  BY <1>2, <1>4, <1>6 DEF StreamInv, StreamTypes
<1>8. ASSUME NEW x \in Peers
      PROVE  /\ current'[x] < RecordSize /\ Len(got'[x]) = round'[x] - 1
             /\ Looping(x)' => round'[x] <= Rounds
  BY <1>1, <1>2, <1>3, <1>4, <1>8, SizeFacts DEF StreamInv, Looping
<1> HIDE DEF c, l
<1>9. /\ Looping(p) /\ Looping(p)' /\ Looping(q)' = Looping(q)
      /\ ReadSoFar(q)' = ReadSoFar(q) /\ Written(q)' = Written(q)
      /\ ReadSoFar(p) = 0 /\ ReadSoFar(p)' = 0 /\ Written(p) = c /\ Written(p)' = to
  BY <1>2, <1>3, <1>4 DEF Looping, ReadSoFar, Written, c
<1>o. /\ ReadSoFar(q) \in Nat
      /\ ReadSoFar(q) + l = c => ReadSoFar(q) + (l + (to - c)) = to
      /\ ReadSoFar(q) + l = RecordSize + c => ReadSoFar(q) + (l + (to - c)) = RecordSize + to
      /\ \A i \in l + 1 .. l + (to - c) :
            /\ c + (i - l) \in 1 .. RecordSize
            /\ ReadSoFar(q) + l = c =>
                  ReadSoFar(q) + i <= RecordSize /\ ReadSoFar(q) + i = c + (i - l)
            /\ ReadSoFar(q) + l = RecordSize + c =>
                  /\ ~ (ReadSoFar(q) + i <= RecordSize)
                  /\ ReadSoFar(q) + i - RecordSize = c + (i - l)
  <2> DEFINE k == ReadSoFar(q)
  <2>1. k \in Nat /\ RecordSize \in Nat
    BY <1>1, SizeFacts, StreamFacts
  <2> HIDE DEF k
  <2>2. /\ k + l = c => k + (l + (to - c)) = to
        /\ k + l = RecordSize + c => k + (l + (to - c)) = RecordSize + to
        /\ \A i \in l + 1 .. l + (to - c) :
              /\ c + (i - l) \in 1 .. RecordSize
              /\ k + l = c => k + i <= RecordSize /\ k + i = c + (i - l)
              /\ k + l = RecordSize + c => ~ (k + i <= RecordSize) /\ k + i - RecordSize = c + (i - l)
    BY <1>3, <2>1, Offset
  <2> QED
    BY <2>1, <2>2 DEF k
<1>10. record[p] = Stream!RecordOf(p, round[p])
  BY <1>1, <1>2 DEF StreamInv, Recorded
<1>11. Recorded(p, q)' /\ Recorded(q, p)'
  <2>1. Recorded(p, q) /\ Recorded(q, p)
    BY <1>1 DEF StreamInv
  <2>2. Recorded(p, q)'
    BY <1>2, <1>4, <1>10 DEF Recorded
  <2>3. Recorded(q, p)'
    BY <1>2, <1>4, <2>1 DEF Recorded
  <2> QED
    BY <2>2, <2>3
<1>12. InOrder(q, p)' /\ InStep(q, p)'
  <2>1. InOrder(q, p) /\ InStep(q, p)
    BY <1>1, <1>9 DEF StreamInv
  <2>2. InOrder(q, p)'
    BY <1>2, <1>4, <1>9, <2>1 DEF InOrder
  <2>3. InStep(q, p)'
    BY <1>2, <1>4, <1>9, <2>1 DEF InStep
  <2> QED
    BY <2>2, <2>3
<1>13. ASSUME Looping(q) PROVE InOrder(p, q)' /\ InStep(p, q)'
  <2>1. InOrder(p, q) /\ InStep(p, q)
    BY <1>1, <1>13 DEF StreamInv
  <2>2. \/ round[p] = round[q] /\ ReadSoFar(q) + l = c
        \/ round[p] = round[q] + 1 /\ ReadSoFar(q) + l = RecordSize + c
    BY <1>2, <1>9, <2>1 DEF InStep, l
  <2>3. InStep(p, q)'
    <3>1. ReadSoFar(q)' + Len(stream'[p]) = ReadSoFar(q) + (l + (to - c))
      BY <1>5, <1>9
    <3>2. round'[p] = round[p] /\ round'[q] = round[q]
      BY <1>2
    <3>3. CASE round[p] = round[q] /\ ReadSoFar(q) + l = c
      BY <1>3, <1>9, <1>o, <3>1, <3>2, <3>3 DEF InStep
    <3>4. CASE round[p] = round[q] + 1 /\ ReadSoFar(q) + l = RecordSize + c
      BY <1>3, <1>9, <1>o, <3>1, <3>2, <3>4, SizeFacts DEF InStep
    <3> QED
      BY <2>2, <3>3, <3>4
  <2>4. ASSUME NEW i \in l + 1 .. l + (to - c)
        PROVE  stream'[p][i] = Stream!Byte(p, round[p], c + (i - l))
    <3>1. c + (i - l) \in 1 .. RecordSize
      BY <1>o
    <3> QED
      BY <1>5, <1>10, <3>1 DEF Stream!RecordOf
  <2>5. InOrder(p, q)'
    <3>1. ASSUME NEW i \in 1 .. Len(stream'[p])
          PROVE  stream'[p][i] = IF ReadSoFar(q) + i <= RecordSize
                                 THEN Stream!Byte(p, round[q], ReadSoFar(q) + i)
                                 ELSE Stream!Byte(p, round[q] + 1, ReadSoFar(q) + i - RecordSize)
      <4>1. CASE i <= l
        <5>1. i \in 1 .. l
          BY <1>3, <1>5, <4>1
        <5> QED
          BY <1>5, <2>1, <5>1 DEF InOrder, l
      <4>2. CASE i > l
        <5>1. i \in l + 1 .. l + (to - c)
          BY <1>3, <1>5, <4>2
        <5>2. stream'[p][i] = Stream!Byte(p, round[p], c + (i - l))
          BY <2>4, <5>1
        <5>3. CASE round[p] = round[q] /\ ReadSoFar(q) + l = c
          <6>1. ReadSoFar(q) + i <= RecordSize /\ ReadSoFar(q) + i = c + (i - l)
            BY <1>o, <5>1, <5>3
          <6> QED
            BY <5>2, <5>3, <6>1
        <5>4. CASE round[p] = round[q] + 1 /\ ReadSoFar(q) + l = RecordSize + c
          <6>1. ~ (ReadSoFar(q) + i <= RecordSize) /\ ReadSoFar(q) + i - RecordSize = c + (i - l)
            BY <1>o, <5>1, <5>4
          <6> QED
            BY <5>2, <5>4, <6>1
        <5> QED
          BY <2>2, <5>3, <5>4
      <4> QED
        BY <1>3, <1>5, <4>1, <4>2
    <3> QED
      BY <1>2, <1>9, <3>1 DEF InOrder
  <2> QED
    BY <2>3, <2>5
<1> QED
  BY <1>1, <1>7, <1>8, <1>9, <1>11, <1>12, <1>13 DEF StreamInv

\* A peer that has written reads what has come of the other's record.
LEMMA ReadFacts ==
    ASSUME StreamInv, NEW p \in Peers, NEW q \in Peers, Stream!Other(p) = q, p # q, Stream!Read(p)
    PROVE  \E n \in 1 .. Len(stream[q]) : \E read \in [1 .. RecordSize -> Bytes] :
              /\ loop[p] = "read" /\ current[p] + n <= RecordSize
              /\ stream' = [stream EXCEPT ![q] = SubSeq(@, n + 1, Len(@))]
              /\ \A i \in 1 .. (current[p] + n) : read[i] = Stream!Byte(q, round[p], i)
              /\ \/ /\ current[p] + n # RecordSize
                    /\ current' = [current EXCEPT ![p] = current[p] + n]
                    /\ record' = [record EXCEPT ![p] = read]
                    /\ UNCHANGED <<loop, round, got>>
                 \/ /\ current[p] + n = RecordSize
                    /\ read = Stream!RecordOf(q, round[p])
                    /\ Stream!Took(p, read)
<1> DEFINE c == current[p]
           from == stream[q]
           most == Stream!Min({RecordSize - c, Len(from)})
<1>1. /\ c \in Nat /\ from \in Seq(Bytes) /\ Len(from) \in Nat /\ RecordSize \in Nat
      /\ record[p] \in [1 .. RecordSize -> Bytes]
  BY SizeFacts, StreamFacts
<1>2. most \in Int /\ most <= RecordSize - c /\ most <= Len(from)
  <2>1. RecordSize - c \in Int /\ Len(from) \in Int
    BY <1>1
  <2> HIDE DEF c, from
  <2> QED
    BY <2>1, SmallerOfTwo
<1>3. PICK n \in 1 .. most :
          LET to == c + n
              read == [i \in 1 .. RecordSize |-> IF i \in (c + 1) .. to
                                                 THEN from[i - c] ELSE record[p][i]] IN
          /\ loop[p] = "read"
          /\ stream' = [stream EXCEPT ![q] = SubSeq(@, n + 1, Len(@))]
          /\ IF to = RecordSize
             THEN Stream!Took(p, read)
             ELSE /\ current' = [current EXCEPT ![p] = to]
                  /\ record' = [record EXCEPT ![p] = read]
                  /\ UNCHANGED <<loop, round, got>>
  BY DEF Stream!Read
<1> DEFINE to == c + n
           read == [i \in 1 .. RecordSize |-> IF i \in (c + 1) .. to
                                              THEN from[i - c] ELSE record[p][i]]
<1> HIDE DEF most
<1>4. n \in 1 .. Len(from) /\ n \in Nat /\ c + n <= RecordSize
  <2> HIDE DEF c, from
  <2> QED
    BY <1>1, <1>2
<1>5. Recorded(p, q) /\ InOrder(q, p) /\ ReadSoFar(p) = c
  BY <1>3 DEF StreamInv, Looping, ReadSoFar
<1>6. ASSUME NEW i \in (c + 1) .. to PROVE from[i - c] = Stream!Byte(q, round[p], i)
  <2>1. i - c \in 1 .. Len(from) /\ c + (i - c) = i /\ i <= RecordSize
    BY <1>1, <1>4
  <2> QED
    BY <1>5, <2>1 DEF InOrder
<1>7. ASSUME NEW i \in 1 .. to PROVE read[i] = Stream!Byte(q, round[p], i)
  <2>1. i \in 1 .. RecordSize
    BY <1>1, <1>4
  <2>2. CASE i \in (c + 1) .. to
    BY <1>6, <2>1, <2>2
  <2>3. CASE i \notin (c + 1) .. to
    <3>1. i \in 1 .. c
      BY <1>1, <1>4, <2>3
    <3> QED
      BY <1>3, <1>5, <2>1, <2>3, <3>1 DEF Recorded
  <2> QED
    BY <2>2, <2>3
<1>8. read \in [1 .. RecordSize -> Bytes]
  <2>1. ASSUME NEW i \in 1 .. RecordSize, i \in (c + 1) .. to PROVE from[i - c] \in Bytes
    <3>1. i - c \in 1 .. Len(from)
      BY <1>1, <1>4, <2>1
    <3> QED
      BY <1>1, <3>1
  <2> QED
    BY <1>1, <2>1
<1>9. to = RecordSize => read = Stream!RecordOf(q, round[p])
  BY <1>7 DEF Stream!RecordOf
<1>10. /\ loop[p] = "read"
       /\ stream' = [stream EXCEPT ![q] = SubSeq(@, n + 1, Len(@))]
       /\ IF to = RecordSize
          THEN Stream!Took(p, read)
          ELSE /\ current' = [current EXCEPT ![p] = to]
               /\ record' = [record EXCEPT ![p] = read]
               /\ UNCHANGED <<loop, round, got>>
  BY <1>3
<1> HIDE DEF read
<1> QED
  BY <1>4, <1>7, <1>8, <1>9, <1>10

\* Both peers read what the other's stream has next.
LEMMA ReadKeeps ==
    ASSUME StreamInv, NEW p \in Peers, Stream!Read(p)
    PROVE  StreamInv' /\ (Stream!RecordsSwapped!Next \/ UNCHANGED got)
<1>1. PICK q \in Peers \ {p} : Peers = {p, q} /\ Stream!Other(p) = q
  BY Opposite
<1>2. PICK n \in 1 .. Len(stream[q]), read \in [1 .. RecordSize -> Bytes] :
          /\ loop[p] = "read" /\ current[p] + n <= RecordSize
          /\ stream' = [stream EXCEPT ![q] = SubSeq(@, n + 1, Len(@))]
          /\ \A i \in 1 .. (current[p] + n) : read[i] = Stream!Byte(q, round[p], i)
          /\ \/ /\ current[p] + n # RecordSize
                /\ current' = [current EXCEPT ![p] = current[p] + n]
                /\ record' = [record EXCEPT ![p] = read]
                /\ UNCHANGED <<loop, round, got>>
             \/ /\ current[p] + n = RecordSize
                /\ read = Stream!RecordOf(q, round[p])
                /\ Stream!Took(p, read)
  BY <1>1, ReadFacts
<1> DEFINE c == current[p]
           l == Len(stream[q])
<1>3. /\ c \in Nat /\ l \in Nat /\ n \in Nat /\ n > 0 /\ n <= l /\ c + n <= RecordSize
      /\ RecordSize \in Nat /\ round[p] \in Nat /\ round[q] \in Nat
      /\ stream[q] \in Seq(Bytes)
  BY <1>1, <1>2, SizeFacts, StreamFacts
<1>4. /\ stream'[q] \in Seq(Bytes) /\ Len(stream'[q]) = l - n
      /\ \A i \in 1 .. (l - n) : stream'[q][i] = stream[q][n + i]
      /\ stream'[p] = stream[p]
  <2> DEFINE s1 == stream[q]
  <2>1. s1 \in Seq(Bytes) /\ n \in 1 .. Len(s1)
    BY <1>2, <1>3
  <2>2. /\ stream'[q] = SubSeq(s1, n + 1, Len(s1)) /\ stream'[p] = stream[p]
    BY <1>1, <1>2 DEF StreamInv, StreamTypes
  <2> HIDE DEF s1
  <2>3. /\ SubSeq(s1, n + 1, Len(s1)) \in Seq(Bytes)
        /\ Len(SubSeq(s1, n + 1, Len(s1))) = Len(s1) - n
        /\ \A i \in 1 .. (Len(s1) - n) : SubSeq(s1, n + 1, Len(s1))[i] = s1[n + i]
    BY <2>1, Cut
  <2> QED
    BY <2>2, <2>3 DEF s1
<1>5. stream' \in [Peers -> Seq(Bytes)]
  BY <1>2, <1>4 DEF StreamInv, StreamTypes
<1>6. /\ Looping(p) /\ ReadSoFar(p) = c /\ Written(p) = RecordSize
      /\ InOrder(q, p) /\ InStep(q, p) /\ Recorded(p, q) /\ Recorded(q, p)
      /\ Looping(q) => InOrder(p, q) /\ InStep(p, q)
      /\ Len(got[p]) = round[p] - 1 /\ Len(got[q]) = round[q] - 1 /\ round[p] <= Rounds
  BY <1>1, <1>2 DEF StreamInv, Looping, ReadSoFar, Written
<1>7. \/ /\ round[q] = round[p] /\ c + l <= RecordSize
         /\ Looping(q) => c + l = Written(q)
      \/ /\ round[q] = round[p] + 1 /\ c + l <= RecordSize + RecordSize
         /\ Looping(q) => c + l = RecordSize + Written(q)
  BY <1>3, <1>6 DEF InStep
<1>8. ASSUME NEW i \in 1 .. (l - n)
      PROVE  /\ c + n + i <= RecordSize => stream'[q][i] = Stream!Byte(q, round[p], c + n + i)
             /\ ~ (c + n + i <= RecordSize) =>
                   stream'[q][i] = Stream!Byte(q, round[p] + 1, c + n + i - RecordSize)
  <2>1. n + i \in 1 .. l /\ c + (n + i) = c + n + i
    BY <1>3
  <2>2. stream[q][n + i] = IF c + (n + i) <= RecordSize
                           THEN Stream!Byte(q, round[p], c + (n + i))
                           ELSE Stream!Byte(q, round[p] + 1, c + (n + i) - RecordSize)
    BY <1>6, <2>1 DEF InOrder
  <2>3. stream'[q][i] = stream[q][n + i]
    BY <1>4
  <2> DEFINE j == c + (n + i)
             k == c + n + i
             r == round[p]
             value == stream[q][n + i]
             left == stream'[q][i]
  <2>4. value = IF j <= RecordSize THEN Stream!Byte(q, r, j)
                ELSE Stream!Byte(q, r + 1, j - RecordSize)
    BY <1>3, <2>2
  <2>5. j = k /\ left = value /\ k \in Int /\ RecordSize \in Int
    BY <1>3, <2>1, <2>3
  <2>6. /\ k <= RecordSize => left = Stream!Byte(q, r, k)
        /\ ~ (k <= RecordSize) => left = Stream!Byte(q, r + 1, k - RecordSize)
    <3> HIDE DEF j, k, r, value, left
    <3> QED
      BY <2>4, <2>5
  <2> QED
    BY <1>3, <2>6
<1>t. /\ loop \in [Peers -> {"write", "read", "closed", "ended"}]
      /\ round \in [Peers -> Nat \ {0}] /\ current \in [Peers -> Nat]
      /\ record \in [Peers -> [1 .. RecordSize -> Bytes]]
      /\ got \in [Peers -> Seq([1 .. RecordSize -> Bytes])]
      /\ current[q] < RecordSize /\ (Looping(q) => round[q] <= Rounds)
  BY <1>1 DEF StreamInv, StreamTypes
<1> HIDE DEF c, l
<1>9. CASE /\ c + n # RecordSize
           /\ current' = [current EXCEPT ![p] = c + n]
           /\ record' = [record EXCEPT ![p] = read]
           /\ UNCHANGED <<loop, round, got>>
  <2>1. /\ current' \in [Peers -> Nat] /\ record' \in [Peers -> [1 .. RecordSize -> Bytes]]
        /\ current'[p] = c + n /\ current'[q] = current[q]
        /\ record'[p] = read /\ record'[q] = record[q]
    <3>1. /\ current' \in [Peers -> Nat]
          /\ current'[p] = c + n /\ current'[q] = current[q]
      BY <1>1, <1>3, <1>9, <1>t
    <3>2. /\ record' \in [Peers -> [1 .. RecordSize -> Bytes]]
          /\ record'[p] = read /\ record'[q] = record[q]
      BY <1>1, <1>9, <1>t
    <3> QED
      BY <3>1, <3>2
  <2>2. StreamTypes'
    BY <1>5, <1>9, <2>1 DEF StreamInv, StreamTypes
  <2>3. /\ Looping(p)' /\ Looping(q)' = Looping(q) /\ ReadSoFar(p)' = c + n
        /\ Written(p)' = RecordSize /\ Written(q)' = Written(q) /\ ReadSoFar(q)' = ReadSoFar(q)
    BY <1>2, <1>9, <2>1 DEF Looping, ReadSoFar, Written
  <2>4. ASSUME NEW x \in Peers
        PROVE  /\ current'[x] < RecordSize /\ Len(got'[x]) = round'[x] - 1
               /\ Looping(x)' => round'[x] <= Rounds
    <3>1. c + n < RecordSize
      BY <1>3, <1>9
    <3>2. CASE x = p
      BY <1>6, <1>9, <2>1, <3>1, <3>2
    <3>3. CASE x = q
      BY <1>6, <1>9, <1>t, <2>1, <2>3, <3>3
    <3> QED
      BY <1>1, <3>2, <3>3
  <2>5. Recorded(p, q)' /\ Recorded(q, p)'
    BY <1>2, <1>6, <1>9, <2>1 DEF Recorded, c
  <2>6. InOrder(q, p)'
    BY <1>4, <1>8, <1>9, <2>3 DEF InOrder
  <2>7. InStep(q, p)'
    <3>1. c + n + (l - n) = c + l
      BY <1>3
    <3> QED
      BY <1>4, <1>7, <1>9, <2>3, <3>1 DEF InStep
  <2>8. Looping(q) => InOrder(p, q)' /\ InStep(p, q)'
    BY <1>2, <1>4, <1>6, <1>9, <2>3 DEF InOrder, InStep
  <2>9. StreamInv'
    BY <1>1, <2>2, <2>3, <2>4, <2>5, <2>6, <2>7, <2>8 DEF StreamInv
  <2> QED
    BY <1>9, <2>9
<1>10. CASE /\ c + n = RecordSize
            /\ read = Stream!RecordOf(q, round[p])
            /\ Stream!Took(p, read)
  <2>1. /\ got' = [got EXCEPT ![p] = Append(@, read)]
        /\ round' = [round EXCEPT ![p] = @ + 1]
        /\ loop' = [loop EXCEPT ![p] = IF round[p] = Rounds THEN "closed" ELSE "write"]
        /\ record' = [record EXCEPT ![p] = Stream!RecordOf(p, round[p] + 1)]
        /\ current' = [current EXCEPT ![p] = 0]
    BY <1>10 DEF Stream!Took
  <2>2. Stream!RecordOf(p, round[p] + 1) \in [1 .. RecordSize -> Bytes]
    <3>1. ASSUME NEW i \in 1 .. RecordSize PROVE Stream!Byte(p, round[p] + 1, i) \in Bytes
      <4>1. round[p] + 1 \in Nat /\ i \in Nat
        BY <1>3
      <4> QED
        BY <4>1 DEF Bytes
    <3> QED
      BY <3>1 DEF Stream!RecordOf
  <2>3. /\ got'[p] = Append(got[p], read) /\ got'[q] = got[q]
        /\ round'[p] = round[p] + 1 /\ round'[q] = round[q]
        /\ loop'[p] = (IF round[p] = Rounds THEN "closed" ELSE "write") /\ loop'[q] = loop[q]
        /\ record'[p] = Stream!RecordOf(p, round[p] + 1) /\ record'[q] = record[q]
        /\ current'[p] = 0 /\ current'[q] = current[q]
    BY <1>1, <1>t, <2>1
  <2>4. StreamTypes'
    <3>1. got' \in [Peers -> Seq([1 .. RecordSize -> Bytes])]
      <4> DEFINE lists == Seq([1 .. RecordSize -> Bytes])
                 longer == Append(got[p], read)
      <4>1. longer \in lists
        BY <1>t
      <4>2. got \in [Peers -> lists] /\ got' = [got EXCEPT ![p] = longer]
        BY <1>t, <2>1
      <4> HIDE DEF lists, longer
      <4>3. got' \in [Peers -> lists]
        BY <4>1, <4>2
      <4> QED
        BY <4>3 DEF lists
    <3>2. round' \in [Peers -> Nat \ {0}] /\ current' \in [Peers -> Nat]
      <4>1. round[p] + 1 \in Nat \ {0} /\ 0 \in Nat
        BY <1>3
      <4> QED
        BY <1>t, <2>1, <4>1
    <3>3. /\ loop' \in [Peers -> {"write", "read", "closed", "ended"}]
          /\ record' \in [Peers -> [1 .. RecordSize -> Bytes]]
      BY <1>t, <2>1, <2>2
    <3> QED
      BY <1>5, <3>1, <3>2, <3>3 DEF StreamTypes
  <2>5. /\ Looping(p)' => loop'[p] = "write" /\ round[p] # Rounds
        /\ Looping(p)' => Written(p)' = 0
        /\ ReadSoFar(p)' = 0
        /\ Looping(q)' = Looping(q) /\ Written(q)' = Written(q) /\ ReadSoFar(q)' = ReadSoFar(q)
    BY <2>3 DEF Looping, Written, ReadSoFar
  <2>6. got[p] \in Seq([1 .. RecordSize -> Bytes])
    BY DEF StreamInv, StreamTypes
  <2>7. Len(got'[p]) = round'[p] - 1 /\ Len(got'[q]) = round'[q] - 1
    <3>1. Len(Append(got[p], read)) = Len(got[p]) + 1
      BY <2>6
    <3> QED
      BY <1>3, <1>6, <2>3, <3>1
  <2>8. ASSUME NEW x \in Peers
        PROVE  /\ current'[x] < RecordSize /\ Len(got'[x]) = round'[x] - 1
               /\ Looping(x)' => round'[x] <= Rounds
    <3>1. CASE x = p
      <4>1. Looping(p)' => round[p] + 1 <= Rounds
        BY <1>3, <1>6, <2>5, SizeFacts
      <4> QED
        BY <2>3, <2>7, <3>1, <4>1, SizeFacts
    <3>2. CASE x = q
      BY <1>t, <2>3, <2>5, <2>7, <3>2
    <3> QED
      BY <1>1, <3>1, <3>2
  <2>9. Recorded(p, q)' /\ Recorded(q, p)'
    BY <1>6, <2>3 DEF Recorded
  <2>10. InOrder(q, p)'
    <3>1. ASSUME NEW i \in 1 .. (l - n)
          PROVE  stream'[q][i] = Stream!Byte(q, round[p] + 1, i) /\ i <= RecordSize
      <4>1. ~ (c + n + i <= RecordSize) /\ c + n + i - RecordSize = i
        BY <1>3, <1>10
      <4>2. i <= RecordSize
        BY <1>3, <1>7, <1>10
      <4> QED
        BY <1>8, <4>1, <4>2
    <3> QED
      BY <1>4, <2>3, <2>5, <3>1 DEF InOrder
  <2>11. InStep(q, p)'
    <3>1. CASE /\ round[q] = round[p] /\ c + l <= RecordSize
               /\ Looping(q) => c + l = Written(q)
      <4>1. l - n = 0 /\ c + l = RecordSize
        BY <1>3, <1>10, <3>1
      <4>2. Looping(q) => loop[q] = "read"
        <5>1. Looping(q) => Written(q) = RecordSize
          BY <3>1, <4>1
        <5>2. loop[q] = "write" => Written(q) < RecordSize
          BY <1>t DEF Written
        <5> QED
          BY <1>3, <5>1, <5>2 DEF Looping
      <4> QED
        BY <1>4, <2>3, <2>5, <3>1, <4>1, <4>2 DEF InStep
    <3>2. CASE /\ round[q] = round[p] + 1 /\ c + l <= RecordSize + RecordSize
               /\ Looping(q) => c + l = RecordSize + Written(q)
      <4>1. l - n = (c + l) - RecordSize
        BY <1>3, <1>10
      <4>2. l - n <= RecordSize
        BY <1>3, <3>2, <4>1
      <4>3. Looping(q) => l - n = Written(q)
        <5>1. current[q] \in Nat /\ Written(q) \in Nat
          BY <1>1, <1>3, StreamFacts DEF Written
        <5> QED
          BY <1>3, <3>2, <4>1, <5>1, SMTT(20)
      <4>4. 0 + (l - n) = l - n
        BY <1>3
      <4> QED
        BY <1>4, <2>3, <2>5, <3>2, <4>2, <4>3, <4>4 DEF InStep
    <3> QED
      BY <1>7, <3>1, <3>2
  <2>12. ASSUME Looping(q) PROVE InOrder(p, q)' /\ InStep(p, q)'
    <3>1. InOrder(p, q)'
      BY <1>4, <1>6, <2>3, <2>5, <2>12 DEF InOrder
    <3>2. /\ ReadSoFar(q) \in Nat /\ Len(stream[p]) \in Nat
      BY <1>1, StreamFacts
    <3>3. \/ round[p] = round[q] /\ ReadSoFar(q) + Len(stream[p]) = RecordSize
          \/ round[q] = round[p] + 1 /\ ReadSoFar(q) = 0 /\ Len(stream[p]) = 0
      <4>1. InStep(p, q) /\ Looping(p) /\ Written(p) = RecordSize
        BY <1>6, <2>12
      <4>2. round[p] # round[q] + 1
        BY <1>3, <1>7
      <4> QED
        BY <4>1, <4>2 DEF InStep
    <3>4. CASE round[p] = round[q] /\ ReadSoFar(q) + Len(stream[p]) = RecordSize
      <4>1. round'[p] = round'[q] + 1 /\ RecordSize + 0 = RecordSize
            /\ RecordSize <= RecordSize + RecordSize
        BY <1>3, <2>3, <3>4
      <4>2. ReadSoFar(q)' + Len(stream'[p]) = RecordSize
        BY <1>4, <2>5, <3>4
      <4>3. Looping(p)' => ReadSoFar(q)' + Len(stream'[p]) = RecordSize + Written(p)'
        BY <2>5, <4>1, <4>2
      <4>4. ReadSoFar(q)' + Len(stream'[p]) <= RecordSize + RecordSize
        BY <4>1, <4>2
      <4> QED
        BY <3>1, <4>1, <4>3, <4>4 DEF InStep
    <3>5. CASE round[q] = round[p] + 1 /\ ReadSoFar(q) = 0 /\ Len(stream[p]) = 0
      <4>1. round'[p] = round'[q] /\ 0 <= RecordSize
        BY <1>3, <2>3, <3>5
      <4>2. ReadSoFar(q)' + Len(stream'[p]) = 0
        BY <1>4, <2>5, <3>5
      <4>3. Looping(p)' => ReadSoFar(q)' + Len(stream'[p]) = Written(p)'
        BY <2>5, <4>2
      <4>4. ReadSoFar(q)' + Len(stream'[p]) <= RecordSize
        BY <4>1, <4>2
      <4> QED
        BY <3>1, <4>1, <4>3, <4>4 DEF InStep
    <3> QED
      BY <3>1, <3>3, <3>4, <3>5
  <2>13. StreamInv'
    BY <1>1, <2>4, <2>5, <2>8, <2>9, <2>10, <2>11, <2>12 DEF StreamInv
  <2>14. Stream!RecordsSwapped!Deliver(p)
    <3>1. Stream!RecordsSwapped!Other(p) = q
      BY <1>1 DEF Stream!RecordsSwapped!Other, Peers
    <3>2. Len(got[p]) < Rounds /\ Len(got[p]) <= Len(got[q]) /\ Len(got[p]) + 1 = round[p]
      <4>1. round[p] <= round[q]
        BY <1>3, <1>7
      <4> QED
        BY <1>3, <1>6, <4>1, SizeFacts
    <3>3. got' = [got EXCEPT ![p] = Append(@, Stream!RecordOf(q, Len(got[p]) + 1))]
      BY <1>10, <2>1, <3>2
    <3> QED
      BY <3>1, <3>2, <3>3 DEF Stream!RecordsSwapped!Deliver
  <2> QED
    BY <2>13, <2>14 DEF Stream!RecordsSwapped!Next, Peers
<1> QED
  BY <1>2, <1>9, <1>10 DEF c

\* A peer that ends leaves the stream as it is.
LEMMA EndKeeps ==
    ASSUME StreamInv, NEW p \in Peers, loop' = [loop EXCEPT ![p] = "ended"],
           UNCHANGED <<round, current, stream, record, got>>
    PROVE  StreamInv'
<1>1. PICK q \in Peers \ {p} : Peers = {p, q}
  BY Opposite
<1>2. /\ loop'[p] = "ended" /\ loop'[q] = loop[q] /\ ~ Looping(p)'
      /\ loop' \in [Peers -> {"write", "read", "closed", "ended"}]
      /\ Looping(q)' = Looping(q) /\ Written(q)' = Written(q) /\ ReadSoFar(q)' = ReadSoFar(q)
  BY <1>1 DEF StreamInv, StreamTypes, Looping, Written, ReadSoFar
<1>3. StreamTypes'
  BY <1>2 DEF StreamInv, StreamTypes
<1>4. Recorded(p, q)' /\ Recorded(q, p)'
  BY <1>1, <1>2 DEF StreamInv, Recorded
<1>5. Looping(q) => InOrder(p, q)' /\ InStep(p, q)'
  BY <1>1, <1>2 DEF StreamInv, InOrder, InStep
<1>6. ASSUME NEW x \in Peers
      PROVE  /\ current'[x] < RecordSize /\ Len(got'[x]) = round'[x] - 1
             /\ Looping(x)' => round'[x] <= Rounds
  BY <1>1, <1>2 DEF StreamInv
<1> QED
  BY <1>1, <1>2, <1>3, <1>4, <1>5, <1>6 DEF StreamInv

\* Both begin to write their first record.
LEMMA StreamStart == Stream!Init => StreamInv
<1> SUFFICES ASSUME Stream!Init PROVE StreamInv
  OBVIOUS
<1>1. /\ loop = [p \in Peers |-> "write"] /\ round = [p \in Peers |-> 1]
      /\ current = [p \in Peers |-> 0] /\ stream = [p \in Peers |-> << >>]
      /\ record = [p \in Peers |-> Stream!RecordOf(p, 1)]
      /\ got = [p \in Peers |-> << >>]
  BY DEF Stream!Init, Peers
<1>2. \A p \in Peers : Stream!RecordOf(p, 1) \in [1 .. RecordSize -> Bytes]
  BY SizeFacts DEF Stream!RecordOf, Bytes
<1>3. StreamTypes
  BY <1>1, <1>2 DEF StreamTypes
<1>4. \A p \in Peers : /\ loop[p] = "write" /\ round[p] = 1 /\ current[p] = 0
                       /\ stream[p] = << >> /\ record[p] = Stream!RecordOf(p, 1)
                       /\ got[p] = << >>
  BY <1>1
<1>5. \A p \in Peers : ReadSoFar(p) = 0 /\ Written(p) = 0 /\ Looping(p)
  BY <1>4 DEF ReadSoFar, Written, Looping
<1>6. \A p \in Peers : current[p] < RecordSize /\ Len(got[p]) = round[p] - 1 /\ round[p] <= Rounds
  BY <1>4, SizeFacts
<1>7. \A p, q \in Peers : Recorded(p, q) /\ InOrder(p, q) /\ InStep(p, q)
  BY <1>4, <1>5, SizeFacts DEF Recorded, InOrder, InStep
<1> QED
  BY <1>3, <1>6, <1>7 DEF StreamInv

\* The invariant is kept.
LEMMA StreamNext == ASSUME StreamInv, [Stream!Next]_(Stream!vars) PROVE StreamInv'
<1>1. CASE UNCHANGED Stream!vars
  <2>1. UNCHANGED <<loop, round, current, stream, record, got>>
    BY <1>1 DEF Stream!vars
  <2> QED
    BY <2>1 DEF StreamInv, StreamTypes, Looping, Recorded, InOrder, InStep, ReadSoFar, Written
<1>2. CASE Stream!Next
  <2>1. PICK p \in Peers : Stream!Write(p) \/ Stream!Read(p) \/ Stream!Fail(p) \/ Stream!End(p)
    BY <1>2 DEF Stream!Next, Peers
  <2> QED
    BY <2>1, WriteKeeps, ReadKeeps, EndKeeps DEF Stream!Fail, Stream!End
<1> QED
  BY <1>1, <1>2

\* However send and recv cut the stream, whatever the kernel holds of it and
\* whoever ends: both peers read the records that the other wrote, whole, in
\* order and in step.
THEOREM RecordsArriveWhole == Stream!Spec => ImplementsSwap
<1>1. Stream!Init => Stream!RecordsSwapped!Init
  BY DEF Stream!Init, Stream!RecordsSwapped!Init
<1>2. StreamInv /\ [Stream!Next]_(Stream!vars) => [Stream!RecordsSwapped!Next]_got
  <2> SUFFICES ASSUME StreamInv, Stream!Next
               PROVE  Stream!RecordsSwapped!Next \/ UNCHANGED got
    BY DEF Stream!vars
  <2>1. PICK p \in Peers : Stream!Write(p) \/ Stream!Read(p) \/ Stream!Fail(p) \/ Stream!End(p)
    BY DEF Stream!Next, Peers
  <2>2. CASE Stream!Read(p)
    BY <2>2, ReadKeeps
  <2>3. CASE Stream!Write(p) \/ Stream!Fail(p) \/ Stream!End(p)
    BY <2>3 DEF Stream!Write, Stream!Fail, Stream!End
  <2> QED
    BY <2>1, <2>2, <2>3
<1> QED
  BY <1>1, <1>2, StreamStart, StreamNext, PTL DEF Stream!Spec, ImplementsSwap,
     Stream!ImplementsSwap, Stream!RecordsSwapped!Spec

\* The kernel never holds more than it has room for, and nobody begins more
\* rounds than there are.
StreamFits == \A p \in Peers : Len(stream[p]) <= Capacity /\ round[p] <= Rounds + 1

\* That is kept, too.
LEMMA StreamFitsNext ==
    ASSUME StreamInv, StreamFits, [Stream!Next]_(Stream!vars) PROVE StreamFits'
<1>1. CASE UNCHANGED Stream!vars
  BY <1>1 DEF StreamFits, Stream!vars
<1>2. CASE Stream!Next
  <2>1. PICK p \in Peers : Stream!Write(p) \/ Stream!Read(p) \/ Stream!Fail(p) \/ Stream!End(p)
    BY <1>2 DEF Stream!Next, Peers
  <2>2. PICK q \in Peers \ {p} : Peers = {p, q} /\ Stream!Other(p) = q
    BY <2>1, Opposite
  <2>3. CASE Stream!Write(p)
    <3> DEFINE most == Stream!Min({RecordSize - current[p], Capacity - Len(stream[p])})
    <3>1. /\ RecordSize - current[p] \in Int /\ Capacity - Len(stream[p]) \in Int
          /\ current[p] \in Nat /\ stream[p] \in Seq(Bytes) /\ current[p] < RecordSize
          /\ record[p] \in [1 .. RecordSize -> Bytes]
      BY SizeFacts, StreamFacts
    <3>2. most \in Int /\ most <= RecordSize - current[p] /\ most <= Capacity - Len(stream[p])
      BY <3>1, SmallerOfTwo
    <3>3. PICK res \in 1 .. most :
              stream' = [stream EXCEPT ![p] = @ \o SubSeq(record[p], current[p] + 1, current[p] + res)]
      BY <2>3 DEF Stream!Write
    <3> HIDE DEF most
    <3>4. current[p] + res \in Nat /\ current[p] <= current[p] + res /\ current[p] + res <= RecordSize
      BY <3>1, <3>2, SizeFacts
    <3>5. \A i \in current[p] + 1 .. current[p] + res : record[p][i] \in Bytes
      BY <3>1, <3>4, SizeFacts
    <3>6. Len(stream[p] \o SubSeq(record[p], current[p] + 1, current[p] + res))
             = Len(stream[p]) + (current[p] + res - current[p])
      BY <3>1, <3>4, <3>5, Extended
    <3>7. stream'[p] = stream[p] \o SubSeq(record[p], current[p] + 1, current[p] + res)
          /\ stream'[q] = stream[q] /\ round' = round
      BY <2>2, <2>3, <3>3 DEF StreamInv, StreamTypes, Stream!Write
    <3>8. Len(stream'[p]) <= Capacity
      <4>1. Len(stream'[p]) = Len(stream[p]) + (current[p] + res - current[p])
        BY <3>6, <3>7
      <4>2. res <= Capacity - Len(stream[p]) /\ Len(stream[p]) \in Nat
        BY <3>1, <3>2
      <4>3. \A l, c \in Nat : \A n, r \in Int : r <= n - l => l + (c + r - c) <= n
        OBVIOUS
      <4> QED
        BY <3>1, <4>1, <4>2, <4>3, SizeFacts
    <3> QED
      BY <2>2, <3>7, <3>8 DEF StreamFits
  <2>4. CASE Stream!Read(p)
    <3> DEFINE most == Stream!Min({RecordSize - current[p], Len(stream[q])})
    <3>1. /\ RecordSize - current[p] \in Int /\ Len(stream[q]) \in Nat /\ stream[q] \in Seq(Bytes)
          /\ round[p] \in Nat /\ Len(stream[q]) \in Int
      BY SizeFacts, StreamFacts
    <3>2. most \in Int /\ most <= Len(stream[q])
      BY <3>1, SmallerOfTwo
    <3>3. PICK res \in 1 .. most :
              /\ stream' = [stream EXCEPT ![q] = SubSeq(@, res + 1, Len(@))]
              /\ round' = [round EXCEPT ![p] = @ + 1] \/ round' = round
      BY <2>2, <2>4 DEF Stream!Read, Stream!Took
    <3> HIDE DEF most
    <3>4. Len(SubSeq(stream[q], res + 1, Len(stream[q]))) = Len(stream[q]) - res
      BY <3>1, <3>2, Cut
    <3>5. stream'[q] = SubSeq(stream[q], res + 1, Len(stream[q])) /\ stream'[p] = stream[p]
      BY <2>2, <3>3 DEF StreamInv, StreamTypes
    <3>6. Len(stream'[q]) <= Capacity
      BY <3>1, <3>2, <3>4, <3>5, SizeFacts DEF StreamFits
    <3>7. \A x \in Peers : round'[x] <= Rounds + 1
      <4>1. round[p] <= Rounds
        BY <2>4 DEF Stream!Read, Looping, StreamInv
      <4>2. round \in [Peers -> Nat \ {0}] /\ \A x \in Peers : round[x] <= Rounds + 1
        BY DEF StreamFits, StreamInv, StreamTypes
      <4> QED
        BY <3>3, <4>1, <4>2, SizeFacts
    <3> QED
      BY <2>2, <3>5, <3>6, <3>7 DEF StreamFits
  <2>5. CASE Stream!Fail(p) \/ Stream!End(p)
    BY <2>5 DEF StreamFits, Stream!Fail, Stream!End
  <2> QED
    BY <2>1, <2>3, <2>4, <2>5
<1> QED
  BY <1>1, <1>2

\* The stream keeps its types.
LEMMA StreamTypesHold == Stream!Spec => []Stream!TypeOK
<1>1. Stream!Init => StreamFits
  BY SizeFacts DEF Stream!Init, StreamFits, Peers
<1>2. StreamInv /\ StreamFits => Stream!TypeOK
  <2> SUFFICES ASSUME StreamInv, StreamFits PROVE Stream!TypeOK
    OBVIOUS
  <2>1. /\ loop \in [Peers -> {"write", "read", "closed", "ended"}]
        /\ round \in [Peers -> 1 .. (Rounds + 1)] /\ current \in [Peers -> 0 .. (RecordSize - 1)]
    BY SizeFacts DEF StreamInv, StreamTypes, StreamFits
  <2>2. ASSUME NEW p \in Peers
        PROVE  Len(stream[p]) <= Capacity /\ Len(got[p]) <= Rounds
               /\ DOMAIN record[p] = 1 .. RecordSize
    BY SizeFacts DEF StreamInv, StreamTypes, StreamFits
  <2> QED
    BY <2>1, <2>2 DEF Stream!TypeOK, Peers
<1> QED
  BY <1>1, <1>2, StreamStart, StreamNext, StreamFitsNext, PTL DEF Stream!Spec

-----------------------------------------------------------------------------
(* Two queue pairs, as a path to each other.                               *)

\* What an end has written to its socket and read from it: its address and
\* then, call by call, a region.
Told(e) == (IF pc[e] = "write" THEN 0 ELSE 1) + calls[e]
           + (IF pc[e] \in {"hear", "post", "sent", "receive"} THEN 1 ELSE 0)
Heard(e) == (IF pc[e] \in {"write", "read"} THEN 0 ELSE 1) + calls[e]
            + (IF pc[e] \in {"post", "sent", "receive"} THEN 1 ELSE 0)

\* The writes it has posted and those it has seen completed; those of the
\* other that it has taken, and that have arrived.
Posted(e) == calls[e] + (IF pc[e] = "sent" \/ (e = "client" /\ pc[e] = "receive") THEN 1 ELSE 0)
Polled(e) == calls[e] + (IF e = "client" /\ pc[e] = "receive" THEN 1 ELSE 0)
Taken(e) == calls[e] + (IF e = "server" /\ pc[e] \in {"post", "sent"} THEN 1 ELSE 0)
Arrived(e) == Taken(e) + done[e].receive

\* The steps of a call belong to the calls there are.
StepFits(e) ==
    /\ pc[e] \in {"write", "read", "INIT", "RTR", "RTS"} => calls[e] = 0
    /\ pc[e] \in {"announce", "hear", "post", "sent", "receive"} =>
           kind = "RC" /\ calls[e] < CallsMade
    /\ pc[e] = "close" => kind = "RC" /\ calls[e] = CallsMade
    /\ pc[e] = "done" => calls[e] = IF kind = "RC" THEN CallsMade ELSE 0

\* The state of its queue pair at each step.
Standing(e) ==
    IF pc[e] \in {"write", "read", "INIT"} \/ (pc[e] = "done" /\ kind = "RC") THEN "RESET"
    ELSE IF pc[e] = "RTR" THEN "INIT" ELSE IF pc[e] = "RTS" THEN "RTR" ELSE "RTS"

\* The path connect() gives it, and the packet that comes next.
Path(a) == IF kind = "RC" THEN Pairs!RcPath(a) ELSE Pairs!UcPath(a)
Packet(e) == [psn |-> Arrived(e), path |-> Pairs!RcPath(Pairs!Address(e)),
              qpn |-> Pairs!Address(e).qpn]

\* The attributes of e's queue pair fit q's address and what has passed between them.
PairFits(e, q) ==
    /\ qp[e].STATE = Standing(e)
    /\ Standing(e) # "RESET" /\ kind = "RC" => "WRITE" \in qp[e].ACCESS_FLAGS
    /\ Standing(e) \in {"RTR", "RTS"} /\ kind # "UD" =>
           /\ qp[e].AV = Path(Pairs!Address(q)) /\ qp[e].DEST_QPN = Pairs!Address(q).qpn
           /\ qp[e].PATH_MTU = 4096 /\ qp[e].RQ_PSN = Arrived(e)
           /\ fabric = "roce" => kind = "RC"
    /\ Standing(e) = "RTS" /\ kind # "UD" => qp[e].SQ_PSN = Posted(e)

\* What q has told e is read or in e's socket.
HeardFits(e, q) ==
    /\ Told(q) = Heard(e) + Len(tcp[e])
    /\ \A i \in 1 .. Len(tcp[e]) : tcp[e][i] = Pairs!Address(q)
    /\ pc[e] \notin {"write", "read"} => known[e] = Pairs!Address(q)

\* What q has posted has arrived, all but one packet, and what has arrived q
\* has seen or will see completed.
ArrivedFits(e, q) ==
    /\ Arrived(e) = Polled(q) + done[q].write
    /\ \/ flight[e] = << >> /\ Posted(q) = Arrived(e)
       \/ flight[e] = <<Packet(e)>> /\ Posted(q) = Arrived(e) + 1

\* The types of the variables.
SetupTypes ==
    /\ kind \in {"RC", "UC", "UD"} /\ fabric \in {"infiniband", "roce"}
    /\ DOMAIN qp = Peers /\ \A e \in Peers : DOMAIN qp[e] = Pairs!Attrs
    /\ pc \in [Peers -> Pairs!Steps] /\ calls \in [Peers -> Nat] /\ DOMAIN known = Peers
    /\ tcp \in [Peers -> Seq({Pairs!Address(e) : e \in Peers})] /\ DOMAIN flight = Peers
    /\ done \in [Peers -> [write : Nat, receive : Nat]]
    /\ threw \subseteq Peers

\* The inductive invariant: also a process has ended only where its port
\* refuses a path, and nothing is lost.
SetupInv ==
    /\ SetupTypes
    /\ fabric = "roce" => \A e \in Peers : port[e].gid # "none"
    /\ \A e \in Peers : StepFits(e) /\ (e \in threw => pc[e] = "RTR" /\ kind # "UD"
                                          /\ (MtuRefused \/ (kind = "UC" /\ fabric = "roce")))
    /\ \A e \in Peers : \A q \in Peers \ {e} :
          PairFits(e, q) /\ HeardFits(e, q) /\ ArrivedFits(e, q)
    /\ lost = 0

\* Each peer faces the other.
LEMMA Facing ==
    ASSUME NEW e \in Peers
    PROVE  \E q \in Peers \ {e} : Peers = {e, q} /\ Pairs!Peer(e) = q /\ Pairs!Peer(q) = e
  BY DEF Pairs!Peer, Peers

\* A flight of one packet.
LEMMA OnePacket ==
    ASSUME NEW x
    PROVE  /\ Append(<< >>, x) = <<x>> /\ Head(<<x>>) = x /\ Tail(<<x>>) = << >>
           /\ Len(<<x>>) = 1 /\ <<x>> # << >> /\ Len(<< >>) = 0
<1>1. << >> \in Seq({x}) /\ <<x>> \in Seq({x})
  OBVIOUS
<1> QED
  BY <1>1

\* A step of an end changes what it has told, heard, posted, polled and taken
\* by what the step is, and nothing of the other's.
LEMMA Passes ==
    ASSUME SetupInv, NEW e \in Peers, NEW q \in Peers \ {e}, Pairs!Passed(e), pc[e] # "done",
           kind' = kind
    PROVE  /\ pc' \in [Peers -> Pairs!Steps] /\ calls' \in [Peers -> Nat]
           /\ StepFits(e)' /\ StepFits(q)' /\ pc'[e] = Pairs!After(e)
           /\ pc'[q] = pc[q] /\ calls'[q] = calls[q]
           /\ Told(q)' = Told(q) /\ Heard(q)' = Heard(q) /\ Posted(q)' = Posted(q)
           /\ Polled(q)' = Polled(q) /\ Taken(q)' = Taken(q) /\ Standing(q)' = Standing(q)
           /\ Told(e)' = Told(e) + (IF pc[e] \in {"write", "announce"} THEN 1 ELSE 0)
           /\ Heard(e)' = Heard(e) + (IF pc[e] \in {"read", "hear"} THEN 1 ELSE 0)
           /\ Posted(e)' = Posted(e) + (IF pc[e] = "post" THEN 1 ELSE 0)
           /\ Polled(e)' = Polled(e) + (IF pc[e] = "sent" THEN 1 ELSE 0)
           /\ Taken(e)' = Taken(e) + (IF pc[e] = "receive" THEN 1 ELSE 0)
           /\ pc[e] \notin {"write", "announce"} => Told(e)' = Told(e)
           /\ pc[e] \notin {"read", "hear"} => Heard(e)' = Heard(e)
           /\ pc[e] # "post" => Posted(e)' = Posted(e)
           /\ pc[e] # "sent" => Polled(e)' = Polled(e)
           /\ pc[e] # "receive" => Taken(e)' = Taken(e)
           /\ pc[e] \notin {"INIT", "RTR", "RTS", "close"} => Standing(e)' = Standing(e)
           /\ pc[e] = "INIT" => Standing(e)' = "INIT"
           /\ pc[e] = "RTR" => Standing(e)' = "RTR"
           /\ pc[e] = "RTS" => Standing(e)' = "RTS"
           /\ pc[e] = "close" => Standing(e)' = "RESET"
<1>1. /\ pc \in [Peers -> Pairs!Steps] /\ calls \in [Peers -> Nat] /\ CallsMade \in Nat
      /\ StepFits(e) /\ StepFits(q) /\ kind \in {"RC", "UC", "UD"}
  BY PartsAssumption DEF SetupInv, SetupTypes, Pairs!SetupAssumption
<1>2. /\ pc' = [pc EXCEPT ![e] = Pairs!After(e)]
      /\ calls' = [calls EXCEPT ![e] = IF pc[e] = Pairs!Last(e) THEN calls[e] + 1 ELSE calls[e]]
  BY DEF Pairs!Passed
<1>3. pc[e] \in Pairs!Steps \ {"done"} /\ calls[e] \in Nat /\ e \in {"client", "server"}
  BY <1>1 DEF Peers
<1>4. Pairs!After(e) \in Pairs!Steps
  BY <1>3 DEF Pairs!After, Pairs!Calling, Pairs!Steps
<1>5. /\ pc' \in [Peers -> Pairs!Steps] /\ calls' \in [Peers -> Nat]
      /\ pc'[e] = Pairs!After(e) /\ pc'[q] = pc[q] /\ calls'[q] = calls[q]
      /\ calls'[e] = IF pc[e] = Pairs!Last(e) THEN calls[e] + 1 ELSE calls[e]
  BY <1>1, <1>2, <1>3, <1>4
<1>6. /\ Told(q)' = Told(q) /\ Heard(q)' = Heard(q) /\ Posted(q)' = Posted(q)
      /\ Polled(q)' = Polled(q) /\ Taken(q)' = Taken(q) /\ Standing(q)' = Standing(q)
      /\ StepFits(q)'
  BY <1>1, <1>5 DEF Told, Heard, Posted, Polled, Taken, Standing, StepFits
<1>7. StepFits(e)'
  BY <1>1, <1>3, <1>5 DEF StepFits, Pairs!After, Pairs!Calling, Pairs!Last, Pairs!Steps
<1>8. /\ Told(e)' = Told(e) + (IF pc[e] \in {"write", "announce"} THEN 1 ELSE 0)
      /\ Heard(e)' = Heard(e) + (IF pc[e] \in {"read", "hear"} THEN 1 ELSE 0)
  BY <1>1, <1>3, <1>5 DEF Told, Heard, Pairs!After, Pairs!Calling, Pairs!Last, Pairs!Steps
<1>9. /\ Posted(e)' = Posted(e) + (IF pc[e] = "post" THEN 1 ELSE 0)
      /\ Polled(e)' = Polled(e) + (IF pc[e] = "sent" THEN 1 ELSE 0)
      /\ Taken(e)' = Taken(e) + (IF pc[e] = "receive" THEN 1 ELSE 0)
  BY <1>1, <1>3, <1>5 DEF Posted, Polled, Taken, Pairs!After, Pairs!Calling, Pairs!Last,
     Pairs!Steps
<1>10. /\ pc[e] \notin {"INIT", "RTR", "RTS", "close"} => Standing(e)' = Standing(e)
       /\ pc[e] = "INIT" => Standing(e)' = "INIT"
       /\ pc[e] = "RTR" => Standing(e)' = "RTR"
       /\ pc[e] = "RTS" => Standing(e)' = "RTS"
       /\ pc[e] = "close" => Standing(e)' = "RESET"
  BY <1>1, <1>3, <1>5 DEF Standing, StepFits, Pairs!After, Pairs!Calling, Pairs!Steps
<1>11. /\ pc[e] \notin {"write", "announce"} => Told(e)' = Told(e)
       /\ pc[e] \notin {"read", "hear"} => Heard(e)' = Heard(e)
  <2>1. Told(e) \in Nat /\ Heard(e) \in Nat
    BY <1>3 DEF Told, Heard
  <2> QED
    BY <1>8, <2>1
<1>12. /\ pc[e] # "post" => Posted(e)' = Posted(e)
       /\ pc[e] # "sent" => Polled(e)' = Polled(e)
       /\ pc[e] # "receive" => Taken(e)' = Taken(e)
  <2>1. Posted(e) \in Nat /\ Polled(e) \in Nat /\ Taken(e) \in Nat
    BY <1>3 DEF Posted, Polled, Taken
  <2> QED
    BY <1>9, <2>1
<1> QED
  BY <1>5, <1>6, <1>7, <1>8, <1>9, <1>10, <1>11, <1>12

\* What the counts say of each other.
LEMMA CountFacts ==
    ASSUME SetupInv, NEW e \in Peers, NEW q \in Peers \ {e}
    PROVE  /\ Told(e) \in Nat /\ Heard(e) \in Nat /\ Posted(e) \in Nat /\ Polled(e) \in Nat
           /\ Taken(e) \in Nat /\ Arrived(e) \in Nat /\ Len(tcp[e]) \in Nat
           /\ done[e].write \in Nat /\ done[e].receive \in Nat
           /\ PairFits(e, q) /\ HeardFits(e, q) /\ ArrivedFits(e, q) /\ StepFits(e)
           /\ Posted(e) <= Polled(e) + 1 /\ (pc[e] = "post" => Posted(e) = Polled(e))
           /\ Posted(e) + 1 <= Told(q) \/ Posted(e) = 0
           /\ Standing(e) # "RTS" => Told(e) <= 1 \/ pc[e] = "done"
<1>1. /\ pc[e] \in Pairs!Steps /\ calls[e] \in Nat /\ done[e] \in [write : Nat, receive : Nat]
      /\ tcp[e] \in Seq({Pairs!Address(p) : p \in Peers}) /\ e \in {"client", "server"}
      /\ pc[q] \in Pairs!Steps /\ calls[q] \in Nat
  BY DEF SetupInv, SetupTypes, Peers
<1>2. PairFits(e, q) /\ HeardFits(e, q) /\ ArrivedFits(e, q) /\ StepFits(e)
  BY DEF SetupInv
<1>3. /\ Told(e) \in Nat /\ Heard(e) \in Nat /\ Posted(e) \in Nat /\ Polled(e) \in Nat
      /\ Taken(e) \in Nat /\ Told(q) \in Nat
  <2>0. calls[e] \in Nat /\ calls[q] \in Nat
    BY <1>1
  <2>1. Told(e) \in Nat /\ Told(q) \in Nat
    BY <2>0 DEF Told
  <2>2. Heard(e) \in Nat
    BY <2>0 DEF Heard
  <2>3. Posted(e) \in Nat /\ Polled(e) \in Nat /\ Taken(e) \in Nat
    BY <2>0 DEF Posted, Polled, Taken
  <2> QED
    BY <2>1, <2>2, <2>3
<1>4. /\ done[e].write \in Nat /\ done[e].receive \in Nat /\ Len(tcp[e]) \in Nat
  BY <1>1
<1>5. Arrived(e) \in Nat
  BY <1>3, <1>4 DEF Arrived
<1>6. Posted(e) <= Polled(e) + 1 /\ (pc[e] = "post" => Posted(e) = Polled(e))
  <2>1. CASE e = "client" /\ pc[e] = "receive"
    BY <1>1, <2>1 DEF Posted, Polled
  <2>2. CASE ~ (e = "client" /\ pc[e] = "receive")
    <3>1. Polled(e) = calls[e] /\ (Posted(e) = calls[e] \/ Posted(e) = calls[e] + 1)
          /\ (pc[e] = "post" => Posted(e) = calls[e])
      BY <1>1, <2>2 DEF Posted, Polled
    <3> QED
      BY <1>1, <3>1
  <2> QED
    BY <2>1, <2>2
<1>7. Posted(e) + 1 <= Heard(e) \/ Posted(e) = 0
  <2>1. CASE pc[e] \in {"write", "read"}
    BY <1>1, <1>2, <2>1 DEF Posted, StepFits
  <2>2. CASE pc[e] \notin {"write", "read"}
    BY <1>1, <2>2 DEF Posted, Heard
  <2> QED
    BY <2>1, <2>2
<1>8. Heard(e) <= Told(q)
  BY <1>2, <1>3, <1>4 DEF HeardFits
<1>9. Standing(e) # "RTS" => Told(e) <= 1 \/ pc[e] = "done"
  BY <1>1, <1>2 DEF Standing, Told, StepFits, Pairs!Steps
<1> QED
  BY <1>2, <1>3, <1>4, <1>5, <1>6, <1>7, <1>8, <1>9

\* What a step leaves alone still fits.
LEMMA Stays ==
    ASSUME SetupInv, NEW e \in Peers, NEW q \in Peers \ {e}, UNCHANGED <<kind, fabric, port>>
    PROVE  /\ Pairs!Address(e)' = Pairs!Address(e)
           /\ qp'[e] = qp[e] /\ Standing(e)' = Standing(e) /\ Arrived(e)' = Arrived(e)
                  /\ Posted(e)' = Posted(e) => PairFits(e, q)'
           /\ tcp'[e] = tcp[e] /\ Told(q)' = Told(q) /\ Heard(e)' = Heard(e)
                  /\ (pc'[e] \notin {"write", "read"} => known'[e] = Pairs!Address(q)) =>
                  HeardFits(e, q)'
           /\ flight'[e] = flight[e] /\ Arrived(e)' = Arrived(e) /\ Posted(q)' = Posted(q)
                  /\ Polled(q)' + done'[q].write = Polled(q) + done[q].write =>
                  ArrivedFits(e, q)'
<1>1. PairFits(e, q) /\ HeardFits(e, q) /\ ArrivedFits(e, q)
  BY DEF SetupInv
<1>2. Pairs!Address(e)' = Pairs!Address(e) /\ Pairs!Address(q)' = Pairs!Address(q)
  BY DEF Pairs!Address
<1>3. \A a : Path(a)' = Path(a)
  BY DEF Path, Pairs!RcPath, Pairs!UcPath
<1>4. ASSUME qp'[e] = qp[e], Standing(e)' = Standing(e), Arrived(e)' = Arrived(e),
             Posted(e)' = Posted(e)
      PROVE  PairFits(e, q)'
  BY <1>1, <1>2, <1>3, <1>4 DEF PairFits, Path, Pairs!RcPath, Pairs!UcPath
<1>5. ASSUME tcp'[e] = tcp[e], Told(q)' = Told(q), Heard(e)' = Heard(e),
             pc'[e] \notin {"write", "read"} => known'[e] = Pairs!Address(q)
      PROVE  HeardFits(e, q)'
  BY <1>1, <1>2, <1>5 DEF HeardFits
<1>6. ASSUME flight'[e] = flight[e], Arrived(e)' = Arrived(e), Posted(q)' = Posted(q),
             Polled(q)' + done'[q].write = Polled(q) + done[q].write
      PROVE  ArrivedFits(e, q)'
  <2>1. Packet(e)' = Packet(e)
    BY <1>2, <1>6 DEF Packet, Pairs!RcPath
  <2> QED
    BY <1>1, <1>6, <2>1 DEF ArrivedFits
<1> QED
  BY <1>2, <1>4, <1>5, <1>6

\* The invariant is what holds of each end and each direction.
LEMMA Rejoined ==
    ASSUME SetupInv, NEW e \in Peers, NEW q \in Peers \ {e}, Peers = {e, q},
           UNCHANGED <<kind, fabric, port, lost, threw>>, SetupTypes', StepFits(e)', StepFits(q)',
           pc'[q] = pc[q], e \notin threw,
           PairFits(e, q)', PairFits(q, e)', HeardFits(e, q)', HeardFits(q, e)',
           ArrivedFits(e, q)', ArrivedFits(q, e)'
    PROVE  SetupInv'
<1>1. \A x \in Peers : x = e \/ x = q
  OBVIOUS
<1>2. \A x \in Peers : StepFits(x)'
  BY <1>1
<1>3. \A x \in Peers : x \in threw' => pc'[x] = "RTR" /\ kind' # "UD"
                          /\ (MtuRefused \/ (kind' = "UC" /\ fabric' = "roce"))
  BY <1>1 DEF SetupInv
<1>4. \A x \in Peers : \A y \in Peers \ {x} :
          PairFits(x, y)' /\ HeardFits(x, y)' /\ ArrivedFits(x, y)'
  BY <1>1
<1>5. (fabric' = "roce" => \A x \in Peers : port'[x].gid # "none") /\ lost' = 0
  BY DEF SetupInv
<1> QED
  BY <1>2, <1>3, <1>4, <1>5 DEF SetupInv

\* An end tells the other something.
LEMMA TellKeeps ==
    ASSUME SetupInv, NEW e \in Peers, Pairs!WriteAddress(e) \/ Pairs!Announce(e)
    PROVE  SetupInv'
<1>1. PICK q \in Peers \ {e} : Peers = {e, q} /\ Pairs!Peer(e) = q
  BY Facing
<1>2. /\ pc[e] \in {"write", "announce"} /\ e \notin threw /\ Pairs!Passed(e)
      /\ tcp' = [tcp EXCEPT ![q] = Append(@, Pairs!Address(e))]
      /\ UNCHANGED <<kind, fabric, port, qp, known, flight, done, lost, threw>>
  BY <1>1 DEF Pairs!WriteAddress, Pairs!Announce, Pairs!At, Pairs!ends
<1>3. /\ pc' \in [Peers -> Pairs!Steps] /\ calls' \in [Peers -> Nat]
      /\ StepFits(e)' /\ StepFits(q)' /\ pc'[q] = pc[q] /\ pc'[e] = Pairs!After(e)
      /\ Told(q)' = Told(q) /\ Heard(q)' = Heard(q) /\ Posted(q)' = Posted(q)
      /\ Polled(q)' = Polled(q) /\ Taken(q)' = Taken(q) /\ Standing(q)' = Standing(q)
      /\ Told(e)' = Told(e) + 1 /\ Heard(e)' = Heard(e) /\ Posted(e)' = Posted(e)
      /\ Polled(e)' = Polled(e) /\ Taken(e)' = Taken(e) /\ Standing(e)' = Standing(e)
  BY <1>2, Passes
<1>4. Arrived(e)' = Arrived(e) /\ Arrived(q)' = Arrived(q)
  BY <1>2, <1>3 DEF Arrived
<1>5. /\ tcp[q] \in Seq({Pairs!Address(p) : p \in Peers}) /\ tcp'[e] = tcp[e]
      /\ tcp'[q] = Append(tcp[q], Pairs!Address(e))
  BY <1>2 DEF SetupInv, SetupTypes
<1>6. /\ tcp'[q] \in Seq({Pairs!Address(p) : p \in Peers}) /\ Len(tcp'[q]) = Len(tcp[q]) + 1
      /\ \A i \in 1 .. Len(tcp[q]) : tcp'[q][i] = tcp[q][i]
      /\ tcp'[q][Len(tcp[q]) + 1] = Pairs!Address(e)
  BY <1>5
<1>7. \A p \in Peers : Pairs!Address(p)' = Pairs!Address(p)
  BY <1>2 DEF Pairs!Address
<1>8. SetupTypes'
  <2>1. tcp' \in [Peers -> Seq({Pairs!Address(p) : p \in Peers})]
    BY <1>2, <1>6 DEF SetupInv, SetupTypes
  <2>2. {Pairs!Address(p) : p \in Peers}' = {Pairs!Address(p) : p \in Peers}
    BY <1>7
  <2>3. tcp' \in [Peers -> Seq({Pairs!Address(p) : p \in Peers}')]
    BY <2>1, <2>2
  <2> QED
    BY <1>2, <1>3, <2>3 DEF SetupInv, SetupTypes
<1>9. PairFits(e, q)' /\ PairFits(q, e)' /\ ArrivedFits(e, q)' /\ ArrivedFits(q, e)'
  BY <1>2, <1>3, <1>4, Stays
<1>10. pc'[e] \notin {"write", "read"} => pc[e] \notin {"write", "read"}
  BY <1>2, <1>3 DEF Pairs!After
<1>11. HeardFits(e, q)'
  <2>1. pc'[e] \notin {"write", "read"} => known'[e] = Pairs!Address(q)
    BY <1>2, <1>10 DEF SetupInv, HeardFits
  <2> QED
    BY <1>2, <1>3, <1>5, <2>1, Stays
<1>12. HeardFits(q, e)'
  <2>1. HeardFits(q, e) /\ Told(e) \in Nat /\ Heard(q) \in Nat /\ Len(tcp[q]) \in Nat
    BY CountFacts
  <2>2. Told(e)' = Heard(q)' + Len(tcp'[q])
    BY <1>3, <1>6, <2>1 DEF HeardFits
  <2>3. \A i \in 1 .. Len(tcp'[q]) : tcp'[q][i] = Pairs!Address(e)
    <3>1. \A i \in 1 .. (Len(tcp[q]) + 1) : i \in 1 .. Len(tcp[q]) \/ i = Len(tcp[q]) + 1
      BY <2>1
    <3> QED
      BY <1>6, <2>1, <3>1 DEF HeardFits
  <2> QED
    BY <1>2, <1>3, <1>7, <2>1, <2>2, <2>3 DEF HeardFits
<1> QED
  BY <1>1, <1>2, <1>3, <1>8, <1>9, <1>11, <1>12, Rejoined

\* A sequence without its first element.
LEMMA ButFirst ==
    ASSUME NEW S, NEW list \in Seq(S), list # << >>
    PROVE  /\ Len(list) \in Nat /\ Len(list) > 0 /\ Head(list) = list[1]
           /\ Tail(list) \in Seq(S) /\ Len(Tail(list)) = Len(list) - 1
           /\ \A i \in 1 .. (Len(list) - 1) : Tail(list)[i] = list[i + 1]
  OBVIOUS

\* An end reads what the other has told it.
LEMMA HearKeeps ==
    ASSUME SetupInv, NEW e \in Peers, Pairs!ReadAddress(e) \/ Pairs!Hear(e)
    PROVE  SetupInv'
<1>1. PICK q \in Peers \ {e} : Peers = {e, q}
  BY Facing
<1>2. /\ pc[e] \in {"read", "hear"} /\ e \notin threw /\ Pairs!Passed(e) /\ tcp[e] # << >>
      /\ tcp' = [tcp EXCEPT ![e] = Tail(@)]
      /\ UNCHANGED <<kind, fabric, port, qp, flight, done, lost, threw>>
      /\ \/ pc[e] = "read" /\ known' = [known EXCEPT ![e] = Head(tcp[e])]
         \/ pc[e] = "hear" /\ known' = known
  BY DEF Pairs!ReadAddress, Pairs!Hear, Pairs!At, Pairs!ends
<1>3. /\ pc' \in [Peers -> Pairs!Steps] /\ calls' \in [Peers -> Nat]
      /\ StepFits(e)' /\ StepFits(q)' /\ pc'[q] = pc[q] /\ pc'[e] = Pairs!After(e)
      /\ Told(q)' = Told(q) /\ Heard(q)' = Heard(q) /\ Posted(q)' = Posted(q)
      /\ Polled(q)' = Polled(q) /\ Taken(q)' = Taken(q) /\ Standing(q)' = Standing(q)
      /\ Told(e)' = Told(e) /\ Heard(e)' = Heard(e) + 1 /\ Posted(e)' = Posted(e)
      /\ Polled(e)' = Polled(e) /\ Taken(e)' = Taken(e) /\ Standing(e)' = Standing(e)
  BY <1>2, Passes
<1>4. Arrived(e)' = Arrived(e) /\ Arrived(q)' = Arrived(q)
  BY <1>2, <1>3 DEF Arrived
<1>5. /\ tcp[e] \in Seq({Pairs!Address(p) : p \in Peers}) /\ tcp'[q] = tcp[q]
      /\ tcp'[e] = Tail(tcp[e])
  BY <1>2 DEF SetupInv, SetupTypes
<1>6. /\ Len(tcp[e]) \in Nat /\ Len(tcp[e]) > 0 /\ Head(tcp[e]) = tcp[e][1]
      /\ tcp'[e] \in Seq({Pairs!Address(p) : p \in Peers}) /\ Len(tcp'[e]) = Len(tcp[e]) - 1
      /\ \A i \in 1 .. (Len(tcp[e]) - 1) : tcp'[e][i] = tcp[e][i + 1]
  <2> DEFINE all == {Pairs!Address(p) : p \in Peers}
             list == tcp[e]
  <2>1. list \in Seq(all) /\ list # << >> /\ tcp'[e] = Tail(list)
    BY <1>2, <1>5
  <2> HIDE DEF all, list
  <2>2. /\ Len(list) \in Nat /\ Len(list) > 0 /\ Head(list) = list[1]
        /\ Tail(list) \in Seq(all) /\ Len(Tail(list)) = Len(list) - 1
        /\ \A i \in 1 .. (Len(list) - 1) : Tail(list)[i] = list[i + 1]
    BY <2>1, ButFirst
  <2> QED
    BY <2>1, <2>2 DEF all, list
<1>7. \A p \in Peers : Pairs!Address(p)' = Pairs!Address(p)
  BY <1>2 DEF Pairs!Address
<1>8. SetupTypes'
  <2>1. tcp' \in [Peers -> Seq({Pairs!Address(p) : p \in Peers})]
    BY <1>2, <1>6 DEF SetupInv, SetupTypes
  <2>2. {Pairs!Address(p) : p \in Peers}' = {Pairs!Address(p) : p \in Peers}
    BY <1>7
  <2>3. tcp' \in [Peers -> Seq({Pairs!Address(p) : p \in Peers}')]
    BY <2>1, <2>2
  <2> QED
    BY <1>2, <1>3, <2>3 DEF SetupInv, SetupTypes
<1>9. PairFits(e, q)' /\ PairFits(q, e)' /\ ArrivedFits(e, q)' /\ ArrivedFits(q, e)'
  BY <1>2, <1>3, <1>4, Stays
<1>10. HeardFits(q, e)'
  <2>1. pc'[q] \notin {"write", "read"} => known'[q] = Pairs!Address(e)
    BY <1>2, <1>3 DEF SetupInv, SetupTypes, HeardFits
  <2> QED
    BY <1>2, <1>3, <1>5, <2>1, Stays
<1>11. HeardFits(e, q)'
  <2>1. HeardFits(e, q) /\ Told(q) \in Nat /\ Heard(e) \in Nat
    BY CountFacts
  <2>2. Told(q)' = Heard(e)' + Len(tcp'[e])
    BY <1>3, <1>6, <2>1 DEF HeardFits
  <2>3. \A i \in 1 .. Len(tcp'[e]) : tcp'[e][i] = Pairs!Address(q)
    <3>1. \A i \in 1 .. Len(tcp'[e]) : i \in 1 .. (Len(tcp[e]) - 1) /\ i + 1 \in 1 .. Len(tcp[e])
      BY <1>6
    <3> QED
      BY <1>6, <2>1, <3>1 DEF HeardFits
  <2>4. known'[e] = Pairs!Address(q)
    <3>1. CASE pc[e] = "read" /\ known' = [known EXCEPT ![e] = Head(tcp[e])]
      <4>1. tcp[e][1] = Pairs!Address(q)
        BY <1>6, <2>1 DEF HeardFits
      <4> QED
        BY <1>6, <3>1, <4>1 DEF SetupInv, SetupTypes
    <3>2. CASE pc[e] = "hear" /\ known' = known
      BY <2>1, <3>2 DEF HeardFits
    <3> QED
      BY <1>2, <3>1, <3>2
  <2> QED
    BY <1>7, <2>2, <2>3, <2>4 DEF HeardFits
<1> QED
  BY <1>1, <1>2, <1>3, <1>8, <1>9, <1>10, <1>11, Rejoined

\* An end posts a write; the other has all it posted before.
LEMMA PostKeeps ==
    ASSUME SetupInv, NEW e \in Peers, Pairs!Post(e)
    PROVE  SetupInv'
<1>1. PICK q \in Peers \ {e} : Peers = {e, q} /\ Pairs!Peer(e) = q
  BY Facing
<1> DEFINE packet == [psn |-> qp[e].SQ_PSN, path |-> qp[e].AV, qpn |-> qp[e].DEST_QPN]
<1>2. /\ pc[e] = "post" /\ e \notin threw /\ Pairs!Passed(e)
      /\ flight' = [flight EXCEPT ![q] = Append(@, packet)]
      /\ qp' = [qp EXCEPT ![e].SQ_PSN = @ + 1]
      /\ UNCHANGED <<kind, fabric, port, known, tcp, done, lost, threw>>
  BY <1>1 DEF Pairs!Post, Pairs!At, Pairs!ends
<1>c. /\ Told(e) \in Nat /\ Heard(e) \in Nat /\ Posted(e) \in Nat /\ Polled(e) \in Nat
      /\ Taken(e) \in Nat /\ Arrived(q) \in Nat /\ done[e].write \in Nat
      /\ PairFits(e, q) /\ HeardFits(e, q) /\ ArrivedFits(q, e) /\ StepFits(e)
      /\ Posted(e) = Polled(e)
  BY <1>2, CountFacts
<1>3. /\ pc' \in [Peers -> Pairs!Steps] /\ calls' \in [Peers -> Nat]
      /\ StepFits(e)' /\ StepFits(q)' /\ pc'[q] = pc[q] /\ pc'[e] = Pairs!After(e)
      /\ Told(q)' = Told(q) /\ Heard(q)' = Heard(q) /\ Posted(q)' = Posted(q)
      /\ Polled(q)' = Polled(q) /\ Taken(q)' = Taken(q) /\ Standing(q)' = Standing(q)
      /\ Told(e)' = Told(e) /\ Heard(e)' = Heard(e) /\ Posted(e)' = Posted(e) + 1
      /\ Polled(e)' = Polled(e) /\ Taken(e)' = Taken(e) /\ Standing(e)' = Standing(e)
  <2>1. Pairs!Passed(e) /\ pc[e] = "post" /\ kind' = kind
    BY <1>2
  <2>2. Told(e) \in Nat /\ Heard(e) \in Nat /\ Polled(e) \in Nat /\ Taken(e) \in Nat
    BY <1>c
  <2> QED
    BY <2>1, <2>2, Passes
<1>4. Arrived(e)' = Arrived(e) /\ Arrived(q)' = Arrived(q)
  BY <1>2, <1>3 DEF Arrived
<1>5. kind = "RC" /\ Standing(e) = "RTS"
  BY <1>2, <1>c DEF StepFits, Standing
<1>6. flight[q] = << >> /\ Posted(e) = Arrived(q) /\ Polled(e) + done[e].write = Polled(e)
  BY <1>c DEF ArrivedFits
<1>7. packet = Packet(q)
  BY <1>5, <1>6, <1>c DEF PairFits, Packet, Path
<1>8. /\ flight'[q] = <<Packet(q)>> /\ flight'[e] = flight[e] /\ DOMAIN flight' = Peers
  <2> HIDE DEF packet
  <2>1. DOMAIN flight = Peers
    BY DEF SetupInv, SetupTypes
  <2> QED
    BY <1>1, <1>2, <1>6, <1>7, <2>1, OnePacket
<1>9. /\ DOMAIN qp' = Peers /\ qp'[q] = qp[q] /\ DOMAIN qp'[e] = Pairs!Attrs
      /\ qp'[e]["SQ_PSN"] = qp[e]["SQ_PSN"] + 1
      /\ \A a \in Pairs!Attrs \ {"SQ_PSN"} : qp'[e][a] = qp[e][a]
  BY <1>2 DEF SetupInv, SetupTypes, Pairs!Attrs, Pairs!Reset
<1>10. Packet(q)' = Packet(q) /\ Pairs!Address(q)' = Pairs!Address(q)
       /\ Pairs!Address(e)' = Pairs!Address(e)
  BY <1>2, <1>4 DEF Packet, Pairs!Address, Pairs!RcPath
<1>11. SetupTypes'
  <2>1. {Pairs!Address(p) : p \in Peers}' = {Pairs!Address(p) : p \in Peers}
    BY <1>1, <1>10
  <2>2. \A x \in Peers : DOMAIN qp'[x] = Pairs!Attrs
    BY <1>1, <1>9 DEF SetupInv, SetupTypes
  <2> QED
    BY <1>2, <1>3, <1>8, <1>9, <2>1, <2>2 DEF SetupInv, SetupTypes
<1>12. PairFits(e, q)'
  <2>1. /\ qp'[e].STATE = qp[e].STATE /\ qp'[e].ACCESS_FLAGS = qp[e].ACCESS_FLAGS
        /\ qp'[e].AV = qp[e].AV /\ qp'[e].DEST_QPN = qp[e].DEST_QPN
        /\ qp'[e].PATH_MTU = qp[e].PATH_MTU /\ qp'[e].RQ_PSN = qp[e].RQ_PSN
    BY <1>9 DEF Pairs!Attrs, Pairs!Reset
  <2>2. qp'[e].SQ_PSN = Posted(e)'
    BY <1>3, <1>5, <1>9, <1>c DEF PairFits
  <2> QED
    BY <1>2, <1>3, <1>4, <1>5, <1>10, <1>c, <2>1, <2>2
       DEF PairFits, Path, Pairs!RcPath, Pairs!UcPath
<1>13. PairFits(q, e)' /\ ArrivedFits(e, q)'
  BY <1>2, <1>3, <1>4, <1>8, <1>9, Stays
<1>14. HeardFits(e, q)' /\ HeardFits(q, e)'
  <2>1. pc'[e] \notin {"write", "read"} => known'[e] = Pairs!Address(q)
    BY <1>2, <1>c DEF HeardFits
  <2>2. pc'[q] \notin {"write", "read"} => known'[q] = Pairs!Address(e)
    BY <1>2, <1>3 DEF SetupInv, HeardFits
  <2> QED
    BY <1>2, <1>3, <2>1, <2>2, Stays
<1>15. ArrivedFits(q, e)'
  BY <1>2, <1>3, <1>4, <1>6, <1>8, <1>10, <1>c DEF ArrivedFits
<1> QED
  BY <1>1, <1>2, <1>3, <1>11, <1>12, <1>13, <1>14, <1>15, Rejoined

\* What is polled moves from one count to the other.
LEMMA OneOver == \A a, b \in Nat : (a + 1) + (b - 1) = a + b
OBVIOUS

\* An end polls the completion of its write, or takes the other's.
LEMMA PollKeeps ==
    ASSUME SetupInv, NEW e \in Peers, Pairs!PollSend(e) \/ Pairs!PollReceive(e)
    PROVE  SetupInv'
<1>1. PICK q \in Peers \ {e} : Peers = {e, q}
  BY Facing
<1>2. /\ pc[e] \in {"sent", "receive"} /\ e \notin threw /\ Pairs!Passed(e)
      /\ UNCHANGED <<kind, fabric, port, qp, known, tcp, flight, lost, threw>>
      /\ \/ pc[e] = "sent" /\ done[e].write > 0 /\ done' = [done EXCEPT ![e].write = @ - 1]
         \/ pc[e] = "receive" /\ done[e].receive > 0
            /\ done' = [done EXCEPT ![e].receive = @ - 1]
  BY DEF Pairs!PollSend, Pairs!PollReceive, Pairs!At, Pairs!ends
<1>c. /\ Told(e) \in Nat /\ Heard(e) \in Nat /\ Posted(e) \in Nat /\ Polled(e) \in Nat
      /\ Taken(e) \in Nat /\ done[e].write \in Nat /\ done[e].receive \in Nat
      /\ StepFits(e) /\ HeardFits(e, q)
  BY CountFacts
<1>3. /\ pc' \in [Peers -> Pairs!Steps] /\ calls' \in [Peers -> Nat]
      /\ StepFits(e)' /\ StepFits(q)' /\ pc'[q] = pc[q] /\ pc'[e] = Pairs!After(e)
      /\ Told(q)' = Told(q) /\ Heard(q)' = Heard(q) /\ Posted(q)' = Posted(q)
      /\ Polled(q)' = Polled(q) /\ Taken(q)' = Taken(q) /\ Standing(q)' = Standing(q)
      /\ Told(e)' = Told(e) /\ Heard(e)' = Heard(e) /\ Posted(e)' = Posted(e)
      /\ Polled(e)' = Polled(e) + (IF pc[e] = "sent" THEN 1 ELSE 0)
      /\ Taken(e)' = Taken(e) + (IF pc[e] = "receive" THEN 1 ELSE 0)
      /\ Standing(e)' = Standing(e)
  BY <1>2, <1>c, Passes
<1>4. /\ done' \in [Peers -> [write : Nat, receive : Nat]] /\ done'[q] = done[q]
      /\ pc[e] = "sent" => done'[e].write = done[e].write - 1 /\ done'[e].receive = done[e].receive
      /\ pc[e] = "receive" => done'[e].receive = done[e].receive - 1
                              /\ done'[e].write = done[e].write
  <2>1. done \in [Peers -> [write : Nat, receive : Nat]]
    BY DEF SetupInv, SetupTypes
  <2>2. CASE pc[e] = "sent"
    BY <1>2, <1>c, <2>1, <2>2
  <2>3. CASE pc[e] = "receive"
    BY <1>2, <1>c, <2>1, <2>3
  <2> QED
    BY <1>2, <2>2, <2>3
<1>5. /\ Arrived(e)' = Arrived(e) /\ Arrived(q)' = Arrived(q)
      /\ Polled(e)' + done'[e].write = Polled(e) + done[e].write
      /\ Polled(q)' + done'[q].write = Polled(q) + done[q].write
  <2>1. /\ Arrived(q)' = Arrived(q)
        /\ Polled(q)' + done'[q].write = Polled(q) + done[q].write
    BY <1>3, <1>4 DEF Arrived
  <2>2. Taken(e)' + done'[e].receive = Taken(e) + done[e].receive
    <3>1. CASE pc[e] = "sent"
      BY <1>3, <1>4, <1>c, <3>1
    <3>2. CASE pc[e] = "receive"
      <4>1. Taken(e)' = Taken(e) + 1 /\ done'[e].receive = done[e].receive - 1
        BY <1>3, <1>4, <3>2
      <4> QED
        BY <1>c, <4>1, OneOver
    <3> QED
      BY <1>2, <3>1, <3>2
  <2>3. Polled(e)' + done'[e].write = Polled(e) + done[e].write
    <3>1. CASE pc[e] = "sent"
      <4>1. Polled(e)' = Polled(e) + 1 /\ done'[e].write = done[e].write - 1
        BY <1>3, <1>4, <3>1
      <4> QED
        BY <1>c, <4>1, OneOver
    <3>2. CASE pc[e] = "receive"
      BY <1>3, <1>4, <1>c, <3>2
    <3> QED
      BY <1>2, <3>1, <3>2
  <2> QED
    BY <2>1, <2>2, <2>3 DEF Arrived
<1>6. SetupTypes'
  <2>1. {Pairs!Address(p) : p \in Peers}' = {Pairs!Address(p) : p \in Peers}
    BY <1>2 DEF Pairs!Address
  <2> QED
    BY <1>2, <1>3, <1>4, <2>1 DEF SetupInv, SetupTypes
<1>7. PairFits(e, q)' /\ PairFits(q, e)' /\ ArrivedFits(e, q)' /\ ArrivedFits(q, e)'
  BY <1>2, <1>3, <1>5, Stays
<1>8. HeardFits(e, q)' /\ HeardFits(q, e)'
  <2>1. pc'[e] \notin {"write", "read"} => known'[e] = Pairs!Address(q)
    BY <1>2, <1>c DEF HeardFits
  <2>2. pc'[q] \notin {"write", "read"} => known'[q] = Pairs!Address(e)
    BY <1>2, <1>3 DEF SetupInv, HeardFits
  <2> QED
    BY <1>2, <1>3, <2>1, <2>2, Stays
<1> QED
  BY <1>1, <1>2, <1>3, <1>6, <1>7, <1>8, Rejoined

\* Who is sent a packet is there to take it; who is reset has nothing on the way.
LEMMA NobodyTooEarly ==
    ASSUME SetupInv, NEW e \in Peers, NEW q \in Peers \ {e}
    PROVE  /\ flight[e] # << >> => Standing(e) = "RTS" /\ kind = "RC"
           /\ pc[q] = "close" => flight[e] = << >>
<1>1. /\ Posted(q) \in Nat /\ Arrived(e) \in Nat /\ Told(e) \in Nat /\ Polled(q) \in Nat
      /\ done[e].receive \in Nat /\ done[q].write \in Nat /\ Taken(e) \in Nat
      /\ ArrivedFits(e, q) /\ StepFits(e) /\ StepFits(q)
      /\ Posted(q) + 1 <= Told(e) \/ Posted(q) = 0
      /\ Standing(e) # "RTS" => Told(e) <= 1 \/ pc[e] = "done"
  <2>1. e \in Peers \ {q}
    OBVIOUS
  <2> QED
    BY <2>1, CountFacts
<1>2. /\ pc[e] \in Pairs!Steps /\ pc[q] \in Pairs!Steps /\ CallsMade \in Nat
      /\ calls[e] \in Nat /\ calls[q] \in Nat /\ kind \in {"RC", "UC", "UD"}
  BY PartsAssumption DEF SetupInv, SetupTypes, Pairs!SetupAssumption
<1>3. /\ kind = "RC" => Posted(q) <= CallsMade
      /\ kind # "RC" => Posted(q) = 0
  BY <1>1, <1>2 DEF Posted, StepFits, Pairs!Steps
<1>4. kind = "RC" /\ pc[e] = "done" => Arrived(e) >= CallsMade
  BY <1>1, <1>2 DEF Arrived, Taken, StepFits
<1>5. pc[q] = "close" => Posted(q) = Polled(q)
  BY <1>1, <1>2 DEF Posted, Polled, StepFits
<1>6. ASSUME flight[e] # << >> PROVE Standing(e) = "RTS" /\ kind = "RC"
  <2>1. Posted(q) = Arrived(e) + 1
    BY <1>1, <1>6 DEF ArrivedFits
  <2>2. kind = "RC"
    BY <1>1, <1>3, <2>1
  <2>3. pc[e] # "done"
    BY <1>1, <1>2, <1>3, <1>4, <2>1, <2>2
  <2> QED
    BY <1>1, <2>1, <2>2, <2>3
<1>7. ASSUME pc[q] = "close" PROVE flight[e] = << >>
  BY <1>1, <1>5, <1>7 DEF ArrivedFits
<1> QED
  BY <1>6, <1>7

\* A packet is taken where it arrives.
LEMMA DeliverKeeps ==
    ASSUME SetupInv, NEW e \in Peers, Pairs!Deliver(e)
    PROVE  SetupInv'
<1>1. PICK q \in Peers \ {e} : Peers = {e, q} /\ Pairs!Peer(e) = q
  BY Facing
<1>2. flight[e] # << >> /\ Standing(e) = "RTS" /\ kind = "RC"
  BY <1>1, NobodyTooEarly DEF Pairs!Deliver
<1>3. /\ Posted(q) \in Nat /\ Arrived(e) \in Nat /\ Taken(e) \in Nat
      /\ PairFits(e, q) /\ ArrivedFits(e, q)
      /\ fabric \in {"infiniband", "roce"} /\ (fabric = "roce" => port[e].gid # "none")
  <2>1. q \in Peers /\ e \in Peers \ {q}
    BY <1>1
  <2> QED
    BY <1>1, <2>1, CountFacts DEF SetupInv, SetupTypes
<1>4. /\ flight[e] = <<Packet(e)>> /\ Posted(q) = Arrived(e) + 1
      /\ Head(flight[e]) = Packet(e) /\ Tail(flight[e]) = << >>
  <2>1. flight[e] = <<Packet(e)>> /\ Posted(q) = Arrived(e) + 1
    BY <1>2, <1>3 DEF ArrivedFits
  <2> QED
    BY <2>1, OnePacket
<1>5. /\ Pairs!Leads(Packet(e).path, e) /\ Packet(e).qpn = Pairs!Address(e).qpn
      /\ Packet(e).psn = Arrived(e)
  BY <1>3 DEF Packet, Pairs!Leads, Pairs!RcPath, Pairs!Address
<1>6. /\ qp[e].STATE \in {"RTR", "RTS"} /\ Packet(e).psn = qp[e].RQ_PSN
      /\ "WRITE" \in qp[e].ACCESS_FLAGS
  BY <1>2, <1>3, <1>5 DEF PairFits
<1>7. /\ flight' = [flight EXCEPT ![e] = Tail(@)]
      /\ qp' = [qp EXCEPT ![e].RQ_PSN = @ + 1]
      /\ done' = [done EXCEPT ![e].receive = @ + 1, ![q].write = @ + 1]
      /\ UNCHANGED <<kind, fabric, port, pc, calls, known, tcp, lost, threw>>
  BY <1>1, <1>4, <1>5, <1>6 DEF Pairs!Deliver, Pairs!ends
<1>8. /\ done' \in [Peers -> [write : Nat, receive : Nat]]
      /\ done'[e].receive = done[e].receive + 1 /\ done'[e].write = done[e].write
      /\ done'[q].write = done[q].write + 1 /\ done'[q].receive = done[q].receive
  <2>1. done \in [Peers -> [write : Nat, receive : Nat]]
    BY DEF SetupInv, SetupTypes
  <2> QED
    BY <1>1, <1>7, <2>1
<1>9. /\ DOMAIN qp' = Peers /\ qp'[q] = qp[q] /\ DOMAIN qp'[e] = Pairs!Attrs
      /\ qp'[e]["RQ_PSN"] = qp[e]["RQ_PSN"] + 1
      /\ \A a \in Pairs!Attrs \ {"RQ_PSN"} : qp'[e][a] = qp[e][a]
  BY <1>7 DEF SetupInv, SetupTypes, Pairs!Attrs, Pairs!Reset
<1>10. /\ flight'[e] = << >> /\ flight'[q] = flight[q] /\ DOMAIN flight' = Peers
  BY <1>4, <1>7 DEF SetupInv, SetupTypes
<1>11. /\ \A x \in Peers : /\ Told(x)' = Told(x) /\ Heard(x)' = Heard(x) /\ Posted(x)' = Posted(x)
                           /\ Polled(x)' = Polled(x) /\ Taken(x)' = Taken(x)
                           /\ Standing(x)' = Standing(x) /\ StepFits(x)'
                           /\ Pairs!Address(x)' = Pairs!Address(x)
  BY <1>7 DEF Told, Heard, Posted, Polled, Taken, Standing, StepFits, Pairs!Address, SetupInv
<1>12. Arrived(e)' = Arrived(e) + 1 /\ Arrived(q)' = Arrived(q)
  <2>1. done[e].receive \in Nat
    BY DEF SetupInv, SetupTypes
  <2> QED
    BY <1>3, <1>8, <1>11, <2>1 DEF Arrived
<1>13. SetupTypes'
  <2>1. {Pairs!Address(p) : p \in Peers}' = {Pairs!Address(p) : p \in Peers}
    BY <1>11
  <2>2. \A x \in Peers : DOMAIN qp'[x] = Pairs!Attrs
    BY <1>1, <1>9 DEF SetupInv, SetupTypes
  <2> QED
    BY <1>7, <1>8, <1>9, <1>10, <2>1, <2>2 DEF SetupInv, SetupTypes
<1>14. PairFits(e, q)'
  <2>1. /\ qp'[e].STATE = qp[e].STATE /\ qp'[e].ACCESS_FLAGS = qp[e].ACCESS_FLAGS
        /\ qp'[e].AV = qp[e].AV /\ qp'[e].DEST_QPN = qp[e].DEST_QPN
        /\ qp'[e].PATH_MTU = qp[e].PATH_MTU /\ qp'[e].SQ_PSN = qp[e].SQ_PSN
    BY <1>9 DEF Pairs!Attrs, Pairs!Reset
  <2>2. qp'[e].RQ_PSN = Arrived(e)'
    BY <1>2, <1>3, <1>9, <1>12 DEF PairFits
  <2> QED
    BY <1>2, <1>3, <1>7, <1>11, <2>1, <2>2 DEF PairFits, Path, Pairs!RcPath, Pairs!UcPath
<1>15. PairFits(q, e)' /\ ArrivedFits(q, e)'
  BY <1>7, <1>8, <1>9, <1>10, <1>11, <1>12, Stays
<1>16. HeardFits(e, q)' /\ HeardFits(q, e)'
  BY <1>7, <1>11, Stays DEF SetupInv, HeardFits
<1>17. ArrivedFits(e, q)'
  <2>1. Polled(q) \in Nat /\ done[q].write \in Nat
    BY <1>1, CountFacts
  <2>2. Arrived(e) = Polled(q) + done[q].write /\ flight'[e] = << >>
        /\ Posted(q)' = Posted(q) /\ Polled(q)' = Polled(q)
        /\ done'[q].write = done[q].write + 1
    BY <1>1, <1>3, <1>8, <1>10, <1>11 DEF ArrivedFits
  <2>3. Posted(q)' = Arrived(e)'
    BY <1>4, <1>12, <2>2
  <2>4. Arrived(e)' = Polled(q)' + done'[q].write
    BY <1>12, <2>1, <2>2
  <2> QED
    BY <2>2, <2>3, <2>4 DEF ArrivedFits
<1>18. \A x \in Peers : \A y \in Peers \ {x} :
          PairFits(x, y)' /\ HeardFits(x, y)' /\ ArrivedFits(x, y)'
  BY <1>1, <1>14, <1>15, <1>16, <1>17
<1> QED
  BY <1>7, <1>11, <1>13, <1>18 DEF SetupInv

\* An end resets its queue pair; the other has all that it has posted.
LEMMA ResetKeeps ==
    ASSUME SetupInv, NEW e \in Peers, Pairs!SetToResetState(e)
    PROVE  SetupInv'
<1>1. PICK q \in Peers \ {e} : Peers = {e, q} /\ Pairs!Peer(e) = q /\ e \in Peers \ {q}
  BY Facing
<1>2. /\ pc[e] = "close" /\ e \notin threw /\ Pairs!Passed(e)
      /\ qp' = [qp EXCEPT ![e] = Pairs!Reset]
      /\ lost' = lost + Len(flight[q]) /\ flight' = [flight EXCEPT ![q] = << >>]
      /\ UNCHANGED <<kind, fabric, port, known, tcp, done, threw>>
  BY <1>1 DEF Pairs!SetToResetState, Pairs!At, Pairs!ends
<1>3. /\ pc' \in [Peers -> Pairs!Steps] /\ calls' \in [Peers -> Nat]
      /\ StepFits(e)' /\ StepFits(q)' /\ pc'[q] = pc[q] /\ pc'[e] = Pairs!After(e)
      /\ Told(q)' = Told(q) /\ Heard(q)' = Heard(q) /\ Posted(q)' = Posted(q)
      /\ Polled(q)' = Polled(q) /\ Taken(q)' = Taken(q) /\ Standing(q)' = Standing(q)
      /\ Told(e)' = Told(e) /\ Heard(e)' = Heard(e) /\ Posted(e)' = Posted(e)
      /\ Polled(e)' = Polled(e) /\ Taken(e)' = Taken(e) /\ Standing(e)' = "RESET"
  BY <1>2, Passes
<1>4. Arrived(e)' = Arrived(e) /\ Arrived(q)' = Arrived(q)
  BY <1>2, <1>3 DEF Arrived
<1>5. flight[q] = << >> /\ lost = 0
  BY <1>1, <1>2, NobodyTooEarly DEF SetupInv
<1>6. /\ flight'[e] = flight[e] /\ flight'[q] = flight[q] /\ DOMAIN flight' = Peers
      /\ lost' = lost
  BY <1>2, <1>5, OnePacket DEF SetupInv, SetupTypes
<1>7. qp'[e] = Pairs!Reset /\ qp'[q] = qp[q] /\ DOMAIN qp' = Peers
  BY <1>2 DEF SetupInv, SetupTypes
<1>8. SetupTypes'
  <2>1. {Pairs!Address(p) : p \in Peers}' = {Pairs!Address(p) : p \in Peers}
    BY <1>2 DEF Pairs!Address
  <2>2. \A x \in Peers : DOMAIN qp'[x] = Pairs!Attrs
    BY <1>1, <1>7 DEF SetupInv, SetupTypes, Pairs!Attrs
  <2> QED
    BY <1>2, <1>3, <1>6, <1>7, <2>1, <2>2 DEF SetupInv, SetupTypes
<1>9. PairFits(e, q)'
  <2>1. qp'[e].STATE = "RESET"
    BY <1>7 DEF Pairs!Reset
  <2> QED
    BY <1>3, <2>1 DEF PairFits
<1>10. PairFits(q, e)' /\ ArrivedFits(e, q)' /\ ArrivedFits(q, e)'
  BY <1>2, <1>3, <1>4, <1>6, <1>7, Stays
<1>11. HeardFits(e, q)' /\ HeardFits(q, e)'
  <2>1. pc'[e] \notin {"write", "read"} => known'[e] = Pairs!Address(q)
    BY <1>2 DEF SetupInv, HeardFits
  <2>2. pc'[q] \notin {"write", "read"} => known'[q] = Pairs!Address(e)
    BY <1>2, <1>3 DEF SetupInv, HeardFits
  <2> QED
    BY <1>2, <1>3, <2>1, <2>2, Stays
<1> QED
  BY <1>1, <1>2, <1>3, <1>6, <1>8, <1>9, <1>10, <1>11, Rejoined

\* What connect() names and what it sets for a step to a state.
Named(e, to) == Pairs!Connecting(kind, known[e])[to].mask
Settings(e, to) == Pairs!Attributes(Pairs!Connecting(kind, known[e])[to].set)

\* What modify() takes of what connect() has set, for each step.
LEMMA ModifyTakes ==
    ASSUME SetupInv, NEW e \in Peers, NEW to \in {"INIT", "RTR", "RTS"}
    PROVE  /\ Pairs!Mandatory(kind)[to] \subseteq Named(e, to)
           /\ kind = "RC" /\ to = "INIT" =>
                 "ACCESS_FLAGS" \in Named(e, to) /\ "WRITE" \in Settings(e, to)["ACCESS_FLAGS"]
           /\ kind # "UD" /\ to = "RTR" =>
                 /\ {"AV", "DEST_QPN", "PATH_MTU", "RQ_PSN"} \subseteq Named(e, to)
                 /\ "ACCESS_FLAGS" \notin Named(e, to)
                 /\ Settings(e, to)["AV"] = Path(known[e]) /\ Settings(e, to)["DEST_QPN"] = known[e].qpn
                 /\ Settings(e, to)["PATH_MTU"] = 4096 /\ Settings(e, to)["RQ_PSN"] = 0
           /\ kind # "UD" /\ to = "RTS" =>
                 /\ {"AV", "DEST_QPN", "PATH_MTU", "RQ_PSN", "ACCESS_FLAGS"} \cap Named(e, to) = {}
                 /\ "SQ_PSN" \in Named(e, to) /\ Settings(e, to)["SQ_PSN"] = 0
<1>1. /\ kind \in {"RC", "UC", "UD"}
      /\ {"AV", "DEST_QPN", "PATH_MTU", "RQ_PSN", "SQ_PSN", "ACCESS_FLAGS"} \subseteq Pairs!Attrs
  BY DEF SetupInv, SetupTypes, Pairs!Attrs, Pairs!Reset
<1>2. Pairs!Mandatory(kind)[to] \subseteq Named(e, to)
  <2>1. CASE kind = "RC"
    BY <2>1 DEF Named, Pairs!Mandatory, Pairs!Connecting, Pairs!Rc
  <2>2. CASE kind = "UC"
    BY <2>2 DEF Named, Pairs!Mandatory, Pairs!Connecting, Pairs!Uc
  <2>3. CASE kind = "UD"
    BY <2>3 DEF Named, Pairs!Mandatory, Pairs!Connecting, Pairs!Ud
  <2> QED
    BY <1>1, <2>1, <2>2, <2>3
<1>3. CASE kind = "RC"
  <2>1. CASE to = "INIT"
    BY <1>1, <1>2, <1>3, <2>1 DEF Named, Settings, Pairs!Connecting, Pairs!Rc, Pairs!Attributes
  <2>2. CASE to = "RTR"
    BY <1>1, <1>2, <1>3, <2>2 DEF Named, Settings, Pairs!Connecting, Pairs!Rc, Pairs!Attributes, Path
  <2>3. CASE to = "RTS"
    BY <1>1, <1>2, <1>3, <2>3 DEF Named, Settings, Pairs!Connecting, Pairs!Rc, Pairs!Attributes
  <2> QED
    BY <2>1, <2>2, <2>3
<1>4. CASE kind = "UC"
  <2>1. CASE to = "INIT"
    BY <1>2, <1>4, <2>1
  <2>2. CASE to = "RTR"
    BY <1>1, <1>2, <1>4, <2>2 DEF Named, Settings, Pairs!Connecting, Pairs!Uc, Pairs!Attributes, Path
  <2>3. CASE to = "RTS"
    BY <1>1, <1>2, <1>4, <2>3 DEF Named, Settings, Pairs!Connecting, Pairs!Uc, Pairs!Attributes
  <2> QED
    BY <2>1, <2>2, <2>3
<1>5. CASE kind = "UD"
  BY <1>2, <1>5
<1> QED
  BY <1>1, <1>3, <1>4, <1>5

\* A step of connect() that the adapter accepts, or one that a port refuses.
LEMMA ModifyKeeps ==
    ASSUME SetupInv, NEW e \in Peers, NEW to \in {"INIT", "RTR", "RTS"}, Pairs!Modify(e, to)
    PROVE  SetupInv'
<1>1. PICK q \in Peers \ {e} : Peers = {e, q} /\ e \in Peers \ {q}
  BY Facing
<1> DEFINE mask == Named(e, to)
           new == Settings(e, to)
<1>2. /\ pc[e] = to /\ e \notin threw
      /\ UNCHANGED <<kind, fabric, port, known, tcp, flight, done, lost>>
      /\ \/ /\ Pairs!Accepts(e, to, new, mask)
            /\ qp' = [qp EXCEPT ![e] = [a \in Pairs!Attrs |->
                        IF a = "STATE" THEN to ELSE IF a \in mask THEN new[a] ELSE qp[e][a]]]
            /\ Pairs!Passed(e) /\ UNCHANGED threw
         \/ /\ ~ Pairs!Accepts(e, to, new, mask) \/ (MtuRefused /\ to = "RTR" /\ kind # "UD")
            /\ threw' = threw \cup {e}
            /\ UNCHANGED <<qp, pc, calls>>
  BY DEF Pairs!Modify, Pairs!At, Pairs!ends, Named, Settings
<1>3. /\ Pairs!Mandatory(kind)[to] \subseteq mask
      /\ kind = "RC" /\ to = "INIT" => "ACCESS_FLAGS" \in mask /\ "WRITE" \in new["ACCESS_FLAGS"]
      /\ kind # "UD" /\ to = "RTR" =>
            /\ {"AV", "DEST_QPN", "PATH_MTU", "RQ_PSN"} \subseteq mask
            /\ "ACCESS_FLAGS" \notin mask
            /\ new["AV"] = Path(known[e]) /\ new["DEST_QPN"] = known[e].qpn
            /\ new["PATH_MTU"] = 4096 /\ new["RQ_PSN"] = 0
      /\ kind # "UD" /\ to = "RTS" =>
            /\ {"AV", "DEST_QPN", "PATH_MTU", "RQ_PSN", "ACCESS_FLAGS"} \cap mask = {}
            /\ "SQ_PSN" \in mask /\ new["SQ_PSN"] = 0
  BY ModifyTakes
<1> HIDE DEF mask, new
<1>4. /\ Told(e) \in Nat /\ Heard(e) \in Nat /\ Posted(e) \in Nat /\ Polled(e) \in Nat
      /\ Taken(e) \in Nat /\ Arrived(e) \in Nat /\ Posted(q) \in Nat /\ Told(e) \in Nat
      /\ PairFits(e, q) /\ HeardFits(e, q) /\ ArrivedFits(e, q) /\ StepFits(e)
      /\ Posted(q) + 1 <= Told(e) \/ Posted(q) = 0
  BY <1>1, CountFacts
<1>5. known[e] = Pairs!Address(q)
  BY <1>2, <1>4 DEF HeardFits
<1>6. Posted(e) = 0 /\ Arrived(e) = 0
  <2>1. Posted(e) = 0 /\ Told(e) <= 1
    BY <1>2, <1>4 DEF Posted, Told, StepFits
  <2> QED
    BY <1>4, <2>1 DEF ArrivedFits
<1>7. qp[e].STATE = Pairs!Before[to]
  BY <1>2, <1>4 DEF PairFits, Standing, Pairs!Before
<1>8. kind \in {"RC", "UC", "UD"} /\ fabric \in {"infiniband", "roce"}
  BY DEF SetupInv, SetupTypes
<1>9. kind = "RC" => Path(known[e]).global = (port[q].gid # "none")
  BY <1>5 DEF Path, Pairs!RcPath, Pairs!Address
<1>10. kind = "UC" => ~ Path(known[e]).global
  BY DEF Path, Pairs!UcPath
<1>11. CASE /\ ~ Pairs!Accepts(e, to, new, mask) \/ (MtuRefused /\ to = "RTR" /\ kind # "UD")
            /\ threw' = threw \cup {e}
            /\ UNCHANGED <<qp, pc, calls>>
  <2>1. to = "RTR" /\ kind # "UD" /\ (MtuRefused \/ (kind = "UC" /\ fabric = "roce"))
    <3>1. CASE ~ Pairs!Accepts(e, to, new, mask)
      <4>1. to = "RTR" /\ kind # "UD" /\ fabric = "roce" /\ ~ new.AV.global
        BY <1>3, <1>7, <3>1 DEF Pairs!Accepts
      <4>2. ~ Path(known[e]).global
        BY <1>3, <4>1
      <4> QED
        BY <1>1, <1>8, <1>9, <4>1, <4>2 DEF SetupInv
    <3>2. CASE MtuRefused /\ to = "RTR" /\ kind # "UD"
      BY <3>2
    <3> QED
      BY <1>11, <3>1, <3>2
  <2>2. \A x \in Peers : /\ Told(x)' = Told(x) /\ Heard(x)' = Heard(x) /\ Posted(x)' = Posted(x)
                         /\ Polled(x)' = Polled(x) /\ Arrived(x)' = Arrived(x)
                         /\ Standing(x)' = Standing(x) /\ StepFits(x)'
                         /\ Pairs!Address(x)' = Pairs!Address(x)
    BY <1>2, <1>11 DEF Told, Heard, Posted, Polled, Arrived, Taken, Standing, StepFits,
       Pairs!Address, SetupInv
  <2>3. SetupTypes'
    <3>1. {Pairs!Address(p) : p \in Peers}' = {Pairs!Address(p) : p \in Peers}
      BY <2>2
    <3> QED
      BY <1>2, <1>11, <3>1 DEF SetupInv, SetupTypes
  <2>4. \A x \in Peers : \A y \in Peers \ {x} :
          PairFits(x, y)' /\ HeardFits(x, y)' /\ ArrivedFits(x, y)'
    <3> SUFFICES ASSUME NEW x \in Peers, NEW y \in Peers \ {x}
                 PROVE  PairFits(x, y)' /\ HeardFits(x, y)' /\ ArrivedFits(x, y)'
      OBVIOUS
    <3>1. pc'[x] \notin {"write", "read"} => known'[x] = Pairs!Address(y)
      BY <1>2, <1>11 DEF SetupInv, HeardFits
    <3> QED
      BY <1>2, <1>11, <2>2, <3>1, Stays
  <2>5. \A x \in Peers : x \in threw' => pc'[x] = "RTR" /\ kind' # "UD"
                            /\ (MtuRefused \/ (kind' = "UC" /\ fabric' = "roce"))
    BY <1>2, <1>11, <2>1 DEF SetupInv
  <2> QED
    BY <1>2, <2>2, <2>3, <2>4, <2>5 DEF SetupInv
<1>12. CASE /\ Pairs!Accepts(e, to, new, mask)
            /\ qp' = [qp EXCEPT ![e] = [a \in Pairs!Attrs |->
                        IF a = "STATE" THEN to ELSE IF a \in mask THEN new[a] ELSE qp[e][a]]]
            /\ Pairs!Passed(e) /\ UNCHANGED threw
  <2>1. /\ pc' \in [Peers -> Pairs!Steps] /\ calls' \in [Peers -> Nat]
        /\ StepFits(e)' /\ StepFits(q)' /\ pc'[q] = pc[q] /\ pc'[e] = Pairs!After(e)
        /\ Told(q)' = Told(q) /\ Heard(q)' = Heard(q) /\ Posted(q)' = Posted(q)
        /\ Polled(q)' = Polled(q) /\ Taken(q)' = Taken(q) /\ Standing(q)' = Standing(q)
        /\ Told(e)' = Told(e) /\ Heard(e)' = Heard(e) /\ Posted(e)' = Posted(e)
        /\ Polled(e)' = Polled(e) /\ Taken(e)' = Taken(e) /\ Standing(e)' = to
    BY <1>2, <1>4, <1>12, Passes
  <2>2. Arrived(e)' = Arrived(e) /\ Arrived(q)' = Arrived(q)
    BY <1>2, <2>1 DEF Arrived
  <2>3. /\ qp'[q] = qp[q] /\ DOMAIN qp' = Peers /\ DOMAIN qp'[e] = Pairs!Attrs
        /\ qp'[e] = [a \in Pairs!Attrs |->
                        IF a = "STATE" THEN to ELSE IF a \in mask THEN new[a] ELSE qp[e][a]]
    BY <1>12 DEF SetupInv, SetupTypes
  <2>4. \A x \in Peers : Pairs!Address(x)' = Pairs!Address(x)
    BY <1>2 DEF Pairs!Address
  <2>5. SetupTypes'
    <3>1. {Pairs!Address(p) : p \in Peers}' = {Pairs!Address(p) : p \in Peers}
      BY <2>4
    <3>2. \A x \in Peers : DOMAIN qp'[x] = Pairs!Attrs
      BY <1>1, <2>3 DEF SetupInv, SetupTypes
    <3> QED
      BY <1>2, <1>12, <2>1, <2>3, <3>1, <3>2 DEF SetupInv, SetupTypes
  <2>6. /\ qp'[e].STATE = to
        /\ \A a \in {"AV", "DEST_QPN", "PATH_MTU", "RQ_PSN", "SQ_PSN", "ACCESS_FLAGS"} :
              qp'[e][a] = IF a \in mask THEN new[a] ELSE qp[e][a]
    BY <2>3 DEF Pairs!Attrs, Pairs!Reset
  <2>7. Path(known[e]) = Path(Pairs!Address(q)) /\ Path(Pairs!Address(q))' = Path(Pairs!Address(q))
    BY <1>2, <1>5, <2>4 DEF Path, Pairs!RcPath, Pairs!UcPath
  <2>8. PairFits(e, q)'
    <3>1. CASE to = "INIT"
      BY <1>2, <1>3, <2>1, <2>6, <3>1 DEF PairFits
    <3>2. CASE to = "RTR"
      <4>1. kind # "UD" => (fabric = "roce" => kind = "RC")
        BY <1>3, <1>8, <1>10, <1>12, <3>2 DEF Pairs!Accepts
      <4>2. kind = "RC" => "WRITE" \in qp'[e].ACCESS_FLAGS
        BY <1>2, <1>3, <1>4, <2>6, <3>2 DEF PairFits, Standing
      <4>3. kind # "UD" => /\ qp'[e].AV = Path(Pairs!Address(q))
                           /\ qp'[e].DEST_QPN = Pairs!Address(q).qpn
                           /\ qp'[e].PATH_MTU = 4096 /\ qp'[e].RQ_PSN = 0
        BY <1>3, <1>5, <2>6, <2>7, <3>2
      <4> QED
        BY <1>2, <1>6, <2>1, <2>2, <2>4, <2>6, <2>7, <3>2, <4>1, <4>2, <4>3 DEF PairFits
    <3>3. CASE to = "RTS"
      <4>1. Standing(e) = "RTR"
        BY <1>2, <3>3 DEF Standing
      <4>2. kind = "RC" => "WRITE" \in qp'[e].ACCESS_FLAGS
        BY <1>3, <1>4, <2>6, <3>3, <4>1 DEF PairFits
      <4>3. kind # "UD" => /\ qp'[e].AV = qp[e].AV /\ qp'[e].DEST_QPN = qp[e].DEST_QPN
                           /\ qp'[e].PATH_MTU = qp[e].PATH_MTU /\ qp'[e].RQ_PSN = qp[e].RQ_PSN
                           /\ qp'[e].SQ_PSN = 0
        BY <1>3, <2>6, <3>3
      <4> QED
        BY <1>2, <1>4, <1>6, <2>1, <2>2, <2>4, <2>6, <2>7, <3>3, <4>1, <4>2, <4>3 DEF PairFits
    <3> QED
      BY <3>1, <3>2, <3>3
  <2>9. PairFits(q, e)' /\ ArrivedFits(e, q)' /\ ArrivedFits(q, e)'
    BY <1>1, <1>2, <2>1, <2>2, <2>3, Stays
  <2>10. HeardFits(e, q)' /\ HeardFits(q, e)'
    <3>1. known'[e] = Pairs!Address(q)
      BY <1>2, <1>5
    <3>2. pc'[q] \notin {"write", "read"} => known'[q] = Pairs!Address(e)
      BY <1>1, <1>2, <2>1 DEF SetupInv, HeardFits
    <3> QED
      BY <1>1, <1>2, <2>1, <3>1, <3>2, Stays
  <2> QED
    BY <1>1, <1>2, <1>12, <2>1, <2>5, <2>8, <2>9, <2>10, Rejoined
<1> QED
  BY <1>2, <1>11, <1>12

\* Both begin with a queue pair that is not connected.
LEMMA SetupStart == Pairs!Init => SetupInv
<1> SUFFICES ASSUME Pairs!Init PROVE SetupInv
  OBVIOUS
<1>1. /\ kind \in {"RC", "UC", "UD"} /\ fabric \in {"infiniband", "roce"}
      /\ qp = [e \in Peers |-> Pairs!Reset] /\ pc = [e \in Peers |-> "write"]
      /\ calls = [e \in Peers |-> 0] /\ tcp = [e \in Peers |-> << >>] /\ flight = tcp
      /\ done = [e \in Peers |-> [write |-> 0, receive |-> 0]]
      /\ lost = 0 /\ threw = {} /\ DOMAIN known = Peers
  BY DEF Pairs!Init, Pairs!Ends, Peers
<1>2. fabric = "roce" => \A e \in Peers : port[e].gid # "none"
  BY DEF Pairs!Init, Pairs!Ends, Peers
<1>3. SetupTypes
  BY <1>1 DEF SetupTypes, Pairs!Attrs, Pairs!Steps
<1>4. \A e \in Peers : /\ pc[e] = "write" /\ calls[e] = 0 /\ tcp[e] = << >> /\ flight[e] = << >>
                       /\ done[e].write = 0 /\ done[e].receive = 0 /\ qp[e] = Pairs!Reset
  BY <1>1
<1>5. \A e \in Peers : /\ Told(e) = 0 /\ Heard(e) = 0 /\ Posted(e) = 0 /\ Polled(e) = 0
                       /\ Taken(e) = 0 /\ Arrived(e) = 0 /\ Standing(e) = "RESET" /\ StepFits(e)
  BY <1>4 DEF Told, Heard, Posted, Polled, Taken, Arrived, Standing, StepFits
<1>6. Pairs!Reset.STATE = "RESET"
  BY DEF Pairs!Reset
<1>7. \A e \in Peers : \A q \in Peers \ {e} :
          PairFits(e, q) /\ HeardFits(e, q) /\ ArrivedFits(e, q)
  BY <1>4, <1>5, <1>6 DEF PairFits, HeardFits, ArrivedFits
<1> QED
  BY <1>1, <1>2, <1>3, <1>5, <1>7 DEF SetupInv

\* The invariant is kept.
LEMMA SetupNext == ASSUME SetupInv, [Pairs!Next]_(Pairs!vars) PROVE SetupInv'
<1>1. CASE UNCHANGED Pairs!vars
  <2>1. UNCHANGED <<kind, fabric, port, qp, pc, calls, known, tcp, flight, done, lost, threw>>
    BY <1>1 DEF Pairs!vars
  <2> QED
    <3>1. \A x \in Peers : /\ Told(x)' = Told(x) /\ Heard(x)' = Heard(x) /\ Posted(x)' = Posted(x)
                           /\ Polled(x)' = Polled(x) /\ Arrived(x)' = Arrived(x)
                           /\ Standing(x)' = Standing(x) /\ StepFits(x)'
                           /\ Pairs!Address(x)' = Pairs!Address(x)
      BY <2>1 DEF Told, Heard, Posted, Polled, Arrived, Taken, Standing, StepFits,
         Pairs!Address, SetupInv
    <3>2. SetupTypes'
      <4>1. {Pairs!Address(p) : p \in Peers}' = {Pairs!Address(p) : p \in Peers}
        BY <3>1
      <4> QED
        BY <2>1, <4>1 DEF SetupInv, SetupTypes
    <3>3. \A x \in Peers : \A y \in Peers \ {x} :
            PairFits(x, y)' /\ HeardFits(x, y)' /\ ArrivedFits(x, y)'
      <4> SUFFICES ASSUME NEW x \in Peers, NEW y \in Peers \ {x}
                   PROVE  PairFits(x, y)' /\ HeardFits(x, y)' /\ ArrivedFits(x, y)'
        OBVIOUS
      <4>1. pc'[x] \notin {"write", "read"} => known'[x] = Pairs!Address(y)
        BY <2>1 DEF SetupInv, HeardFits
      <4> QED
        BY <2>1, <3>1, <4>1, Stays
    <3> QED
      BY <2>1, <3>1, <3>2, <3>3 DEF SetupInv
<1>2. CASE Pairs!Next
  <2>1. PICK e \in Peers : Pairs!Step(e) \/ Pairs!Deliver(e)
    BY <1>2 DEF Pairs!Next, Pairs!Ends, Peers
  <2>2. CASE Pairs!Deliver(e)
    BY <2>2, DeliverKeeps
  <2>3. CASE Pairs!Step(e)
    <3>1. CASE \E to \in DOMAIN Pairs!Before : Pairs!Modify(e, to)
      <4>1. DOMAIN Pairs!Before = {"INIT", "RTR", "RTS"}
        BY DEF Pairs!Before
      <4> QED
        BY <3>1, <4>1, ModifyKeeps
    <3>2. CASE \/ Pairs!WriteAddress(e) \/ Pairs!ReadAddress(e) \/ Pairs!Announce(e)
               \/ Pairs!Hear(e) \/ Pairs!Post(e) \/ Pairs!PollSend(e) \/ Pairs!PollReceive(e)
               \/ Pairs!SetToResetState(e)
      BY <3>2, TellKeeps, HearKeeps, PostKeeps, PollKeeps, ResetKeeps
    <3> QED
      BY <2>3, <3>1, <3>2 DEF Pairs!Step
  <2> QED
    BY <2>1, <2>2, <2>3
<1> QED
  BY <1>1, <1>2

\* What the invariant says of two connected queue pairs and of what is refused.
LEMMA SetupMeans == ASSUME SetupInv PROVE ConnectedAsMeant /\ NothingIsLost
<1>1. ASSUME kind # "UD", \A x \in Peers : qp[x].STATE = "RTS", NEW e \in Peers
      PROVE  /\ Pairs!Leads(qp[e].AV, Pairs!Peer(e))
             /\ qp[e].DEST_QPN = Pairs!Address(Pairs!Peer(e)).qpn
             /\ qp[e].PATH_MTU = qp[Pairs!Peer(e)].PATH_MTU
             /\ qp[e].SQ_PSN = qp[Pairs!Peer(e)].RQ_PSN + Len(flight[Pairs!Peer(e)])
  <2>1. PICK q \in Peers \ {e} : Peers = {e, q} /\ Pairs!Peer(e) = q /\ e \in Peers \ {q}
    BY Facing
  <2>2. /\ PairFits(e, q) /\ PairFits(q, e) /\ ArrivedFits(q, e)
        /\ fabric \in {"infiniband", "roce"} /\ (fabric = "roce" => port[q].gid # "none")
        /\ kind \in {"RC", "UC", "UD"} /\ Arrived(q) \in Nat
    BY <2>1, CountFacts DEF SetupInv, SetupTypes
  <2>3. Standing(e) = "RTS" /\ Standing(q) = "RTS"
    BY <1>1, <2>1, <2>2 DEF PairFits
  <2>4. /\ qp[e].AV = Path(Pairs!Address(q)) /\ qp[e].DEST_QPN = Pairs!Address(q).qpn
        /\ qp[e].PATH_MTU = 4096 /\ qp[q].PATH_MTU = 4096 /\ qp[e].SQ_PSN = Posted(e)
        /\ qp[q].RQ_PSN = Arrived(q) /\ (fabric = "roce" => kind = "RC")
    BY <1>1, <2>2, <2>3 DEF PairFits
  <2>5. Pairs!Leads(Path(Pairs!Address(q)), q)
    <3>1. CASE kind = "RC"
      BY <2>2, <3>1 DEF Path, Pairs!Leads, Pairs!RcPath, Pairs!Address
    <3>2. CASE kind = "UC"
      BY <2>2, <2>4, <3>2 DEF Path, Pairs!Leads, Pairs!UcPath, Pairs!Address
    <3> QED
      BY <1>1, <2>2, <3>1, <3>2
  <2>6. Posted(e) = Arrived(q) + Len(flight[q])
    <3>1. CASE flight[q] = << >> /\ Posted(e) = Arrived(q)
      BY <2>2, <3>1, OnePacket
    <3>2. CASE flight[q] = <<Packet(q)>> /\ Posted(e) = Arrived(q) + 1
      BY <2>2, <3>2, OnePacket
    <3> QED
      BY <2>2, <3>1, <3>2 DEF ArrivedFits
  <2> QED
    BY <2>1, <2>4, <2>5, <2>6
<1>2. Pairs!LeadToEachOther
  BY <1>1 DEF Pairs!LeadToEachOther, Pairs!Ends, Peers
<1>3. Pairs!RefusedOnlyByPort
  <2>1. ASSUME NEW e \in threw
        PROVE  /\ qp[e].STATE = "INIT" /\ kind # "UD"
               /\ MtuRefused \/ (kind = "UC" /\ fabric = "roce")
    <3>1. e \in Peers
      BY DEF SetupInv, SetupTypes
    <3>2. PICK q \in Peers \ {e} : Peers = {e, q}
      BY <3>1, Facing
    <3> QED
      BY <3>1, <3>2 DEF SetupInv, PairFits, Standing
  <2> QED
    BY <2>1 DEF Pairs!RefusedOnlyByPort
<1> QED
  BY <1>2, <1>3 DEF ConnectedAsMeant, NothingIsLost, Pairs!NothingIsLost, SetupInv

\* For any number of calls on a connection: two queue pairs that are connected
\* lead to each other, and connect() throws only because of a port.
THEOREM QueuePairsLeadToEachOther == Pairs!Spec => []ConnectedAsMeant
  BY SetupStart, SetupNext, SetupMeans, PTL DEF Pairs!Spec

\* No packet meets a queue pair that cannot take it, or is dropped by a reset.
THEOREM NoPacketIsLost == Pairs!Spec => []NothingIsLost
  BY SetupStart, SetupNext, SetupMeans, PTL DEF Pairs!Spec

\* An end is told or sent nothing before it has heard or taken what it was told
\* or sent before the last time.
LEMMA LittleIsWaiting ==
    ASSUME SetupInv, NEW e \in Peers
    PROVE  /\ done[e].write \in 0 .. 1 /\ done[e].receive \in 0 .. 1
           /\ Len(tcp[e]) <= 2 /\ Len(flight[e]) <= 1
<1>1. PICK q \in Peers \ {e} : Peers = {e, q} /\ e \in Peers \ {q}
  BY Facing
<1>2. /\ Told(e) \in Nat /\ Heard(e) \in Nat /\ Posted(e) \in Nat /\ Polled(e) \in Nat
      /\ Taken(e) \in Nat /\ Arrived(e) \in Nat /\ Len(tcp[e]) \in Nat
      /\ done[e].write \in Nat /\ done[e].receive \in Nat
      /\ HeardFits(e, q) /\ ArrivedFits(e, q) /\ Posted(e) <= Polled(e) + 1
  BY <1>1, CountFacts
<1>3. /\ Told(q) \in Nat /\ Heard(q) \in Nat /\ Posted(q) \in Nat /\ Polled(q) \in Nat
      /\ Arrived(q) \in Nat /\ Len(tcp[q]) \in Nat
      /\ HeardFits(q, e) /\ ArrivedFits(q, e) /\ (Posted(q) + 1 <= Told(e) \/ Posted(q) = 0)
  BY <1>1, CountFacts
<1>4. ASSUME NEW x \in Peers
      PROVE  Told(x) <= Heard(x) + 1 /\ Told(x) <= Taken(x) + 2
  <2>1. calls[x] \in Nat /\ pc[x] \in Pairs!Steps
    BY DEF SetupInv, SetupTypes
  <2>2. \A c \in Nat : \A a, b, n \in {0, 1} :
            /\ a + c + b <= c + n + 2
            /\ a <= n => a + c + b <= n + c + b + 1
            /\ b <= n => a + c + b <= a + c + n + 1
            /\ a + b <= 1 => a + c + b <= 0 + c + n + 1
    OBVIOUS
  <2> QED
    BY <2>1 DEF Told, Heard, Taken
<1>5. /\ Len(flight[e]) <= 1 /\ Arrived(e) <= Posted(q)
      /\ Arrived(q) = Polled(e) + done[e].write /\ Arrived(q) <= Posted(e)
  <2>1. Len(<< >>) = 0 /\ Len(<<Packet(e)>>) = 1
    BY OnePacket
  <2>2. flight[e] = << >> \/ flight[e] = <<Packet(e)>>
    BY <1>2 DEF ArrivedFits
  <2>3. Len(flight[e]) = 0 \/ Len(flight[e]) = 1
    BY <2>1, <2>2, Zenon
  <2>4. Posted(q) = Arrived(e) \/ Posted(q) = Arrived(e) + 1
    BY <1>2, Zenon DEF ArrivedFits
  <2>5. Posted(e) = Arrived(q) \/ Posted(e) = Arrived(q) + 1
    BY <1>3, Zenon DEF ArrivedFits
  <2>6. Arrived(q) = Polled(e) + done[e].write
    BY <1>3 DEF ArrivedFits
  <2>7. Len(flight[e]) <= 1
    <3>1. \A n \in {0, 1} : n <= 1
      OBVIOUS
    <3> QED
      BY <2>3, <3>1, Zenon
  <2>8. \A a, p \in Nat : p = a \/ p = a + 1 => a <= p
    OBVIOUS
  <2>9. Arrived(e) <= Posted(q) /\ Arrived(q) <= Posted(e)
    BY ONLY <1>2, <1>3, <2>4, <2>5, <2>8
  <2> QED
    BY <2>6, <2>7, <2>9
<1>6. Len(tcp[e]) <= 2
  <2>1. Told(q) = Heard(e) + Len(tcp[e]) /\ Told(e) = Heard(q) + Len(tcp[q])
    BY <1>2, <1>3 DEF HeardFits
  <2>2. Told(q) <= Heard(q) + 1 /\ Told(e) <= Heard(e) + 1
    BY <1>1, <1>4
  <2>3. \A t, h, t2, h2, l, l2 \in Nat :
            t2 = h + l /\ t = h2 + l2 /\ t2 <= h2 + 1 /\ t <= h + 1 => l <= 2
    OBVIOUS
  <2>4. /\ Told(e) \in Nat /\ Heard(e) \in Nat /\ Len(tcp[e]) \in Nat
        /\ Told(q) \in Nat /\ Heard(q) \in Nat /\ Len(tcp[q]) \in Nat
    BY <1>2, <1>3
  <2> QED
    BY ONLY <2>1, <2>2, <2>3, <2>4
<1>7. done[e].receive <= 1
  <2>1. Arrived(e) = Taken(e) + done[e].receive /\ Told(e) <= Taken(e) + 2
    BY <1>4 DEF Arrived
  <2>2. \A a, t, r, p, l \in Nat :
            a = t + r /\ l <= t + 2 /\ a <= p /\ (p + 1 <= l \/ p = 0) => r <= 1
    OBVIOUS
  <2>3. /\ Told(e) \in Nat /\ Posted(q) \in Nat /\ Taken(e) \in Nat /\ Arrived(e) \in Nat
        /\ done[e].receive \in Nat /\ (Posted(q) + 1 <= Told(e) \/ Posted(q) = 0)
    BY <1>2, <1>3
  <2>4. Arrived(e) <= Posted(q)
    BY <1>5
  <2> QED
    BY ONLY <2>1, <2>2, <2>3, <2>4
<1>8. done[e].write <= 1
  <2>1. Arrived(q) = Polled(e) + done[e].write
    BY <1>3 DEF ArrivedFits
  <2>2. \A a, p, o, w \in Nat : a = p + w /\ a <= o /\ o <= p + 1 => w <= 1
    OBVIOUS
  <2>3. /\ Polled(e) \in Nat /\ done[e].write \in Nat /\ Posted(e) \in Nat /\ Arrived(q) \in Nat
        /\ Posted(e) <= Polled(e) + 1
    BY <1>2, <1>3
  <2>4. Arrived(q) <= Posted(e)
    BY <1>5
  <2> QED
    BY ONLY <2>1, <2>2, <2>3, <2>4
<1>9. done[e].write \in Nat /\ done[e].receive \in Nat
  BY <1>2
<1> QED
  <2>1. \A n \in Nat : n <= 1 => n \in 0 .. 1
    OBVIOUS
  <2>2. done[e].write \in 0 .. 1 /\ done[e].receive \in 0 .. 1
    BY ONLY <1>7, <1>8, <1>9, <2>1
  <2> QED
    BY ONLY <1>5, <1>6, <2>2

\* The queue pairs keep their types.
LEMMA SetupTypesHold == Pairs!Spec => []Pairs!TypeOK
<1>1. SetupInv => Pairs!TypeOK
  <2> SUFFICES ASSUME SetupInv PROVE Pairs!TypeOK
    OBVIOUS
  <2>1. ASSUME NEW e \in Peers
        PROVE  /\ DOMAIN qp[e] = Pairs!Attrs /\ pc[e] \in Pairs!Steps
               /\ qp[e].STATE \in {"RESET", "INIT", "RTR", "RTS"}
               /\ calls[e] \in 0 .. CallsMade
    <3>1. PICK q \in Peers \ {e} : TRUE
      BY Facing
    <3>2. qp[e].STATE = Standing(e) /\ DOMAIN qp[e] = Pairs!Attrs
      BY DEF SetupInv, SetupTypes, PairFits
    <3>3. calls[e] \in Nat /\ pc[e] \in Pairs!Steps /\ StepFits(e) /\ CallsMade \in Nat
      BY PartsAssumption DEF SetupInv, SetupTypes, Pairs!SetupAssumption
    <3>4. calls[e] <= CallsMade
      BY <3>3 DEF StepFits, Pairs!Steps
    <3> QED
      BY <3>2, <3>3, <3>4 DEF Standing
  <2>2. kind \in {"RC", "UC", "UD"} /\ fabric \in {"infiniband", "roce"} /\ threw \subseteq Peers
    BY DEF SetupInv, SetupTypes
  <2> QED
    BY <2>1, <2>2, LittleIsWaiting DEF Pairs!TypeOK, Pairs!Ends, Peers
<1> QED
  BY <1>1, SetupStart, SetupNext, PTL DEF Pairs!Spec

-----------------------------------------------------------------------------
(* The bytes of the calls.                                                 *)

\* Layouts, and the fields that have a byte in one.
Names == {"size", "ptr", "id", "srcID", "dsize", "data", "state", "iscached", "ownerNode",
          "padding", "sharerNodes", "result"}
Layouts == Seq(Names \X Nat)
Fields(layout) == {layout[i][1] : i \in 1 .. Len(layout)}

\* The layout of one field.
LEMMA OneField ==
    ASSUME NEW f \in Names, NEW width \in Nat, width > 0
    PROVE  /\ Calls!Field(f, width) \in Layouts /\ Len(Calls!Field(f, width)) = width
           /\ Fields(Calls!Field(f, width)) = {f}
           /\ \A i \in 1 .. width : Calls!Field(f, width)[i] = <<f, i>>
<1> DEFINE L == [b \in 1 .. width |-> <<f, b>>]
           P == Names \X Nat
<1>1. Calls!Field(f, width) = L
  BY DEF Calls!Field
<1>2. \A i \in 1 .. width : <<f, i>> \in P
  OBVIOUS
<1>3. L \in Seq(P) /\ Len(L) = width
  <2> HIDE DEF P
  <2>1. L \in [1 .. width -> P]
    BY <1>2
  <2> QED
    BY <2>1
<1>4. \A i \in 1 .. width : L[i] = <<f, i>>
  OBVIOUS
<1> HIDE DEF L
<1>5. Fields(L) = {f}
  <2>1. 1 \in 1 .. width
    OBVIOUS
  <2>2. \A i \in 1 .. width : L[i][1] = f
    BY <1>4
  <2> QED
    BY <1>3, <2>1, <2>2 DEF Fields
<1> QED
  BY <1>1, <1>3, <1>4, <1>5 DEF Layouts

\* A layout behind another.
LEMMA TwoLayouts ==
    ASSUME NEW s1 \in Layouts, NEW s2 \in Layouts
    PROVE  /\ s1 \o s2 \in Layouts /\ Len(s1 \o s2) = Len(s1) + Len(s2)
           /\ Fields(s1 \o s2) = Fields(s1) \cup Fields(s2)
           /\ \A i \in 1 .. Len(s1) : (s1 \o s2)[i] = s1[i]
           /\ \A i \in 1 .. Len(s1 \o s2) : i > Len(s1) => (s1 \o s2)[i][1] \in Fields(s2)
<1> DEFINE joint == s1 \o s2
<1>1. /\ joint \in Layouts /\ Len(joint) = Len(s1) + Len(s2) /\ Len(s1) \in Nat /\ Len(s2) \in Nat
      /\ \A i \in 1 .. Len(s1) + Len(s2) : joint[i] = IF i <= Len(s1) THEN s1[i] ELSE s2[i - Len(s1)]
  BY ConcatProperties DEF Layouts
<1> HIDE DEF joint
<1>2. \A i \in 1 .. Len(s1) : joint[i] = s1[i] /\ i \in 1 .. Len(joint)
  BY <1>1
<1>3. ASSUME NEW i \in 1 .. Len(s2)
      PROVE  Len(s1) + i \in 1 .. Len(joint) /\ joint[Len(s1) + i] = s2[i]
  <2>1. Len(s1) + i \in 1 .. Len(s1) + Len(s2) /\ ~ (Len(s1) + i <= Len(s1))
        /\ Len(s1) + i - Len(s1) = i
    BY <1>1
  <2> QED
    BY <1>1, <2>1
<1>4. ASSUME NEW i \in 1 .. Len(joint), i > Len(s1)
      PROVE  joint[i][1] \in Fields(s2)
  <2>1. i - Len(s1) \in 1 .. Len(s2) /\ ~ (i <= Len(s1))
    BY <1>1, <1>4
  <2>2. joint[i] = s2[i - Len(s1)]
    BY <1>1, <2>1
  <2> QED
    BY <2>1, <2>2 DEF Fields
<1>5. ASSUME NEW i \in 1 .. Len(joint)
      PROVE  joint[i][1] \in Fields(s1) \cup Fields(s2)
  <2>1. CASE i > Len(s1)
    BY <1>4, <2>1
  <2>2. CASE ~ (i > Len(s1))
    <3>1. i \in 1 .. Len(s1)
      BY <1>1, <2>2
    <3> QED
      BY <1>2, <3>1 DEF Fields
  <2> QED
    BY <2>1, <2>2
<1>6. Fields(joint) \subseteq Fields(s1) \cup Fields(s2)
  BY <1>5 DEF Fields
<1>7. Fields(s1) \subseteq Fields(joint) /\ Fields(s2) \subseteq Fields(joint)
  BY <1>2, <1>3 DEF Fields
<1>8. Fields(joint) = Fields(s1) \cup Fields(s2)
  BY <1>6, <1>7
<1> QED
  BY <1>1, <1>2, <1>4, <1>8 DEF joint

\* A structure that begins with a word, and names it nowhere else.
BeginsWithWord(joint) ==
    /\ joint \in Layouts /\ 8 <= Len(joint) /\ \A i \in 1 .. 8 : joint[i] = Calls!Word[i]
    /\ \A i \in 1 .. Len(joint) : joint[i][1] = "data" => i <= 8

\* What stands behind such a structure and names no word leaves it one.
LEMMA Behind ==
    ASSUME NEW s1, BeginsWithWord(s1), NEW s2 \in Layouts, "data" \notin Fields(s2)
    PROVE  BeginsWithWord(s1 \o s2)
<1> DEFINE joint == s1 \o s2
<1>1. /\ s1 \in Layouts /\ 8 <= Len(s1) /\ \A i \in 1 .. 8 : s1[i] = Calls!Word[i]
      /\ \A i \in 1 .. Len(s1) : s1[i][1] = "data" => i <= 8
  BY DEF BeginsWithWord
<1>2. /\ joint \in Layouts /\ Len(joint) = Len(s1) + Len(s2) /\ Len(s1) \in Nat /\ Len(s2) \in Nat
      /\ \A i \in 1 .. Len(s1) : joint[i] = s1[i]
      /\ \A i \in 1 .. Len(joint) : i > Len(s1) => joint[i][1] \in Fields(s2)
  <2>1. s1 \in Layouts
    BY <1>1
  <2>2. Len(s1) \in Nat /\ Len(s2) \in Nat
    BY <2>1 DEF Layouts
  <2> QED
    BY <2>1, <2>2, TwoLayouts
<1> HIDE DEF joint
<1>3. ASSUME NEW i \in 1 .. 8 PROVE joint[i] = Calls!Word[i]
  <2>1. i \in 1 .. Len(s1)
    BY <1>1, <1>2
  <2> QED
    BY <1>1, <1>2, <2>1
<1>4. ASSUME NEW i \in 1 .. Len(joint), joint[i][1] = "data" PROVE i <= 8
  <2>1. ~ (i > Len(s1))
    BY <1>2, <1>4
  <2>2. i \in 1 .. Len(s1)
    BY <1>2, <2>1
  <2> QED
    BY <1>1, <1>2, <1>4, <2>2
<1>5. 8 <= Len(joint)
  BY <1>1, <1>2
<1> QED
  BY <1>2, <1>3, <1>4, <1>5 DEF joint, BeginsWithWord

\* All the bytes of a field are those of one value; then it can be read.
Carries(layout, bytes, f, v) ==
    \A i \in 1 .. Len(layout) :
        layout[i][1] = f => i \in DOMAIN bytes /\ bytes[i] = <<v, layout[i][2]>>

\* A field whose bytes all carry one value is read as that value.
LEMMA Understood ==
    ASSUME NEW layout \in Layouts, NEW f \in Fields(layout), NEW bytes, NEW v,
           Carries(layout, bytes, f, v)
    PROVE  Calls!Read(layout, bytes, f) = v
<1> DEFINE at == {i \in DOMAIN layout : layout[i][1] = f}
<1>1. DOMAIN layout = 1 .. Len(layout)
  BY DEF Layouts
<1>2. PICK j \in at : TRUE
  BY <1>1 DEF Fields
<1>3. \A i \in at : i \in DOMAIN bytes /\ bytes[i] = <<v, layout[i][2]>> /\ bytes[i][1] = v
  BY <1>1 DEF Carries
<1>4. (CHOOSE i \in at : TRUE) \in at
  BY <1>2
<1> HIDE DEF at
<1>5. v \in {bytes[i][1] : i \in at \cap DOMAIN bytes}
  BY <1>2, <1>3
<1>6. \E w \in {bytes[i][1] : i \in at \cap DOMAIN bytes} :
          \A i \in at : i \in DOMAIN bytes /\ bytes[i] = <<w, layout[i][2]>>
  BY <1>3, <1>5
<1>7. bytes[CHOOSE i \in at : TRUE][1] = v
  BY <1>3, <1>4
<1> QED
  BY <1>6, <1>7 DEF Calls!Read, at

\* The first n bytes from a structure on.
LEMMA Sliced ==
    ASSUME NEW layout \in Layouts, NEW values, NEW n \in Nat
    PROVE  /\ DOMAIN Calls!Slice(layout, values, n) = 1 .. n
           /\ \E S : Calls!Slice(layout, values, n) \in Seq(S)
           /\ Len(Calls!Slice(layout, values, n)) = n
           /\ \A i \in 1 .. n : i <= Len(layout) =>
                 Calls!Slice(layout, values, n)[i] = <<values[layout[i][1]], layout[i][2]>>
<1> DEFINE front == [i \in 1 .. Len(layout) |-> <<values[layout[i][1]], layout[i][2]>>]
           rest == [i \in 1 .. n |-> <<"garbage", i>>]
           S == {front[i] : i \in 1 .. Len(layout)} \cup {rest[i] : i \in 1 .. n}
           whole == front \o rest
<1>1. DOMAIN layout = 1 .. Len(layout) /\ Len(layout) \in Nat
  BY DEF Layouts
<1>2. Calls!Slice(layout, values, n) = SubSeq(whole, 1, n)
  BY <1>1 DEF Calls!Slice, Calls!Bytes
<1>3. front \in Seq(S) /\ Len(front) = Len(layout)
  <2>1. front \in [1 .. Len(layout) -> S]
    OBVIOUS
  <2> QED
    BY <1>1, <2>1
<1>4. rest \in Seq(S) /\ Len(rest) = n
  <2>1. rest \in [1 .. n -> S]
    OBVIOUS
  <2> QED
    BY <2>1
<1>5. \A i \in 1 .. Len(layout) : front[i] = <<values[layout[i][1]], layout[i][2]>>
  OBVIOUS
<1> HIDE DEF front, rest, S
<1>6. /\ whole \in Seq(S) /\ Len(whole) = Len(layout) + n
      /\ \A i \in 1 .. Len(layout) + n : whole[i] = IF i <= Len(layout) THEN front[i]
                                                     ELSE rest[i - Len(layout)]
  <2>1. /\ whole \in Seq(S) /\ Len(whole) = Len(front) + Len(rest)
        /\ \A i \in 1 .. Len(front) + Len(rest) :
              whole[i] = IF i <= Len(front) THEN front[i] ELSE rest[i - Len(front)]
    BY <1>3, <1>4, ConcatProperties
  <2> QED
    BY <1>3, <1>4, <2>1
<1> HIDE DEF whole
<1>7. 1 \in Int /\ n \in Int /\ \A i \in 1 .. n : whole[i] \in S
  BY <1>1, <1>6
<1>8. /\ SubSeq(whole, 1, n) \in Seq(S)
      /\ Len(SubSeq(whole, 1, n)) = IF 1 <= n THEN n - 1 + 1 ELSE 0
      /\ \A i \in 1 .. n - 1 + 1 : SubSeq(whole, 1, n)[i] = whole[1 + i - 1]
  BY <1>7, SubSeqProperties
<1>9. Len(SubSeq(whole, 1, n)) = n /\ DOMAIN SubSeq(whole, 1, n) = 1 .. n
  BY <1>8
<1>10. ASSUME NEW i \in 1 .. n, i <= Len(layout)
       PROVE  SubSeq(whole, 1, n)[i] = <<values[layout[i][1]], layout[i][2]>>
  <2>1. i \in 1 .. n - 1 + 1 /\ 1 + i - 1 = i /\ i \in 1 .. Len(layout)
        /\ i \in 1 .. Len(layout) + n
    BY <1>1, <1>10
  <2> QED
    BY <1>5, <1>6, <1>8, <1>10, <2>1
<1> QED
  BY <1>2, <1>8, <1>9, <1>10

\* The structures: how long they are, what they name, and where it is.
LEMMA AddressLayout ==
    /\ Calls!SendGlobalAddr \in Layouts /\ Len(Calls!SendGlobalAddr) = 20
    /\ Fields(Calls!SendGlobalAddr) = {"size", "ptr", "id", "srcID"}
    /\ \A i \in 1 .. 20 : Calls!SendGlobalAddr[i][1] \in {"size", "ptr", "id"} => i <= 18
    /\ Len(Calls!GlobalAddress) = 18
<1> DEFINE a == Calls!Field("size", 8)
           b == Calls!Field("ptr", 8)
           c == Calls!Field("id", 2)
           d == Calls!Field("srcID", 2)
<1>1. /\ a \in Layouts /\ Len(a) = 8 /\ Fields(a) = {"size"}
      /\ b \in Layouts /\ Len(b) = 8 /\ Fields(b) = {"ptr"}
      /\ c \in Layouts /\ Len(c) = 2 /\ Fields(c) = {"id"}
      /\ d \in Layouts /\ Len(d) = 2 /\ Fields(d) = {"srcID"}
  <2>1. {"size", "ptr", "id", "srcID"} \subseteq Names /\ 8 \in Nat /\ 8 > 0 /\ 2 \in Nat /\ 2 > 0
    BY DEF Names
  <2> QED
    BY <2>1, OneField
<1>2. Calls!SendGlobalAddr = ((a \o b) \o c) \o d /\ Calls!GlobalAddress = (a \o b) \o c
  BY DEF Calls!SendGlobalAddr, Calls!GlobalAddress
<1> HIDE DEF a, b, c, d
<1>3. a \o b \in Layouts /\ Len(a \o b) = 16 /\ Fields(a \o b) = {"size", "ptr"}
  <2>1. /\ a \o b \in Layouts /\ Len(a \o b) = Len(a) + Len(b)
        /\ Fields(a \o b) = Fields(a) \cup Fields(b)
    <3>1. a \in Layouts /\ b \in Layouts
      BY <1>1
    <3> QED
      BY <3>1, TwoLayouts
  <2> QED
    BY <1>1, <2>1
<1>4. /\ (a \o b) \o c \in Layouts /\ Len((a \o b) \o c) = 18
      /\ Fields((a \o b) \o c) = {"size", "ptr", "id"}
  <2>1. /\ (a \o b) \o c \in Layouts /\ Len((a \o b) \o c) = Len((a \o b)) + Len(c)
        /\ Fields((a \o b) \o c) = Fields((a \o b)) \cup Fields(c)
    <3>1. (a \o b) \in Layouts /\ c \in Layouts
      BY <1>1, <1>3
    <3> QED
      BY <3>1, TwoLayouts
  <2> QED
    BY <1>1, <1>3, <2>1
<1>5. /\ ((a \o b) \o c) \o d \in Layouts /\ Len(((a \o b) \o c) \o d) = 20
      /\ Fields(((a \o b) \o c) \o d) = {"size", "ptr", "id", "srcID"}
      /\ \A i \in 1 .. 20 : i > 18 => (((a \o b) \o c) \o d)[i][1] = "srcID"
  <2> DEFINE l == (a \o b) \o c
             joint == l \o d
  <2>1. /\ joint \in Layouts /\ Len(joint) = Len(l) + Len(d) /\ Fields(joint) = Fields(l) \cup Fields(d)
        /\ \A i \in 1 .. Len(joint) : i > Len(l) => joint[i][1] \in Fields(d)
    BY <1>1, <1>4, TwoLayouts
  <2> HIDE DEF l
  <2> QED
    BY <1>1, <1>4, <2>1 DEF l
<1> QED
  BY <1>2, <1>4, <1>5

\* The other structures, their lengths and their fields.
LEMMA OtherLayouts ==
    /\ Calls!Lock \in Layouts /\ Len(Calls!Lock) = 6 /\ Fields(Calls!Lock) = {"id", "state"}
    /\ Calls!SendingData \in Layouts /\ Len(Calls!SendingData) = 36
    /\ Fields(Calls!SendingData) = {"dsize", "data", "size", "ptr", "id", "srcID"}
    /\ Calls!Word \in Layouts /\ Len(Calls!Word) = 8 /\ Fields(Calls!Word) = {"data"}
    /\ Calls!Bool \in Layouts /\ Len(Calls!Bool) = 1 /\ Fields(Calls!Bool) = {"result"}
<1> DEFINE a == Calls!Field("id", 2)
           b == Calls!Field("state", 4)
           c == Calls!Field("dsize", 8)
           d == Calls!Field("data", 8)
           e == Calls!Field("result", 1)
           g == Calls!SendGlobalAddr
<1>1. /\ a \in Layouts /\ Len(a) = 2 /\ Fields(a) = {"id"}
      /\ b \in Layouts /\ Len(b) = 4 /\ Fields(b) = {"state"}
      /\ c \in Layouts /\ Len(c) = 8 /\ Fields(c) = {"dsize"}
      /\ d \in Layouts /\ Len(d) = 8 /\ Fields(d) = {"data"}
      /\ e \in Layouts /\ Len(e) = 1 /\ Fields(e) = {"result"}
  <2>1. /\ {"id", "state", "dsize", "data", "result"} \subseteq Names
        /\ 8 \in Nat /\ 8 > 0 /\ 2 \in Nat /\ 2 > 0 /\ 4 \in Nat /\ 4 > 0 /\ 1 \in Nat /\ 1 > 0
    BY DEF Names
  <2> QED
    BY <2>1, OneField
<1>2. /\ Calls!Lock = a \o b /\ Calls!SendingData = (c \o d) \o g
      /\ Calls!Word = d /\ Calls!Bool = e
  BY DEF Calls!Lock, Calls!SendingData, Calls!Word, Calls!Bool
<1>3. g \in Layouts /\ Len(g) = 20 /\ Fields(g) = {"size", "ptr", "id", "srcID"}
  BY AddressLayout
<1> HIDE DEF a, b, c, d, e, g
<1>4. a \o b \in Layouts /\ Len(a \o b) = 6 /\ Fields(a \o b) = {"id", "state"}
  <2>1. /\ a \o b \in Layouts /\ Len(a \o b) = Len(a) + Len(b)
        /\ Fields(a \o b) = Fields(a) \cup Fields(b)
    <3>1. a \in Layouts /\ b \in Layouts
      BY <1>1
    <3> QED
      BY <3>1, TwoLayouts
  <2> QED
    BY <1>1, <2>1
<1>5. c \o d \in Layouts /\ Len(c \o d) = 16 /\ Fields(c \o d) = {"dsize", "data"}
  <2>1. /\ c \o d \in Layouts /\ Len(c \o d) = Len(c) + Len(d)
        /\ Fields(c \o d) = Fields(c) \cup Fields(d)
    <3>1. c \in Layouts /\ d \in Layouts
      BY <1>1
    <3> QED
      BY <3>1, TwoLayouts
  <2> QED
    BY <1>1, <2>1
<1>6. /\ (c \o d) \o g \in Layouts /\ Len((c \o d) \o g) = 36
      /\ Fields((c \o d) \o g) = {"dsize", "data", "size", "ptr", "id", "srcID"}
  <2>1. /\ (c \o d) \o g \in Layouts /\ Len((c \o d) \o g) = Len((c \o d)) + Len(g)
        /\ Fields((c \o d) \o g) = Fields((c \o d)) \cup Fields(g)
    <3>1. (c \o d) \in Layouts /\ g \in Layouts
      BY <1>3, <1>5
    <3> QED
      BY <3>1, TwoLayouts
  <2> QED
    BY <1>3, <1>5, <2>1
<1> QED
  BY <1>1, <1>2, <1>4, <1>6

\* An entry begins with its word, which is all that is read of it.
LEMMA EntryLayout ==
    BeginsWithWord(Calls!SaveData) /\ "data" \in Fields(Calls!SaveData)
<1> DEFINE a == Calls!Field("data", 8)
           b == Calls!Field("iscached", 4)
           c == Calls!Field("ownerNode", 2)
           d == Calls!Field("padding", 2)
           e == Calls!Field("sharerNodes", 24)
<1>1. /\ a \in Layouts /\ Len(a) = 8 /\ \A i \in 1 .. 8 : a[i] = <<"data", i>>
      /\ b \in Layouts /\ Fields(b) = {"iscached"}
      /\ c \in Layouts /\ Fields(c) = {"ownerNode"}
      /\ d \in Layouts /\ Fields(d) = {"padding"}
      /\ e \in Layouts /\ Fields(e) = {"sharerNodes"}
  <2>1. /\ {"data", "iscached", "ownerNode", "padding", "sharerNodes"} \subseteq Names
        /\ 8 \in Nat /\ 8 > 0 /\ 2 \in Nat /\ 2 > 0 /\ 4 \in Nat /\ 4 > 0
        /\ 24 \in Nat /\ 24 > 0
    BY DEF Names
  <2> QED
    BY <2>1, OneField
<1>2. Calls!SaveData = (((a \o b) \o c) \o d) \o e /\ Calls!Word = a
  BY DEF Calls!SaveData, Calls!Word
<1> HIDE DEF a, b, c, d, e
<1>3. BeginsWithWord(a)
  BY <1>1, <1>2 DEF BeginsWithWord
<1>4. BeginsWithWord(a \o b)
  BY <1>1, <1>3, Behind
<1>5. BeginsWithWord((a \o b) \o c)
  BY <1>1, <1>4, Behind
<1>6. BeginsWithWord(((a \o b) \o c) \o d)
  BY <1>1, <1>5, Behind
<1>7. BeginsWithWord(Calls!SaveData)
  BY <1>1, <1>2, <1>6, Behind
<1>8. "data" \in Fields(Calls!SaveData)
  <2>1. 1 \in 1 .. Len(Calls!SaveData)
    <3>1. Calls!SaveData \in Layouts /\ 8 <= Len(Calls!SaveData)
      BY <1>7 DEF BeginsWithWord
    <3>2. Len(Calls!SaveData) \in Nat
      BY <3>1 DEF Layouts
    <3> QED
      BY <3>1, <3>2
  <2>2. Calls!SaveData[1][1] = "data"
    <3>1. \A i \in 1 .. 8 : Calls!SaveData[i] = Calls!Word[i]
      BY <1>7 DEF BeginsWithWord
    <3>2. \A i \in 1 .. 8 : a[i] = <<"data", i>>
      BY <1>1
    <3>3. 1 \in 1 .. 8 /\ Calls!Word = a
      BY <1>2
    <3>4. Calls!SaveData[1] = Calls!Word[1]
      BY <3>1, <3>3
    <3>5. a[1] = <<"data", 1>>
      BY <3>2, <3>3
    <3> QED
      BY <3>3, <3>4, <3>5
  <2> QED
    BY <2>1, <2>2 DEF Fields
<1> QED
  BY <1>7, <1>8

\* What the client posts for its call, and the server for the answer to it.
Requested == Calls!Slice(Calls!RequestLayout(call.kind), Calls!Meant(call.kind),
                         Calls!RequestLength(call))
Answered == Calls!Slice(Calls!AnswerLayout(call.kind),
                        Calls!Answer(call.kind, Calls!Meant(call.kind)),
                        Calls!AnswerLength(call.kind))

\* No call is under way.
Resting ==
    /\ client \in {"idle", "posting", "threw"} /\ wire = << >> /\ answers = << >>
    /\ \A p \in Peers : polled[p] = << >> /\ arrived[p] = << >>
    /\ IF client = "idle" THEN server \in {"waiting", "answered"}
       ELSE server = "waiting" /\ region = << >> /\ buffer = << >>

\* The request is on the wire, or in the server's buffer.
Asking ==
    /\ client \in {"sent", "receiving"} /\ server = "waiting" /\ answers = << >>
    /\ buffer = << >> /\ polled["server"] = << >> /\ arrived["client"] = << >>
    /\ Len(Requested) <= 512
    /\ \/ /\ client = "sent" /\ wire = <<Calls!CreateWriteWithImm(Requested, call.kind)>>
          /\ region = << >> /\ polled["client"] = << >> /\ arrived["server"] = << >>
       \/ /\ wire = << >> /\ region = Requested /\ arrived["server"] = <<call.kind>>
          /\ polled["client"] = IF client = "sent" THEN <<TRUE>> ELSE << >>

\* The server has taken the request.  An answer that announces a call back is
\* followed by another one, and that one by none.
Answering ==
    /\ client \in {"sent", "receiving", "returned"}
    /\ server \in {"handling", "answering", "answered"}
    /\ server = "handling" => answers # << >>
    /\ server = "answered" => answers = << >>
    /\ arrived["server"] = << >>
    /\ polled["client"] = IF client = "sent" THEN <<TRUE>> ELSE << >>
    /\ polled["server"] = IF server = "answering" /\ wire = << >> THEN <<TRUE>> ELSE << >>
    /\ \/ wire = << >>
       \/ /\ server = "answering"
          /\ \E imm \in {"INVALIDATE", "DEFAULT", "RESET"} :
                /\ wire = <<Calls!CreateWriteWithImm(Answered, imm)>>
                /\ imm = "INVALIDATE" <=> answers # << >>
    /\ \A i \in 1 .. Len(answers) : answers[i] = "INVALIDATE" <=> i < Len(answers)
    /\ \A i \in 1 .. Len(arrived["client"]) :
          arrived["client"][i] = "INVALIDATE" <=>
              i < Len(arrived["client"]) \/ wire # << >> \/ answers # << >>
    /\ client = "returned" <=> arrived["client"] = << >> /\ wire = << >> /\ answers = << >>
    /\ buffer \in {<< >>, Answered}
    /\ arrived["client"] # << >> \/ client = "returned" => buffer = Answered

\* The types of what passes between the two.
MessageTypes ==
    /\ call \in [kind : Calls!Kinds, size : Nat, shared : BOOLEAN]
    /\ DOMAIN polled = Peers /\ DOMAIN arrived = Peers
    /\ answers \in Seq({"INVALIDATE", "DEFAULT", "RESET"})
    /\ arrived["client"] \in Seq({"INVALIDATE", "DEFAULT", "RESET"})

\* The inductive invariant.
MessageInv ==
    /\ MessageTypes /\ (Resting \/ Asking \/ Answering)
    /\ FieldsArrive /\ ThrowsOnlyWhenLarge

\* What is posted for a call: how long it is, and what the server reads in it.
LEMMA RequestFacts ==
    ASSUME MessageTypes
    PROVE  /\ \E S : Requested \in Seq(S)
           /\ Len(Requested) \in Nat /\ Len(Requested) = Calls!RequestLength(call)
           /\ Len(Requested) > 512 => call.kind \in Calls!ByAddress /\ 20 + call.size > 512
           /\ [f \in DOMAIN Calls!Meant(call.kind) |->
                  Calls!Read(Calls!RequestLayout(call.kind), Requested, f)] = Calls!Meant(call.kind)
<1> DEFINE k == call.kind
           layout == Calls!RequestLayout(k)
           meant == Calls!Meant(k)
           n == Calls!RequestLength(call)
<1>1. /\ k \in {"MALLOC", "READ", "FREE", "INVALIDATE", "LOCKS", "RESET", "WRITE"}
      /\ call.size \in Nat
  BY DEF MessageTypes, Calls!Kinds, Calls!ByAddress, Calls!ByLock
<1>2. /\ layout \in Layouts /\ Fields(layout) = DOMAIN meant /\ Len(layout) \in Nat
      /\ n = Len(layout) + (IF k \in Calls!ByAddress THEN call.size ELSE 0)
      /\ Len(layout) = IF k \in Calls!ByAddress THEN 20
                       ELSE IF k \in Calls!ByLock THEN 6 ELSE 36
  <2>1. n = Len(layout) + (IF k \in Calls!ByAddress THEN call.size ELSE 0)
    BY DEF Calls!RequestLength, Calls!SizeOf
  <2>2. CASE k \in Calls!ByAddress
    <3>1. layout = Calls!SendGlobalAddr
      BY <2>2 DEF Calls!RequestLayout
    <3>2. DOMAIN meant = {"size", "ptr", "id", "srcID"}
      BY <2>2 DEF Calls!Meant, Calls!ByAddress
    <3> QED
      BY <2>1, <2>2, <3>1, <3>2, AddressLayout
  <2>3. CASE k \in Calls!ByLock
    <3>1. layout = Calls!Lock /\ k \notin Calls!ByAddress
      BY <2>3 DEF Calls!RequestLayout, Calls!ByLock, Calls!ByAddress
    <3>2. DOMAIN meant = {"id", "state"}
      BY <2>3 DEF Calls!Meant, Calls!ByLock
    <3> QED
      BY <2>1, <2>3, <3>1, <3>2, OtherLayouts
  <2>4. CASE k = "WRITE"
    <3>1. layout = Calls!SendingData /\ k \notin Calls!ByAddress /\ k \notin Calls!ByLock
      BY <2>4 DEF Calls!RequestLayout, Calls!ByLock, Calls!ByAddress
    <3>2. DOMAIN meant = {"dsize", "data", "size", "ptr", "id", "srcID"}
      BY <2>4 DEF Calls!Meant
    <3> QED
      BY <2>1, <3>1, <3>2, OtherLayouts
  <2> QED
    BY <1>1, <2>2, <2>3, <2>4 DEF Calls!ByAddress, Calls!ByLock
<1>3. Requested = Calls!Slice(layout, meant, n)
  BY DEF Requested
<1>4. meant = [f \in DOMAIN meant |-> meant[f]]
  BY <1>1 DEF Calls!Meant
<1> HIDE DEF k, layout, meant, n
<1>5. n \in Nat /\ Len(layout) <= n /\ (n > 512 => k \in Calls!ByAddress /\ 20 + call.size > 512)
  BY <1>1, <1>2
<1>6. /\ \E S : Requested \in Seq(S)
      /\ Len(Requested) = n /\ DOMAIN Requested = 1 .. n
      /\ \A i \in 1 .. n : i <= Len(layout) =>
            Requested[i] = <<meant[layout[i][1]], layout[i][2]>>
  <2>1. layout \in Layouts /\ n \in Nat
    BY <1>2, <1>5
  <2> QED
    BY <1>3, <2>1, Sliced
<1>7. ASSUME NEW f \in DOMAIN meant
      PROVE  Calls!Read(layout, Requested, f) = meant[f]
  <2>1. ASSUME NEW i \in 1 .. Len(layout), layout[i][1] = f
        PROVE  i \in DOMAIN Requested /\ Requested[i] = <<meant[f], layout[i][2]>>
    <3>1. i \in 1 .. n /\ i <= Len(layout)
      BY <1>2, <1>5
    <3> QED
      BY <1>6, <2>1, <3>1
  <2>2. Carries(layout, Requested, f, meant[f])
    BY <2>1 DEF Carries
  <2> QED
    BY <1>2, <2>2, Understood
<1>8. [f \in DOMAIN meant |-> Calls!Read(layout, Requested, f)] = meant
  BY <1>4, <1>7
<1> QED
  BY <1>5, <1>6, <1>8 DEF k, layout, meant, n

\* What is posted for an answer: it fits the client's buffer, and the client
\* reads in it what was meant.
LEMMA AnswerFacts ==
    ASSUME MessageTypes
    PROVE  /\ \E S : Answered \in Seq(S)
           /\ Len(Answered) \in Nat /\ Len(Answered) <= Calls!AnswerRoom(call)
           /\ \A f \in Calls!Used(call.kind) :
                 Calls!Read(Calls!View(call.kind), Answered, f) =
                     Calls!Answer(call.kind, Calls!Meant(call.kind))[f]
<1> DEFINE k == call.kind
           layout == Calls!AnswerLayout(k)
           answer == Calls!Answer(k, Calls!Meant(k))
           view == Calls!View(k)
           n == Calls!AnswerLength(k)
<1>1. /\ k \in {"MALLOC", "READ", "FREE", "INVALIDATE", "LOCKS", "RESET", "WRITE"}
      /\ call.size \in Nat
  BY DEF MessageTypes, Calls!Kinds, Calls!ByAddress, Calls!ByLock
<1>2. /\ layout \in Layouts /\ n \in Nat /\ n <= Calls!AnswerRoom(call)
      /\ Calls!Used(k) # {} =>
            /\ view \in Layouts /\ Calls!Used(k) \subseteq Fields(view)
            /\ \A i \in 1 .. Len(view) : view[i][1] \in Calls!Used(k) =>
                  i <= n /\ i <= Len(layout) /\ layout[i] = view[i]
  <2>1. n = IF k = "MALLOC" THEN Len(Calls!GlobalAddress) ELSE Len(layout)
    BY DEF Calls!AnswerLength, Calls!SizeOf
  <2>2. CASE k \in {"MALLOC", "FREE", "WRITE"}
    <3>1. /\ layout = Calls!SendGlobalAddr /\ view = Calls!SendGlobalAddr
          /\ Calls!Used(k) = {"size", "ptr", "id"}
      BY <2>2 DEF Calls!AnswerLayout, Calls!View, Calls!Used, Calls!ByLock
    <3>2. n = 18 \/ n = 20
      BY <2>1, <3>1, AddressLayout
    <3>3. 20 <= Calls!AnswerRoom(call)
      <4>1. CASE k = "WRITE"
        BY <4>1, AddressLayout DEF Calls!AnswerRoom, Calls!SizeOf, Calls!ByLock, Calls!ByAddress
      <4>2. CASE k # "WRITE"
        <5>1. k \in Calls!ByAddress /\ k \notin Calls!ByLock
          BY <2>2, <4>2 DEF Calls!ByAddress, Calls!ByLock
        <5>2. Calls!AnswerRoom(call) = 20 + call.size
          BY <5>1, AddressLayout DEF Calls!AnswerRoom, Calls!SizeOf
        <5> QED
          BY <1>1, <5>2
      <4> QED
        BY <4>1, <4>2
    <3>4. n <= Calls!AnswerRoom(call)
      <4>1. Calls!AnswerRoom(call) \in Nat
        BY <1>1, <2>2, AddressLayout DEF Calls!AnswerRoom, Calls!SizeOf, Calls!ByLock,
           Calls!ByAddress
      <4> QED
        BY <3>2, <3>3, <4>1
    <3>5. ASSUME NEW i \in 1 .. Len(view), view[i][1] \in Calls!Used(k)
          PROVE  i <= n /\ i <= Len(layout) /\ layout[i] = view[i]
      <4>1. i \in 1 .. 20 /\ i <= 18
        BY <3>1, <3>5, AddressLayout
      <4> QED
        BY <3>1, <3>2, <4>1, AddressLayout
    <3> QED
      BY <3>1, <3>2, <3>4, <3>5, AddressLayout
  <2>3. CASE k \in Calls!ByLock
    <3>1. /\ layout = Calls!Bool /\ view = Calls!Bool /\ n = 1
          /\ Calls!Used(k) \subseteq {"result"}
      BY <2>1, <2>3, OtherLayouts
      DEF Calls!AnswerLayout, Calls!View, Calls!Used, Calls!ByLock
    <3>2. Calls!AnswerRoom(call) = 6
      BY <2>3, OtherLayouts DEF Calls!AnswerRoom, Calls!SizeOf, Calls!ByLock, Calls!ByAddress
    <3>3. \A i \in 1 .. Len(view) : i <= n /\ i <= Len(layout) /\ layout[i] = view[i]
      BY <3>1, OtherLayouts
    <3> QED
      BY <3>1, <3>2, <3>3, OtherLayouts
  <2>4. CASE k \in {"READ", "INVALIDATE"}
    <3>1. /\ layout = Calls!Word /\ n = 8
          /\ k = "READ" => view = Calls!SaveData /\ Calls!Used(k) = {"data"}
          /\ k # "READ" => Calls!Used(k) = {}
      BY <2>1, <2>4, OtherLayouts
      DEF Calls!AnswerLayout, Calls!View, Calls!Used, Calls!ByLock
    <3>2. 8 <= Calls!AnswerRoom(call)
      <4>1. k \in Calls!ByAddress /\ k \notin Calls!ByLock
        BY <2>4 DEF Calls!ByAddress, Calls!ByLock
      <4>2. Calls!AnswerRoom(call) = 20 + call.size
        BY <4>1, AddressLayout DEF Calls!AnswerRoom, Calls!SizeOf
      <4> QED
        BY <1>1, <4>2
    <3>3. ASSUME k = "READ", NEW i \in 1 .. Len(view), view[i][1] \in Calls!Used(k)
          PROVE  i <= n /\ i <= Len(layout) /\ layout[i] = view[i]
      <4>1. i <= 8 /\ i \in 1 .. 8
        BY <3>1, <3>3, EntryLayout DEF BeginsWithWord
      <4> QED
        BY <3>1, <3>3, <4>1, EntryLayout, OtherLayouts DEF BeginsWithWord
    <3> QED
      BY <3>1, <3>2, <3>3, EntryLayout, OtherLayouts DEF BeginsWithWord
  <2> QED
    BY <1>1, <2>2, <2>3, <2>4 DEF Calls!ByLock
<1>3. Answered = Calls!Slice(layout, answer, n)
  BY DEF Answered
<1> HIDE DEF k, layout, answer, view, n
<1>4. /\ \E S : Answered \in Seq(S)
      /\ Len(Answered) = n /\ DOMAIN Answered = 1 .. n
      /\ \A i \in 1 .. n : i <= Len(layout) =>
            Answered[i] = <<answer[layout[i][1]], layout[i][2]>>
  BY <1>2, <1>3, Sliced
<1>5. ASSUME NEW f \in Calls!Used(k)
      PROVE  Calls!Read(view, Answered, f) = answer[f]
  <2>1. ASSUME NEW i \in 1 .. Len(view), view[i][1] = f
        PROVE  i \in DOMAIN Answered /\ Answered[i] = <<answer[f], view[i][2]>>
    <3>1. i <= n /\ i <= Len(layout) /\ layout[i] = view[i]
      BY <1>2, <2>1
    <3>2. i \in 1 .. n
      BY <1>2, <3>1
    <3> QED
      BY <1>4, <2>1, <3>1, <3>2
  <2>2. view \in Layouts /\ f \in Fields(view)
    BY <1>2
  <2>3. Carries(view, Answered, f, answer[f])
    BY <2>1 DEF Carries
  <2> QED
    BY <2>2, <2>3, Understood
<1> QED
  BY <1>2, <1>4, <1>5 DEF k, layout, answer, view, n

\* Bytes that are written over the same bytes, or over none.
LEMMA WrittenOver ==
    ASSUME NEW S, NEW slice \in Seq(S), NEW old \in {<< >>, slice}
    PROVE  slice \o SubSeq(old, Len(slice) + 1, Len(old)) = slice
<1>1. Len(slice) \in Nat /\ Len(old) \in Nat /\ Len(old) <= Len(slice)
  OBVIOUS
<1>2. SubSeq(old, Len(slice) + 1, Len(old)) = << >>
  <2>1. Len(slice) + 1 \in Int /\ Len(old) \in Int /\ Len(old) < Len(slice) + 1
    BY <1>1
  <2> QED
    BY <2>1, SubSeqEmpty
<1> QED
  BY <1>2, ConcatEmptySeq

\* What is posted depends on the call alone.
LEMMA SameCall ==
    ASSUME UNCHANGED call
    PROVE  Requested' = Requested /\ Answered' = Answered
  BY DEF Requested, Answered

\* A call begins, and its request is posted.
LEMMA CallKeeps == ASSUME MessageInv, Calls!Call PROVE MessageInv'
<1>1. Resting /\ MessageTypes /\ client = "idle"
  BY DEF MessageInv, Calls!Call, Asking, Answering
<1>2. /\ call' \in [kind : Calls!Kinds, size : Nat, shared : BOOLEAN]
      /\ client' = "posting" /\ server' = "waiting" /\ region' = << >> /\ buffer' = << >>
      /\ UNCHANGED <<wire, answers, polled, arrived>>
  <2>1. ObjectSizes \subseteq Nat
    BY PartsAssumption DEF Calls!MessagesAssumption
  <2> QED
    BY <2>1 DEF Calls!Call
<1>3. MessageTypes' /\ Resting'
  BY <1>1, <1>2 DEF MessageTypes, Resting
<1>4. FieldsArrive' /\ ThrowsOnlyWhenLarge'
  BY <1>2 DEF FieldsArrive, ThrowsOnlyWhenLarge, Calls!RequestArrives, Calls!AnswerArrives,
     Calls!ThrowsOnlyWhenLarge
<1> QED
  BY <1>3, <1>4 DEF MessageInv

\* The client posts its request, or throws.
LEMMA PostKeepsCall == ASSUME MessageInv, Calls!PostRequest PROVE MessageInv'
<1>1. /\ Resting /\ MessageTypes /\ client = "posting" /\ server = "waiting"
      /\ wire = << >> /\ region = << >> /\ buffer = << >>
  BY DEF MessageInv, Calls!PostRequest, Resting, Asking, Answering
<1> DEFINE wr == Calls!CreateWriteWithImm(Requested, call.kind)
<1>2. /\ Calls!TooLong(wr) <=> Len(Requested) > 512
      /\ Len(Requested) \in Nat
      /\ Len(Requested) > 512 => call.kind \in Calls!ByAddress /\ 20 + call.size > 512
  <2>1. wr.slice = Requested /\ wr.flags = {"INLINE", "SIGNALED"}
    BY DEF Calls!CreateWriteWithImm
  <2> QED
    BY <1>1, <2>1, RequestFacts DEF Calls!TooLong
<1>3. /\ IF Calls!TooLong(wr) THEN client' = "threw" /\ UNCHANGED wire
         ELSE client' = "sent" /\ wire' = Append(wire, wr)
      /\ UNCHANGED <<call, server, region, buffer, request, answers, polled, arrived, result>>
  BY DEF Calls!PostRequest, Requested
<1> HIDE DEF wr
<1>4. MessageTypes' /\ Requested' = Requested
  BY <1>1, <1>3, SameCall DEF MessageTypes
<1>5. CASE Calls!TooLong(wr)
  <2>1. Resting'
    BY <1>1, <1>3, <1>5 DEF Resting
  <2>2. FieldsArrive' /\ ThrowsOnlyWhenLarge'
    BY <1>1, <1>2, <1>3, <1>5 DEF FieldsArrive, ThrowsOnlyWhenLarge, Calls!RequestArrives,
       Calls!AnswerArrives, Calls!ThrowsOnlyWhenLarge
  <2> QED
    BY <1>4, <2>1, <2>2 DEF MessageInv
<1>6. CASE ~ Calls!TooLong(wr)
  <2>1. wire' = <<wr>> /\ wr' = wr
    BY <1>1, <1>3, <1>4, <1>6, OnePacket DEF wr
  <2>2. Asking'
    BY <1>1, <1>2, <1>3, <1>4, <1>6, <2>1 DEF Resting, Asking, wr, Peers
  <2>3. FieldsArrive' /\ ThrowsOnlyWhenLarge'
    BY <1>1, <1>3, <1>6 DEF FieldsArrive, ThrowsOnlyWhenLarge, Calls!RequestArrives,
       Calls!AnswerArrives, Calls!ThrowsOnlyWhenLarge
  <2> QED
    BY <1>4, <2>2, <2>3 DEF MessageInv
<1> QED
  BY <1>5, <1>6

\* The adapter carries a request to the server, or an answer to the client.
LEMMA TransferKeeps == ASSUME MessageInv, Calls!Transfer PROVE MessageInv'
<1>1. /\ MessageTypes /\ wire # << >> /\ (Asking \/ Answering)
      /\ UNCHANGED <<call, client, server, request, answers, result>>
  BY DEF MessageInv, Calls!Transfer, Resting
<1>2. Requested' = Requested /\ Answered' = Answered
  BY <1>1, SameCall
<1>3. FieldsArrive' /\ ThrowsOnlyWhenLarge'
  BY <1>1 DEF MessageInv, FieldsArrive, ThrowsOnlyWhenLarge, Calls!RequestArrives,
     Calls!AnswerArrives, Calls!ThrowsOnlyWhenLarge
<1>4. CASE Asking
  <2> DEFINE wr == Calls!CreateWriteWithImm(Requested, call.kind)
  <2>1. /\ wire = <<wr>> /\ client = "sent" /\ server = "waiting" /\ region = << >>
        /\ buffer = << >> /\ polled["client"] = << >> /\ arrived["server"] = << >>
    BY <1>1, <1>4 DEF Asking
  <2>2. /\ wr.slice = Requested /\ wr.imm = call.kind /\ "SIGNALED" \in wr.flags
    BY DEF Calls!CreateWriteWithImm
  <2>3. Len(Requested) <= BufferSize
    <3>1. 512 <= BufferSize /\ BufferSize \in Nat
      BY PartsAssumption DEF Calls!MessagesAssumption
    <3> QED
      BY <1>1, <1>4, <3>1, RequestFacts DEF Asking
  <2> HIDE DEF wr
  <2>4. Head(wire) = wr /\ Tail(wire) = << >>
    BY <2>1, OnePacket
  <2>5. /\ wire' = << >>
        /\ polled' = [polled EXCEPT !["client"] = Append(@, TRUE)]
        /\ arrived' = [arrived EXCEPT !["server"] = Append(@, call.kind)]
        /\ region' = Requested \o SubSeq(region, Len(Requested) + 1, Len(region))
        /\ buffer' = buffer
    BY <2>1, <2>2, <2>3, <2>4 DEF Calls!Transfer
  <2>6. region' = Requested
    BY <1>1, <2>1, <2>5, RequestFacts, WrittenOver
  <2>7. /\ polled'["client"] = <<TRUE>> /\ polled'["server"] = polled["server"]
        /\ arrived'["server"] = <<call.kind>> /\ arrived'["client"] = arrived["client"]
        /\ DOMAIN polled' = Peers /\ DOMAIN arrived' = Peers
    BY <1>1, <2>1, <2>5, OnePacket DEF MessageTypes, Peers
  <2>8. MessageTypes' /\ Asking'
    BY <1>1, <1>2, <1>4, <2>1, <2>5, <2>6, <2>7 DEF MessageTypes, Asking
  <2> QED
    BY <1>3, <2>8 DEF MessageInv
<1>5. CASE Answering
  <2>1. PICK imm \in {"INVALIDATE", "DEFAULT", "RESET"} :
            /\ wire = <<Calls!CreateWriteWithImm(Answered, imm)>>
            /\ imm = "INVALIDATE" <=> answers # << >>
    BY <1>1, <1>5 DEF Answering
  <2> DEFINE wr == Calls!CreateWriteWithImm(Answered, imm)
  <2>2. /\ wr.slice = Answered /\ wr.imm = imm /\ "SIGNALED" \in wr.flags /\ wire = <<wr>>
    BY <2>1 DEF Calls!CreateWriteWithImm
  <2>3. /\ server = "answering" /\ Len(Answered) <= Calls!AnswerRoom(call)
        /\ polled["server"] = << >> /\ buffer \in {<< >>, Answered} /\ client # "returned"
    BY <1>1, <1>5, AnswerFacts DEF Answering
  <2> HIDE DEF wr
  <2>4. Head(wire) = wr /\ Tail(wire) = << >>
    BY <2>2, OnePacket
  <2>5. /\ wire' = << >>
        /\ polled' = [polled EXCEPT !["server"] = Append(@, TRUE)]
        /\ arrived' = [arrived EXCEPT !["client"] = Append(@, imm)]
        /\ buffer' = Answered \o SubSeq(buffer, Len(Answered) + 1, Len(buffer))
        /\ region' = region
    BY <2>2, <2>3, <2>4 DEF Calls!Transfer
  <2>6. buffer' = Answered
    BY <1>1, <2>3, <2>5, AnswerFacts, WrittenOver
  <2>7. /\ polled'["server"] = <<TRUE>> /\ polled'["client"] = polled["client"]
        /\ arrived'["client"] = Append(arrived["client"], imm)
        /\ arrived'["server"] = arrived["server"]
        /\ DOMAIN polled' = Peers /\ DOMAIN arrived' = Peers
    BY <1>1, <2>3, <2>5, OnePacket DEF MessageTypes, Peers
  <2> DEFINE list == arrived["client"]
             longer == Append(list, imm)
  <2>8. /\ list \in Seq({"INVALIDATE", "DEFAULT", "RESET"})
        /\ \A i \in 1 .. Len(list) : list[i] = "INVALIDATE"
    BY <1>1, <1>5 DEF MessageTypes, Answering
  <2> HIDE DEF list
  <2>9. /\ longer \in Seq({"INVALIDATE", "DEFAULT", "RESET"}) /\ longer # << >>
        /\ Len(longer) = Len(list) + 1 /\ Len(list) \in Nat
        /\ \A i \in 1 .. Len(list) : longer[i] = "INVALIDATE"
        /\ longer[Len(list) + 1] = imm
    BY <2>8
  <2>10. ASSUME NEW i \in 1 .. Len(longer)
         PROVE  longer[i] = "INVALIDATE" <=> i < Len(longer) \/ answers # << >>
    <3>1. CASE i = Len(longer)
      BY <2>1, <2>9, <3>1
    <3>2. CASE i # Len(longer)
      <4>1. i \in 1 .. Len(list) /\ i < Len(longer)
        BY <2>9, <3>2
      <4> QED
        BY <2>9, <4>1
    <3> QED
      BY <3>1, <3>2
  <2>11. arrived'["client"] = longer
    BY <2>7 DEF list
  <2> HIDE DEF longer
  <2>12. MessageTypes'
    BY <1>1, <2>7, <2>9, <2>11 DEF MessageTypes
  <2>13. Answering'
    BY <1>1, <1>2, <1>5, <2>3, <2>5, <2>6, <2>7, <2>9, <2>10, <2>11 DEF Answering
  <2> QED
    BY <1>3, <2>12, <2>13 DEF MessageInv
<1> QED
  BY <1>1, <1>4, <1>5

\* The client polls the completion of its request.
LEMMA ClientPollKeeps == ASSUME MessageInv, Calls!ClientPollSend PROVE MessageInv'
<1>1. /\ MessageTypes /\ (Asking \/ Answering) /\ client = "sent" /\ polled["client"] # << >>
      /\ UNCHANGED <<call, server, wire, region, buffer, request, answers, arrived, result>>
  BY DEF MessageInv, Calls!ClientPollSend, Calls!PollSend, Resting
<1>2. polled["client"] = <<TRUE>> /\ (Asking => wire = << >> /\ region = Requested
                                         /\ arrived["server"] = <<call.kind>>)
  BY <1>1 DEF Asking, Answering
<1>3. Head(polled["client"]) /\ Tail(polled["client"]) = << >>
  BY <1>2, OnePacket
<1>4. client' = "receiving" /\ polled' = [polled EXCEPT !["client"] = << >>]
  BY <1>3 DEF Calls!ClientPollSend, Calls!PollSend
<1>5. polled'["client"] = << >> /\ polled'["server"] = polled["server"] /\ DOMAIN polled' = Peers
  BY <1>1, <1>4 DEF MessageTypes, Peers
<1>6. Requested' = Requested /\ Answered' = Answered
  BY <1>1, SameCall
<1>7. MessageTypes'
  BY <1>1, <1>5 DEF MessageTypes
<1>8. FieldsArrive' /\ ThrowsOnlyWhenLarge'
  BY <1>1, <1>4 DEF MessageInv, FieldsArrive, ThrowsOnlyWhenLarge, Calls!RequestArrives,
     Calls!AnswerArrives, Calls!ThrowsOnlyWhenLarge
<1>9. CASE Asking
  <2>1. Asking'
    BY <1>1, <1>2, <1>4, <1>5, <1>6, <1>9 DEF Asking
  <2> QED
    BY <1>7, <1>8, <2>1 DEF MessageInv
<1>10. CASE Answering
  <2>1. Answering'
    BY <1>1, <1>4, <1>5, <1>6, <1>10 DEF Answering
  <2> QED
    BY <1>7, <1>8, <2>1 DEF MessageInv
<1> QED
  BY <1>1, <1>9, <1>10

\* The server takes the request, and decides how many answers it gives.
LEMMA TakeRequestKeeps == ASSUME MessageInv, Calls!TakeRequest PROVE MessageInv'
<1>1. /\ MessageTypes /\ Asking /\ server = "waiting" /\ arrived["server"] # << >>
      /\ UNCHANGED <<call, client, wire, region, buffer, polled, result>> /\ server' = "handling"
  BY DEF MessageInv, Calls!TakeRequest, Resting, Answering, Peers
<1>2. /\ arrived["server"] = <<call.kind>> /\ wire = << >> /\ region = Requested
      /\ polled["client"] = IF client = "sent" THEN <<TRUE>> ELSE << >>
  BY <1>1 DEF Asking
<1>3. Head(arrived["server"]) = call.kind /\ Tail(arrived["server"]) = << >>
  BY <1>2, OnePacket
<1>4. /\ arrived' = [arrived EXCEPT !["server"] = << >>]
      /\ request' = [f \in DOMAIN Calls!Meant(call.kind) |->
                        Calls!Read(Calls!RequestLayout(call.kind), region, f)]
      /\ answers' = IF call.shared THEN <<"INVALIDATE", "DEFAULT">>
                    ELSE IF call.kind = "RESET" THEN <<"RESET">> ELSE <<"DEFAULT">>
  BY <1>3 DEF Calls!TakeRequest
<1>5. request' = Calls!Meant(call.kind)
  BY <1>1, <1>2, <1>4, RequestFacts
<1>6. arrived'["server"] = << >> /\ arrived'["client"] = arrived["client"] /\ DOMAIN arrived' = Peers
  BY <1>1, <1>4 DEF MessageTypes, Peers
<1>7. /\ answers' \in Seq({"INVALIDATE", "DEFAULT", "RESET"}) /\ answers' # << >>
      /\ \A i \in 1 .. Len(answers') : answers'[i] = "INVALIDATE" <=> i < Len(answers')
  <2>1. CASE answers' = <<"INVALIDATE", "DEFAULT">>
    BY <2>1
  <2>2. CASE answers' = <<"RESET">>
    BY <2>2
  <2>3. CASE answers' = <<"DEFAULT">>
    BY <2>3
  <2> QED
    BY <1>4, <2>1, <2>2, <2>3
<1>8. MessageTypes'
  BY <1>1, <1>6, <1>7 DEF MessageTypes
<1>9. Answering'
  <2>1. arrived["client"] = << >> /\ buffer = << >> /\ polled["server"] = << >>
        /\ client \in {"sent", "receiving"}
    BY <1>1 DEF Asking
  <2>2. \A i \in 1 .. Len(arrived'["client"]) : FALSE
    BY <1>6, <2>1
  <2> QED
    BY <1>1, <1>2, <1>6, <1>7, <2>1, <2>2 DEF Answering
<1>10. FieldsArrive' /\ ThrowsOnlyWhenLarge'
  BY <1>1, <1>5 DEF MessageInv, FieldsArrive, ThrowsOnlyWhenLarge, Calls!RequestArrives,
     Calls!AnswerArrives, Calls!ThrowsOnlyWhenLarge
<1> QED
  BY <1>8, <1>9, <1>10 DEF MessageInv

\* The rest of the answers.
LEMMA NextAnswer ==
    ASSUME NEW S, NEW list \in Seq(S), list # << >>
    PROVE  /\ Head(list) \in S /\ Head(list) = list[1] /\ Tail(list) \in Seq(S)
           /\ Len(list) \in Nat /\ Len(list) > 0 /\ Len(Tail(list)) = Len(list) - 1
           /\ Tail(list) = << >> <=> Len(list) = 1
           /\ \A i \in 1 .. Len(Tail(list)) : i + 1 \in 1 .. Len(list)
                                              /\ Tail(list)[i] = list[i + 1]
<1>1. /\ Len(list) \in Nat /\ Len(list) > 0 /\ Head(list) = list[1] /\ Head(list) \in S
      /\ Tail(list) \in Seq(S) /\ Len(Tail(list)) = Len(list) - 1
      /\ \A i \in 1 .. (Len(list) - 1) : Tail(list)[i] = list[i + 1]
  OBVIOUS
<1>2. Tail(list) = << >> <=> Len(list) = 1
  <2>1. Tail(list) = << >> <=> Len(Tail(list)) = 0
    BY <1>1, EmptySeq
  <2> QED
    BY <1>1, <2>1
<1>3. \A i \in 1 .. Len(Tail(list)) : i + 1 \in 1 .. Len(list) /\ Tail(list)[i] = list[i + 1]
  BY <1>1
<1> QED
  BY <1>1, <1>2, <1>3

\* The server posts an answer: the last one says so.
LEMMA PostAnswerKeeps == ASSUME MessageInv, Calls!PostAnswer PROVE MessageInv'
<1>1. /\ MessageTypes /\ Answering /\ server = "handling" /\ server' = "answering"
      /\ request = Calls!Meant(call.kind)
      /\ UNCHANGED <<call, client, region, buffer, request, polled, arrived, result>>
  BY DEF MessageInv, Calls!PostAnswer, Resting, Asking, FieldsArrive, Calls!RequestArrives
<1>2. /\ wire = << >> /\ answers # << >> /\ polled["server"] = << >>
      /\ answers \in Seq({"INVALIDATE", "DEFAULT", "RESET"})
      /\ \A i \in 1 .. Len(answers) : answers[i] = "INVALIDATE" <=> i < Len(answers)
      /\ \A i \in 1 .. Len(arrived["client"]) : arrived["client"][i] = "INVALIDATE"
  BY <1>1 DEF Answering, MessageTypes
<1> DEFINE imm == Head(answers)
           wr == Calls!CreateWriteWithImm(Answered, imm)
<1>3. /\ imm \in {"INVALIDATE", "DEFAULT", "RESET"}
      /\ Tail(answers) \in Seq({"INVALIDATE", "DEFAULT", "RESET"})
      /\ imm = "INVALIDATE" <=> Tail(answers) # << >>
      /\ \A i \in 1 .. Len(Tail(answers)) :
            Tail(answers)[i] = "INVALIDATE" <=> i < Len(Tail(answers))
  <2>1. /\ imm \in {"INVALIDATE", "DEFAULT", "RESET"} /\ imm = answers[1]
        /\ Tail(answers) \in Seq({"INVALIDATE", "DEFAULT", "RESET"})
        /\ Len(answers) \in Nat /\ Len(answers) > 0
        /\ Len(Tail(answers)) = Len(answers) - 1
        /\ Tail(answers) = << >> <=> Len(answers) = 1
        /\ \A i \in 1 .. Len(Tail(answers)) : i + 1 \in 1 .. Len(answers)
                                              /\ Tail(answers)[i] = answers[i + 1]
    BY <1>2, NextAnswer
  <2> HIDE DEF imm
  <2>2. imm = "INVALIDATE" <=> Tail(answers) # << >>
    <3>1. 1 \in 1 .. Len(answers)
      BY <2>1
    <3>2. imm = "INVALIDATE" <=> 1 < Len(answers)
      BY <1>2, <2>1, <3>1
    <3> QED
      BY <2>1, <3>2
  <2>3. ASSUME NEW i \in 1 .. Len(Tail(answers))
        PROVE  Tail(answers)[i] = "INVALIDATE" <=> i < Len(Tail(answers))
    <3>1. /\ i + 1 \in 1 .. Len(answers) /\ Tail(answers)[i] = answers[i + 1]
          /\ i + 1 < Len(answers) <=> i < Len(Tail(answers))
      BY <2>1
    <3> QED
      BY <1>2, <3>1
  <2> QED
    BY <2>1, <2>2, <2>3
<1>4. wire' = <<wr>> /\ answers' = Tail(answers)
  <2>1. wire' = Append(wire, wr) /\ answers' = Tail(answers)
    BY <1>1 DEF Calls!PostAnswer, Answered
  <2> HIDE DEF wr
  <2> QED
    BY <1>2, <2>1, OnePacket
<1> HIDE DEF imm
<1>5. Answered' = Answered
  BY <1>1, SameCall
<1>6. MessageTypes'
  BY <1>1, <1>3, <1>4 DEF MessageTypes
<1>7. wire' # << >>
  BY <1>4, OnePacket
<1>8. Answering'
  <2>1. \E j \in {"INVALIDATE", "DEFAULT", "RESET"} :
            /\ wire' = <<Calls!CreateWriteWithImm(Answered', j)>>
            /\ j = "INVALIDATE" <=> answers' # << >>
    BY <1>3, <1>4, <1>5
  <2> HIDE DEF wr
  <2>2. client # "returned"
    BY <1>1, <1>2 DEF Answering
  <2> QED
    BY <1>1, <1>2, <1>3, <1>4, <1>5, <1>7, <2>1, <2>2 DEF Answering
<1>9. FieldsArrive' /\ ThrowsOnlyWhenLarge'
  BY <1>1 DEF MessageInv, FieldsArrive, ThrowsOnlyWhenLarge, Calls!RequestArrives,
     Calls!AnswerArrives, Calls!ThrowsOnlyWhenLarge
<1> QED
  BY <1>6, <1>8, <1>9 DEF MessageInv

\* The server polls the completion of an answer.
LEMMA ServerPollKeeps == ASSUME MessageInv, Calls!ServerPollSend PROVE MessageInv'
<1>1. /\ MessageTypes /\ Answering /\ server = "answering" /\ polled["server"] # << >>
      /\ UNCHANGED <<call, client, wire, region, buffer, request, answers, arrived, result>>
  BY DEF MessageInv, Calls!ServerPollSend, Calls!PollSend, Resting, Asking, Peers
<1>2. polled["server"] = <<TRUE>> /\ wire = << >>
  BY <1>1 DEF Answering
<1>3. Head(polled["server"]) /\ Tail(polled["server"]) = << >>
  BY <1>2, OnePacket
<1>4. /\ server' = IF answers = << >> THEN "answered" ELSE "handling"
      /\ polled' = [polled EXCEPT !["server"] = << >>]
  BY <1>3 DEF Calls!ServerPollSend, Calls!PollSend
<1>5. polled'["server"] = << >> /\ polled'["client"] = polled["client"] /\ DOMAIN polled' = Peers
  BY <1>1, <1>4 DEF MessageTypes, Peers
<1>6. Answered' = Answered
  BY <1>1, SameCall
<1>7. MessageTypes'
  BY <1>1, <1>5 DEF MessageTypes
<1>8. Answering'
  BY <1>1, <1>2, <1>4, <1>5, <1>6 DEF Answering
<1>9. FieldsArrive' /\ ThrowsOnlyWhenLarge'
  BY <1>1, <1>4 DEF MessageInv, FieldsArrive, ThrowsOnlyWhenLarge, Calls!RequestArrives,
     Calls!AnswerArrives, Calls!ThrowsOnlyWhenLarge
<1> QED
  BY <1>7, <1>8, <1>9 DEF MessageInv

\* The client takes an answer: the last one has arrived with all before it.
LEMMA TakeAnswerKeeps == ASSUME MessageInv, Calls!TakeAnswer PROVE MessageInv'
<1> DEFINE list == arrived["client"]
<1>1. /\ MessageTypes /\ Answering /\ client = "receiving" /\ list # << >>
      /\ UNCHANGED <<call, server, wire, region, buffer, request, answers, polled>>
      /\ arrived' = [arrived EXCEPT !["client"] = Tail(@)]
      /\ IF Head(list) = "INVALIDATE" THEN UNCHANGED <<client, result>>
         ELSE /\ result' = [f \in Calls!Used(call.kind) |->
                              Calls!Read(Calls!View(call.kind), buffer, f)]
              /\ client' = "returned"
  BY DEF MessageInv, Calls!TakeAnswer, Resting, Asking, Peers
<1>2. /\ list \in Seq({"INVALIDATE", "DEFAULT", "RESET"}) /\ buffer = Answered
      /\ \A i \in 1 .. Len(list) : list[i] = "INVALIDATE" <=>
             i < Len(list) \/ wire # << >> \/ answers # << >>
  BY <1>1 DEF Answering, MessageTypes
<1>3. /\ arrived'["client"] = Tail(list) /\ arrived'["server"] = arrived["server"]
      /\ DOMAIN arrived' = Peers
  BY <1>1 DEF MessageTypes, Peers
<1> HIDE DEF list
<1>4. /\ Head(list) = list[1] /\ Tail(list) \in Seq({"INVALIDATE", "DEFAULT", "RESET"})
      /\ Len(list) \in Nat /\ Len(list) > 0 /\ Len(Tail(list)) = Len(list) - 1
      /\ Tail(list) = << >> <=> Len(list) = 1
      /\ \A i \in 1 .. Len(Tail(list)) : i + 1 \in 1 .. Len(list)
                                         /\ Tail(list)[i] = list[i + 1]
  BY <1>1, <1>2, NextAnswer
<1>5. Head(list) = "INVALIDATE" <=> Tail(list) # << >> \/ wire # << >> \/ answers # << >>
  <2>1. 1 \in 1 .. Len(list) /\ (1 < Len(list) <=> Len(list) # 1)
    <3> DEFINE l == Len(list)
    <3>1. l \in Nat /\ l > 0
      BY <1>4
    <3> HIDE DEF l
    <3>2. 1 \in 1 .. l /\ (1 < l <=> l # 1)
      BY <3>1
    <3> QED
      BY <3>2 DEF l
  <2> QED
    BY <1>2, <1>4, <2>1
<1>6. ASSUME NEW i \in 1 .. Len(Tail(list))
      PROVE  Tail(list)[i] = "INVALIDATE" <=>
                 i < Len(Tail(list)) \/ wire # << >> \/ answers # << >>
  <2>1. /\ i + 1 \in 1 .. Len(list) /\ Tail(list)[i] = list[i + 1]
        /\ (i + 1 < Len(list) <=> i < Len(Tail(list)))
    BY <1>4
  <2> QED
    BY <1>2, <2>1
<1>7. MessageTypes'
  BY <1>1, <1>3, <1>4 DEF MessageTypes
<1>8. Answered' = Answered
  BY <1>1, SameCall
<1>9. client' \in {"receiving", "returned"} /\ (client' = "returned" <=> Head(list) # "INVALIDATE")
  BY <1>1
<1>10. Answering'
  <2>1. /\ server \in {"handling", "answering", "answered"} /\ arrived["server"] = << >>
        /\ server = "handling" => answers # << >>
        /\ server = "answered" => answers = << >>
        /\ polled["client"] = << >>
        /\ polled["server"] = IF server = "answering" /\ wire = << >> THEN <<TRUE>> ELSE << >>
        /\ \/ wire = << >>
           \/ /\ server = "answering"
              /\ \E imm \in {"INVALIDATE", "DEFAULT", "RESET"} :
                    /\ wire = <<Calls!CreateWriteWithImm(Answered, imm)>>
                    /\ imm = "INVALIDATE" <=> answers # << >>
        /\ \A i \in 1 .. Len(answers) : answers[i] = "INVALIDATE" <=> i < Len(answers)
    BY <1>1 DEF Answering
  <2> QED
    BY <1>1, <1>2, <1>3, <1>5, <1>6, <1>8, <1>9, <2>1 DEF Answering
<1>11. FieldsArrive' /\ ThrowsOnlyWhenLarge'
  <2>1. Calls!RequestArrives' /\ ThrowsOnlyWhenLarge'
    BY <1>1, <1>9 DEF MessageInv, FieldsArrive, ThrowsOnlyWhenLarge, Calls!RequestArrives,
       Calls!ThrowsOnlyWhenLarge
  <2>2. ASSUME client' = "returned", NEW f \in Calls!Used(call.kind)
        PROVE  result'[f] = Calls!Answer(call.kind, Calls!Meant(call.kind))[f]
    <3>1. result'[f] = Calls!Read(Calls!View(call.kind), buffer, f)
      BY <1>1, <1>9, <2>2
    <3> QED
      BY <1>1, <1>2, <3>1, AnswerFacts
  <2>3. Calls!AnswerArrives'
    BY <1>1, <2>2 DEF Calls!AnswerArrives
  <2> QED
    BY <2>1, <2>3 DEF FieldsArrive
<1> QED
  BY <1>7, <1>10, <1>11 DEF MessageInv

\* Both are done with the call, and nothing of it is left.
LEMMA AgainKeeps == ASSUME MessageInv, Calls!Again PROVE MessageInv'
<1>1. /\ MessageTypes /\ Answering /\ client = "returned" /\ server = "answered"
      /\ client' = "idle"
      /\ UNCHANGED <<call, server, wire, region, buffer, request, answers, polled, arrived,
                     result>>
  BY DEF MessageInv, Calls!Again, Resting, Asking
<1>2. Resting'
  BY <1>1 DEF Answering, Resting, Peers
<1>3. MessageTypes'
  BY <1>1 DEF MessageTypes
<1>4. FieldsArrive' /\ ThrowsOnlyWhenLarge'
  BY <1>1 DEF MessageInv, FieldsArrive, ThrowsOnlyWhenLarge, Calls!RequestArrives,
     Calls!AnswerArrives, Calls!ThrowsOnlyWhenLarge
<1> QED
  BY <1>2, <1>3, <1>4 DEF MessageInv

\* A connection starts without a call, and every step keeps the stages.
LEMMA MessageStart == Calls!Init => MessageInv
<1> SUFFICES ASSUME Calls!Init PROVE MessageInv
  OBVIOUS
<1>1. MessageTypes
  BY DEF Calls!Init, MessageTypes, Calls!Kinds, Calls!ByLock, Peers
<1>2. Resting
  BY DEF Calls!Init, Resting, Peers
<1>3. FieldsArrive /\ ThrowsOnlyWhenLarge
  BY DEF Calls!Init, FieldsArrive, ThrowsOnlyWhenLarge, Calls!RequestArrives,
     Calls!AnswerArrives, Calls!ThrowsOnlyWhenLarge
<1> QED
  BY <1>1, <1>2, <1>3 DEF MessageInv

LEMMA MessageNext == ASSUME MessageInv, [Calls!Next]_(Calls!vars) PROVE MessageInv'
<1>1. CASE UNCHANGED Calls!vars
  <2>1. UNCHANGED <<call, client, server, wire, region, buffer, request, answers, polled,
                    arrived, result>>
    BY <1>1 DEF Calls!vars
  <2>2. Requested' = Requested /\ Answered' = Answered
    BY <2>1, SameCall
  <2>3. MessageTypes' /\ (Resting \/ Asking \/ Answering)'
    BY <2>1, <2>2 DEF MessageInv, MessageTypes, Resting, Asking, Answering
  <2>4. FieldsArrive' /\ ThrowsOnlyWhenLarge'
    BY <2>1 DEF MessageInv, FieldsArrive, ThrowsOnlyWhenLarge, Calls!RequestArrives,
       Calls!AnswerArrives, Calls!ThrowsOnlyWhenLarge
  <2> QED
    BY <2>3, <2>4 DEF MessageInv
<1>2. CASE Calls!Next
  BY <1>2, CallKeeps, PostKeepsCall, TransferKeeps, ClientPollKeeps, TakeRequestKeeps,
     PostAnswerKeeps, ServerPollKeeps, TakeAnswerKeeps, AgainKeeps DEF Calls!Next, Calls!Step
<1> QED
  BY <1>1, <1>2

\* For objects of any size: the server reads the request that was meant, and the
\* client takes from an answer only what it carried.
THEOREM FieldsArriveAsMeant == Calls!Spec => []FieldsArrive
<1>1. MessageInv => FieldsArrive
  BY DEF MessageInv
<1> QED
  BY <1>1, MessageStart, MessageNext, PTL DEF Calls!Spec

\* A call throws only for an object too large to be sent with its address.
THEOREM OnlyLargeObjectsThrow == Calls!Spec => []ThrowsOnlyWhenLarge
<1>1. MessageInv => ThrowsOnlyWhenLarge
  BY DEF MessageInv
<1> QED
  BY <1>1, MessageStart, MessageNext, PTL DEF Calls!Spec

\* The objects whose address the calls carry, and what fits both buffers.
MessageFits == /\ call.size \in ObjectSizes \cup {0}
               /\ Len(region) <= BufferSize /\ Len(buffer) <= Calls!AnswerRoom(call)

\* What a call asks and answers has room.
RoomThere == MessageTypes => /\ 0 <= Calls!AnswerRoom(call)
                             /\ Len(Answered) <= Calls!AnswerRoom(call)

LEMMA RoomIsThere == RoomThere
<1> SUFFICES ASSUME MessageTypes PROVE 0 <= Calls!AnswerRoom(call)
  BY AnswerFacts DEF RoomThere
<1>1. Len(Calls!SendGlobalAddr) = 20 /\ Len(Calls!Lock) = 6
  BY AddressLayout, OtherLayouts
<1> QED
  BY <1>1 DEF Calls!AnswerRoom, Calls!SizeOf, MessageTypes

\* A request is written over nothing, and an answer over nothing or the same.
LEMMA MessageFitsNext ==
    ASSUME MessageInv, MessageFits, [Calls!Next]_(Calls!vars) PROVE MessageFits'
<1>1. MessageInv' /\ MessageTypes'
  BY MessageNext DEF MessageInv
<1>2. RoomThere'
  BY RoomIsThere, PTL
<1>3. 512 <= BufferSize /\ BufferSize \in Nat /\ Len(<< >>) = 0
  BY PartsAssumption DEF Calls!MessagesAssumption
<1>4. CASE Calls!Call
  <2>1. call'.size \in ObjectSizes /\ region' = << >> /\ buffer' = << >>
    BY <1>4 DEF Calls!Call
  <2> QED
    BY <1>1, <1>2, <1>3, <2>1 DEF MessageFits, RoomThere
<1>5. CASE Calls!Transfer
  <2>1. /\ UNCHANGED <<call, client, server>> /\ wire # << >>
        /\ region' = region \/ server # "answering"
        /\ buffer' = buffer \/ server = "answering"
    BY <1>5 DEF Calls!Transfer
  <2>2. Len(region') <= BufferSize
    <3>1. CASE region' = region
      BY <3>1 DEF MessageFits
    <3>2. CASE server # "answering"
      <4>1. Asking
        BY <2>1, <3>2 DEF MessageInv, Resting, Answering
      <4>2. client' = "sent" /\ server' = "waiting"
        BY <2>1, <4>1 DEF Asking
      <4>3. region' = << >> \/ (region' = Requested' /\ Len(Requested') <= 512)
        BY <1>1, <4>2 DEF MessageInv, Resting, Asking, Answering
      <4>4. Requested' = Requested /\ Len(Requested) \in Nat
        BY <2>1, SameCall, RequestFacts DEF MessageInv
      <4> QED
        BY <1>3, <4>3, <4>4
    <3> QED
      BY <2>1, <3>1, <3>2
  <2>3. Len(buffer') <= Calls!AnswerRoom(call)'
    <3>1. CASE buffer' = buffer
      BY <2>1, <3>1 DEF MessageFits, Calls!AnswerRoom
    <3>2. CASE server = "answering"
      <4>1. server' = "answering"
        BY <2>1, <3>2
      <4>2. buffer' \in {<< >>, Answered'}
        BY <1>1, <4>1 DEF MessageInv, Resting, Asking, Answering
      <4> QED
        BY <1>1, <1>2, <1>3, <4>2 DEF RoomThere
    <3> QED
      BY <2>1, <3>1, <3>2
  <2> QED
    BY <2>1, <2>2, <2>3 DEF MessageFits
<1>6. CASE UNCHANGED <<call, region, buffer>>
  BY <1>6 DEF MessageFits, Calls!AnswerRoom
<1>7. Calls!Next => Calls!Call \/ Calls!Transfer \/ UNCHANGED <<call, region, buffer>>
  BY DEF Calls!Next, Calls!Step, Calls!PostRequest, Calls!ClientPollSend, Calls!TakeRequest,
     Calls!PostAnswer, Calls!ServerPollSend, Calls!TakeAnswer, Calls!Again
<1> QED
  BY <1>4, <1>5, <1>6, <1>7 DEF Calls!vars

\* The calls keep their types.
LEMMA MessageTypesHold == Calls!Spec => []Calls!TypeOK
<1>1. Calls!Init => MessageFits
  <2> SUFFICES ASSUME Calls!Init PROVE MessageFits
    OBVIOUS
  <2>1. MessageTypes /\ 0 <= BufferSize /\ Len(<< >>) = 0
    BY MessageStart, PartsAssumption DEF MessageInv, Calls!MessagesAssumption
  <2>2. 0 <= Calls!AnswerRoom(call)
    BY <2>1, RoomIsThere DEF RoomThere
  <2> QED
    BY <2>1, <2>2 DEF Calls!Init, MessageFits
<1>2. MessageInv /\ MessageFits => Calls!TypeOK
  <2> SUFFICES ASSUME MessageInv, MessageFits PROVE Calls!TypeOK
    OBVIOUS
  <2>1. call \in [kind : Calls!Kinds, size : ObjectSizes \cup {0}, shared : BOOLEAN]
    BY DEF MessageInv, MessageTypes, MessageFits
  <2>2. Len(<< >>) = 0 /\ \A x : Len(<<x>>) = 1
    BY OnePacket
  <2>3. /\ client \in {"idle", "posting", "sent", "receiving", "returned", "threw"}
        /\ server \in {"waiting", "handling", "answering", "answered", "threw"}
        /\ wire = << >> \/ \E x : wire = <<x>>
    BY DEF MessageInv, Resting, Asking, Answering
  <2>4. Len(wire) <= 1
    <3>1. CASE wire = << >>
      BY <2>2, <3>1
    <3>2. CASE \E x : wire = <<x>>
      <4>1. PICK x : wire = <<x>>
        BY <3>2
      <4>2. Len(<<x>>) = 1
        BY ONLY <2>2
      <4> QED
        BY <4>1, <4>2
    <3> QED
      BY <2>3, <3>1, <3>2
  <2> QED
    BY <2>1, <2>3, <2>4 DEF MessageFits, Calls!TypeOK
<1> QED
  BY <1>1, <1>2, MessageStart, MessageNext, MessageFitsNext, PTL DEF Calls!Spec

-----------------------------------------------------------------------------
(* The parts together.                                                     *)

\* A step of the parts is, for each of them, a step or a stutter.
LEMMA EachPart ==
    ASSUME [PartNext]_partVars
    PROVE  /\ [Next]_vars /\ [Stream!Next]_(Stream!vars) /\ [Objects!Next]_(Objects!vars)
           /\ [Pairs!Next]_(Pairs!vars) /\ [Calls!Next]_(Calls!vars)
<1> USE DEF streamVars, verbsVars, setupVars, messageVars, Stream!vars, Objects!vars,
            Pairs!vars, Calls!vars
<1>1. CASE UNCHANGED partVars
  BY <1>1 DEF partVars
<1>2. CASE InSockets
  BY <1>2 DEF InSockets
<1>3. CASE InStream(Stream!Next)
  BY <1>3 DEF InStream
<1>4. CASE InVerbs(Objects!Next)
  BY <1>4 DEF InVerbs
<1>5. CASE InPairs(Pairs!Next)
  BY <1>5 DEF InPairs
<1>6. CASE InCalls(Calls!Next)
  BY <1>6 DEF InCalls
<1> QED
  BY <1>1, <1>2, <1>3, <1>4, <1>5, <1>6 DEF PartNext

\* Every behaviour of the parts together is one of each part.
THEOREM EveryPartIsItself ==
    PartSpec => Spec /\ Stream!Spec /\ Objects!Spec /\ Pairs!Spec /\ Calls!Spec
<1>1. PartInit => Init /\ Stream!Init /\ Objects!Init /\ Pairs!Init /\ Calls!Init
  BY DEF PartInit
<1>2. [PartNext]_partVars =>
          /\ [Next]_vars /\ [Stream!Next]_(Stream!vars) /\ [Objects!Next]_(Objects!vars)
          /\ [Pairs!Next]_(Pairs!vars) /\ [Calls!Next]_(Calls!vars)
  BY EachPart
<1> QED
  BY <1>1, <1>2, PTL DEF PartSpec, Spec, Stream!Spec, Objects!Spec, Pairs!Spec, Calls!Spec

\* The sockets, the stream, the verbs objects, the queue pairs and the calls
\* all keep their types: the kernel's room, the two messages a socket may hold,
\* the one packet and the one completion of a kind, the buffers of a call.
THEOREM PartsKeepTheirTypes == PartSpec => []PartsTypeOK
<1>1. HoldInv => Objects!TypeOK
  BY DEF HoldInv
<1>2. Objects!Spec => []Objects!TypeOK
  BY <1>1, HoldInit, HoldNext, PTL DEF Objects!Spec
<1> QED
  BY <1>2, EveryPartIsItself, EveryDescriptorHasOneOwner, StreamTypesHold, SetupTypesHold,
     MessageTypesHold, PTL DEF PartsTypeOK

\* A connection made of these parts keeps what each of them promises.
THEOREM PartsKeepTheirPromises ==
    PartSpec => /\ []Accounted /\ ImplementsOwnership
                /\ ImplementsSwap /\ []ObjectsHeld
                /\ []ConnectedAsMeant /\ []NothingIsLost
                /\ []FieldsArrive /\ []ThrowsOnlyWhenLarge
  BY EveryPartIsItself, EveryDescriptorHasOneOwner, SocketsImplementOwnership,
     RecordsArriveWhole, VerbsObjectsAreHeld, QueuePairsLeadToEachOther, NoPacketIsLost,
     FieldsArriveAsMeant, OnlyLargeObjectsThrow, PTL
=============================================================================
