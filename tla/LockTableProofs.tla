--------------------------- MODULE LockTableProofs ---------------------------
(***************************************************************************)
(* Proofs about the lock table, for any number of nodes and locks: the     *)
(* inductive invariant, the exclusion of writers, the justification of     *)
(* every refusal, and the refinement of the abstract lock.                 *)
(***************************************************************************)
EXTENDS LockTable, TLAPS

\* A step of n that leaves want and the set of holders alone.
LEMMA HoldersUnchanged ==
    ASSUME want' = want, \A n \in Node : Holds(n)' = Holds(n)
    PROVE  \A i \in LockId : HoldersOf(i)' = HoldersOf(i)
  BY DEF HoldersOf

\* Who holds a lock has asked for it, so want is what its program uses.
LEMMA HolderUses ==
    ASSUME TypeOK, WantsAreUsed, NEW n \in Node, Holds(n)
    PROVE  want[n] \in Uses[n] /\ want[n][1] \in LockId /\ want[n][2] \in Mode
  BY DEF TypeOK, WantsAreUsed, Holds

LEMMA InitLock == Init => LockInv
  <1> SUFFICES ASSUME Init PROVE LockInv
    OBVIOUS
  <1>1. \A i \in LockId : HoldersOf(i) = {}
    BY DEF Init, HoldersOf, Holds
  <1>2. TypeOK
    BY DEF Init, TypeOK, Phase
  <1> QED
    BY <1>1, <1>2 DEF Init, LockInv, LockHasHolder, TableShowsHolder, Mode,
       SharedIsHeld, MutexUnshared, WantsAreUsed

\* Every step keeps the types.
LEMMA TypeStep == ASSUME TypeOK, [Next]_vars PROVE TypeOK'
  <1> USE DEF TypeOK, Phase
  <1>1. ASSUME NEW n \in Node, NEW w \in LockId \X Mode, Start(n, w) PROVE TypeOK'
    BY <1>1 DEF Start, Enter
  <1>2. ASSUME NEW n \in Node, SendLock(n) PROVE TypeOK'
    BY <1>2 DEF SendLock, Enter
  <1>3. ASSUME NEW n \in Node, Grant(n) PROVE TypeOK'
    BY <1>3 DEF Grant, Enter, LockState
  <1>4. ASSUME NEW n \in Node, Deny(n) PROVE TypeOK'
    BY <1>4 DEF Deny, Enter
  <1>5. ASSUME NEW n \in Node, Unlock(n) PROVE TypeOK'
    BY <1>5 DEF Unlock, Enter, LockState
  <1>6. ASSUME NEW n \in Node, Proceed(n) PROVE TypeOK'
    BY <1>6 DEF Proceed, Enter
  <1>7. ASSUME NEW n \in Node, GiveUp(n) PROVE TypeOK'
    BY <1>7 DEF GiveUp
  <1>8. CASE UNCHANGED vars
    BY <1>8 DEF vars
  <1> QED
    BY <1>1, <1>2, <1>3, <1>4, <1>5, <1>6, <1>7, <1>8 DEF Next

\* The steps that neither grant nor release anything, seen from the table.
Quiet ==
    /\ UNCHANGED <<locks, shared>>
    /\ \A i \in LockId : HoldersOf(i)' = HoldersOf(i)
    /\ \A i \in LockId : \A n \in HoldersOf(i) : want'[n] = want[n]

LEMMA QuietSteps ==
    ASSUME TypeOK, NEW n \in Node,
           \/ \E w \in LockId \X Mode : Start(n, w)
           \/ SendLock(n) \/ Deny(n) \/ Proceed(n) \/ GiveUp(n)
    PROVE  Quiet
  <1>1. CASE \E w \in LockId \X Mode : Start(n, w)
    <2>1. ~ Holds(n) /\ ~ Holds(n)'
      BY <1>1 DEF Start, Enter, Holds, TypeOK
    <2>2. \A m \in Node : m # n => want'[m] = want[m] /\ phase'[m] = phase[m]
      BY <1>1 DEF Start, Enter, TypeOK
    <2>3. \A m \in Node : Holds(m) => Holds(m)' /\ want'[m] = want[m]
      BY <2>1, <2>2 DEF Holds
    <2>4. \A m \in Node : Holds(m)' => Holds(m) /\ want'[m] = want[m]
      BY <2>1, <2>2 DEF Holds
    <2> QED
      BY <1>1, <2>3, <2>4 DEF Quiet, HoldersOf, Start
  <1>2. CASE SendLock(n) \/ Deny(n) \/ Proceed(n) \/ GiveUp(n)
    <2>1. \A m \in Node : Holds(m)' = Holds(m)
      <3>1. CASE SendLock(n)
        BY <3>1 DEF SendLock, Enter, Holds, TypeOK
      <3>2. CASE Deny(n)
        BY <3>2 DEF Deny, Arrives, Enter, Holds, TypeOK
      <3>3. CASE Proceed(n)
        BY <3>3 DEF Proceed, Enter, Holds, TypeOK
      <3>4. CASE GiveUp(n)
        BY <3>4 DEF GiveUp, Holds
      <3> QED
        BY <1>2, <3>1, <3>2, <3>3, <3>4
    <2>2. UNCHANGED <<locks, shared, want>>
      BY <1>2 DEF SendLock, Deny, Proceed, GiveUp
    <2> QED
      BY <2>1, <2>2, HoldersUnchanged DEF Quiet
  <1> QED
    BY <1>1, <1>2

\* What a grant and an unlock do to the sets of holders.
LEMMA GrantHolders ==
    ASSUME TypeOK, WantsAreUsed, NEW n \in Node, Grant(n)
    PROVE  /\ want[n][1] \in LockId /\ want[n][2] \in Mode
           /\ n \notin HoldersOf(want[n][1])
           /\ \A i \in LockId : HoldersOf(i)' =
                  IF i = want[n][1] THEN HoldersOf(i) \cup {n} ELSE HoldersOf(i)
  <1>1. ~ Holds(n) /\ phase[n] # "idle"
    BY DEF Grant, Arrives, Holds
  <1>2. Holds(n)' /\ \A m \in Node \ {n} : Holds(m)' = Holds(m)
    BY DEF Grant, Enter, Holds, TypeOK
  <1>3. want[n] \in LockId \X Mode
    BY DEF TypeOK
  <1> QED
    BY <1>1, <1>2, <1>3 DEF HoldersOf, Grant

LEMMA UnlockHolders ==
    ASSUME TypeOK, NEW n \in Node, Unlock(n)
    PROVE  /\ want[n][1] \in LockId /\ want[n][2] \in Mode
           /\ n \in HoldersOf(want[n][1])
           /\ \A i \in LockId : HoldersOf(i)' =
                  IF i = want[n][1] THEN HoldersOf(i) \ {n} ELSE HoldersOf(i)
  <1>1. Holds(n)
    BY DEF Unlock, Arrives, Holds
  <1>2. ~ Holds(n)' /\ \A m \in Node \ {n} : Holds(m)' = Holds(m)
    BY DEF Unlock, Enter, Holds, TypeOK
  <1>3. want[n] \in LockId \X Mode
    BY DEF TypeOK
  <1> QED
    BY <1>1, <1>2, <1>3 DEF HoldersOf, Unlock

\* A lock not shared that is asked for and granted was free: the table shows
\* its holder, and grants nothing but a second reader beside a holder.
LEMMA GrantedAlone ==
    ASSUME LockInv, NEW n \in Node, Grant(n),
           want[n][1] \notin shared, HoldersOf(want[n][1]) # {}
    PROVE  /\ want[n][2] = "SHAREDLOCK"
           /\ \A m \in HoldersOf(want[n][1]) : want[m][2] = "SHAREDLOCK"
  <1> DEFINE i == want[n][1]
  <1>1. i \in LockId /\ want[n][2] \in Mode
    BY DEF LockInv, TypeOK
  <1>2. PICK h \in HoldersOf(i) : TRUE
    OBVIOUS
  <1>3. /\ locks[i] = want[h][2]
        /\ \A m \in HoldersOf(i) : locks[i] = want[m][2]
    BY <1>1, <1>2 DEF LockInv, TableShowsHolder
  <1>4. want[h][2] \in Mode
    BY <1>2 DEF LockInv, TypeOK, HoldersOf
  <1>5. Grants(i, want[n][2])
    BY DEF Grant
  <1> QED
    BY <1>1, <1>3, <1>4, <1>5 DEF Grants, Mode

LEMMA LockStep == ASSUME LockInv, [Next]_vars PROVE LockInv'
  <1> USE DEF LockInv
  <1>0. TypeOK'
    BY TypeStep
  <1>w. WantsAreUsed'
    <2>1. ASSUME NEW n \in Node, NEW w \in LockId \X Mode, Start(n, w)
          PROVE  WantsAreUsed'
      BY <2>1 DEF Start, Enter, WantsAreUsed, TypeOK
    <2>2. ASSUME NEW n \in Node, ~ \E w \in LockId \X Mode : Start(n, w),
                 \/ SendLock(n) \/ Grant(n) \/ Deny(n) \/ Unlock(n)
                 \/ Proceed(n) \/ GiveUp(n)
          PROVE  WantsAreUsed'
      BY <2>2 DEF SendLock, Grant, Deny, Unlock, Proceed, GiveUp, Arrives,
         Enter, WantsAreUsed, TypeOK
    <2>3. CASE UNCHANGED vars
      BY <2>3 DEF vars, WantsAreUsed
    <2> QED
      BY <2>1, <2>2, <2>3 DEF Next
  <1>1. ASSUME Quiet PROVE LockInv'
    <2>1. LockHasHolder'
      BY <1>1 DEF Quiet, LockHasHolder
    <2>2. TableShowsHolder'
      BY <1>1 DEF Quiet, TableShowsHolder
    <2>3. SharedIsHeld' /\ MutexUnshared'
      BY <1>1 DEF Quiet, SharedIsHeld, MutexUnshared, TypeOK
    <2> QED
      BY <2>1, <2>2, <2>3, <1>0, <1>w
  <1>2. ASSUME NEW n \in Node, Grant(n) PROVE LockInv'
    <2> DEFINE i == want[n][1]
    <2>1. /\ i \in LockId /\ want[n][2] \in Mode /\ n \notin HoldersOf(i)
          /\ \A j \in LockId : HoldersOf(j)' =
                 IF j = i THEN HoldersOf(j) \cup {n} ELSE HoldersOf(j)
      BY <1>2, GrantHolders
    <2>2. /\ want' = want /\ locks' = [locks EXCEPT ![i] = want[n][2]]
          /\ shared' = IF HoldersOf(i) = {} THEN shared ELSE shared \cup {i}
      BY <1>2 DEF Grant
    <2>3. LockHasHolder'
      BY <2>1, <2>2 DEF LockHasHolder, TypeOK
    <2>4. TableShowsHolder'
      <3> SUFFICES ASSUME NEW j \in LockId, j \notin shared', NEW k \in HoldersOf(j)'
                   PROVE  locks'[j] = want'[k][2] /\ HoldersOf(j)' = {k}
        BY DEF TableShowsHolder
      <3>1. CASE j = i
        <4>1. HoldersOf(i) = {}
          BY <2>2, <3>1
        <4>2. HoldersOf(j)' = {n} /\ k = n
          BY <2>1, <3>1, <4>1
        <4> QED
          BY <2>1, <2>2, <3>1, <4>2 DEF TypeOK
      <3>2. CASE j # i
        <4>1. j \notin shared /\ HoldersOf(j)' = HoldersOf(j)
          BY <2>1, <2>2, <3>2
        <4>2. locks[j] = want[k][2] /\ HoldersOf(j) = {k}
          BY <4>1 DEF TableShowsHolder
        <4> QED
          BY <2>2, <3>2, <4>1, <4>2 DEF TypeOK
      <3> QED
        BY <3>1, <3>2
    <2>5. SharedIsHeld'
      BY <2>1, <2>2 DEF SharedIsHeld, TypeOK, Mode
    <2>6. MutexUnshared'
      <3>1. want[n] \in Uses[n]
        BY <1>2 DEF Grant, Arrives, WantsAreUsed
      <3>2. ASSUME i \in Mutex PROVE want[n][2] # "SHAREDLOCK"
        <4>1. want[n] = <<i, want[n][2]>>
          BY DEF TypeOK
        <4> QED
          BY <3>1, <3>2, <4>1, LockAssumption
      <3>3. i \in Mutex => HoldersOf(i) = {}
        BY <3>2, <1>2, GrantedAlone DEF MutexUnshared
      <3> QED
        BY <2>2, <3>3 DEF MutexUnshared
    <2> QED
      BY <2>3, <2>4, <2>5, <2>6, <1>0, <1>w
  <1>3. ASSUME NEW n \in Node, Unlock(n) PROVE LockInv'
    <2> DEFINE i == want[n][1]
    <2>1. /\ i \in LockId /\ want[n][2] \in Mode /\ n \in HoldersOf(i)
          /\ \A j \in LockId : HoldersOf(j)' =
                 IF j = i THEN HoldersOf(j) \ {n} ELSE HoldersOf(j)
      BY <1>3, UnlockHolders
    <2>2. /\ want' = want /\ locks' = [locks EXCEPT ![i] = "UNLOCKED"]
          /\ shared' = IF HoldersOf(i) = {n} THEN shared \ {i} ELSE shared
      BY <1>3 DEF Unlock
    <2>3. LockHasHolder'
      BY <2>1, <2>2 DEF LockHasHolder, TypeOK, Mode
    <2>4. TableShowsHolder'
      <3> SUFFICES ASSUME NEW j \in LockId, j \notin shared', NEW k \in HoldersOf(j)'
                   PROVE  locks'[j] = want'[k][2] /\ HoldersOf(j)' = {k}
        BY DEF TableShowsHolder
      <3>1. CASE j = i
        <4>1. CASE HoldersOf(i) = {n}
          BY <2>1, <3>1, <4>1
        <4>2. CASE HoldersOf(i) # {n}
          <5>1. i \notin shared
            BY <2>2, <3>1, <4>2
          <5> QED
            BY <2>1, <4>2, <5>1 DEF TableShowsHolder
        <4> QED
          BY <4>1, <4>2
      <3>2. CASE j # i
        <4>1. j \notin shared /\ HoldersOf(j)' = HoldersOf(j)
          BY <2>1, <2>2, <3>2
        <4>2. locks[j] = want[k][2] /\ HoldersOf(j) = {k}
          BY <4>1 DEF TableShowsHolder
        <4> QED
          BY <2>2, <3>2, <4>1, <4>2 DEF TypeOK
      <3> QED
        BY <3>1, <3>2
    <2>5. SharedIsHeld'
      BY <2>1, <2>2 DEF SharedIsHeld, TypeOK
    <2>6. MutexUnshared'
      BY <2>2 DEF MutexUnshared
    <2> QED
      BY <2>3, <2>4, <2>5, <2>6, <1>0, <1>w
  <1>4. CASE UNCHANGED vars
    BY <1>4, <1>1 DEF vars, Quiet, HoldersOf, Holds
  <1>5. ASSUME NEW n \in Node,
               \/ \E w \in LockId \X Mode : Start(n, w)
               \/ SendLock(n) \/ Deny(n) \/ Proceed(n) \/ GiveUp(n)
        PROVE  LockInv'
    BY <1>1, <1>5, QuietSteps
  <1> QED
    BY <1>2, <1>3, <1>4, <1>5 DEF Next

\* A lock that is taken has a holder in that mode, one that was not shared since
\* it was free shows its one holder, a shared one is held, and one without readers
\* is never shared (setLock, api.cpp:110-140).
THEOREM LockInvariant == Spec => []LockInv
  <1>1. LockInv /\ [Next]_vars => LockInv'
    BY LockStep
  <1> QED
    BY InitLock, <1>1, PTL DEF Spec

\* A taken lock has a holder who has not released it yet.
THEOREM LocksHaveHolders == Spec => []LockHasHolder
  BY LockInvariant, PTL DEF LockInv

\* Two writers never hold a lock together that no reader uses.
THEOREM WritersAlwaysExclude == Spec => []WritersExclude
  <1>1. LockInv => WritersExclude
    BY LockAssumption DEF LockInv, MutexUnshared, TableShowsHolder, WritersExclude
  <1> QED
    BY LockInvariant, <1>1, PTL

\* A refusal means that another node holds the lock.
THEOREM RefusalsJustified == Spec => DenialJustified
  <1>1. LockInv /\ [Next]_vars => [DenialStep]_vars
    <2> SUFFICES ASSUME LockInv, Next, NEW n \in Node,
                        phase[n] # "denied", phase'[n] = "denied"
                 PROVE  \E m \in HoldersOf(want[n][1]) : m # n
      BY DEF vars, DenialStep
    <2> USE DEF LockInv
    <2>1. Deny(n)
      BY DEF Next, Start, SendLock, Grant, Deny, Unlock, Proceed, GiveUp,
         Enter, TypeOK
    <2>2. want[n][1] \in LockId /\ want[n][2] \in Mode
      BY DEF TypeOK
    <2>3. locks[want[n][1]] \in Mode
      BY <2>1, <2>2 DEF Deny, Grants, Mode, TypeOK, LockState
    <2>4. ~ Holds(n)
      BY <2>1 DEF Deny, Arrives, Holds
    <2>5. HoldersOf(want[n][1]) # {}
      BY <2>2, <2>3 DEF LockHasHolder
    <2> QED
      BY <2>4, <2>5 DEF HoldersOf
  <1> QED
    BY LockInvariant, <1>1, PTL DEF Spec, DenialJustified

\* The holders in the abstract lock are the holders in the table.
LEMMA HoldersAgree ==
    ASSUME TypeOK PROVE \A i \in LockId : Fragile!Holders(i) = HoldersOf(i)
  <1>1. \A i \in LockId, n \in Node : n \in HoldersOf(i) => want[n][2] # "none"
    BY DEF TypeOK, Mode
  <1> QED
    BY <1>1 DEF Fragile!Holders, HoldsMap, HoldersOf

LEMMA GrantAcquires ==
    ASSUME LockInv, NEW n \in Node, Grant(n)
    PROVE  Fragile!Acquire(n, want[n][1], want[n][2])
  <1> USE DEF LockInv
  <1> PICK i \in LockId : i = want[n][1]
    BY DEF TypeOK
  <1>1. /\ want[n][2] \in Mode /\ n \notin HoldersOf(i)
        /\ \A j \in LockId : HoldersOf(j)' =
               IF j = i THEN HoldersOf(j) \cup {n} ELSE HoldersOf(j)
    BY GrantHolders
  <1>2. want' = want /\ shared' = IF HoldersOf(i) = {} THEN shared ELSE shared \cup {i}
    BY DEF Grant
  <1>3. HoldsMap[i][n] = "none"
    BY <1>1 DEF HoldsMap
  <1>4. i \in shared \/ Fragile!Compatible(i, want[n][2])
    <2> SUFFICES ASSUME i \notin shared, NEW m \in HoldersOf(i)
                 PROVE  want[n][2] = "SHAREDLOCK" /\ HoldsMap[i][m] = "SHAREDLOCK"
      BY HoldersAgree DEF Fragile!Compatible
    <2> QED
      BY GrantedAlone DEF HoldsMap, HoldersOf
  <1>5. HoldsMap' = [HoldsMap EXCEPT ![i][n] = want[n][2]]
    BY <1>1, <1>2 DEF HoldsMap
  <1>6. shared' = IF Fragile!Holders(i) = {} THEN shared ELSE shared \cup {i}
    BY <1>2, HoldersAgree
  <1> QED
    BY <1>3, <1>4, <1>5, <1>6 DEF Fragile!Acquire

LEMMA UnlockReleases ==
    ASSUME LockInv, NEW n \in Node, Unlock(n)
    PROVE  Fragile!Release(n, want[n][1])
  <1> USE DEF LockInv
  <1> PICK i \in LockId : i = want[n][1]
    BY DEF TypeOK
  <1>1. /\ want[n][2] \in Mode /\ n \in HoldersOf(i)
        /\ \A j \in LockId : HoldersOf(j)' =
               IF j = i THEN HoldersOf(j) \ {n} ELSE HoldersOf(j)
    BY UnlockHolders
  <1>2. want' = want /\ shared' = IF HoldersOf(i) = {n} THEN shared \ {i} ELSE shared
    BY DEF Unlock
  <1>3. HoldsMap[i][n] # "none"
    BY <1>1 DEF HoldsMap, Mode
  <1>4. HoldsMap' = [HoldsMap EXCEPT ![i][n] = "none"]
    BY <1>1, <1>2 DEF HoldsMap
  <1>5. shared' = IF Fragile!Holders(i) = {n} THEN shared \ {i} ELSE shared
    BY <1>2, HoldersAgree
  <1> QED
    BY <1>3, <1>4, <1>5 DEF Fragile!Release

\* The lock table is a reader-writer lock until two readers share it.
THEOREM TableIsFragileLock == Spec => ImplementsFragileLock
  <1>1. Init => Fragile!FragileInit
    <2> SUFFICES ASSUME Init PROVE Fragile!FragileInit
      OBVIOUS
    <2>1. \A i \in LockId : HoldersOf(i) = {}
      BY DEF Init, HoldersOf, Holds
    <2> QED
      BY <2>1 DEF Init, Fragile!FragileInit, HoldsMap
  <1>2. LockInv /\ [Next]_vars => [Fragile!FragileNext]_Fragile!fragileVars
    <2> SUFFICES ASSUME LockInv, [Next]_vars
                 PROVE  [Fragile!FragileNext]_Fragile!fragileVars
      OBVIOUS
    <2>q. ASSUME Quiet PROVE UNCHANGED Fragile!fragileVars
      BY <2>q DEF Quiet, HoldsMap, Fragile!fragileVars
    <2>1. ASSUME NEW n \in Node, Grant(n) PROVE Fragile!FragileNext
      <3>1. want[n][1] \in LockId /\ want[n][2] \in Mode
        BY DEF LockInv, TypeOK
      <3> QED
        BY <2>1, <3>1, GrantAcquires DEF Fragile!FragileNext
    <2>2. ASSUME NEW n \in Node, Unlock(n) PROVE Fragile!FragileNext
      <3>1. want[n][1] \in LockId
        BY DEF LockInv, TypeOK
      <3> QED
        BY <2>2, <3>1, UnlockReleases DEF Fragile!FragileNext
    <2>3. CASE UNCHANGED vars
      BY <2>3, <2>q DEF vars, Quiet, HoldersOf, Holds
    <2>4. ASSUME NEW n \in Node,
                 \/ \E w \in LockId \X Mode : Start(n, w)
                 \/ SendLock(n) \/ Deny(n) \/ Proceed(n) \/ GiveUp(n)
          PROVE  UNCHANGED Fragile!fragileVars
      BY <2>4, <2>q, QuietSteps DEF LockInv
    <2> QED
      BY <2>1, <2>2, <2>3, <2>4 DEF Next
  <1> QED
    BY <1>1, <1>2, LockInvariant, PTL
       DEF Spec, ImplementsFragileLock, Fragile!FragileSpec

=============================================================================
