------------------------ MODULE PthreadObjectsProofs ------------------------
(***************************************************************************)
(* Proofs about the reader/writer lock, the barrier, the native threads    *)
(* and the semaphore of PthreadObjects, for any finite set of threads and  *)
(* any bounds.  A step of one object leaves the variables of the others    *)
(* alone, so that each invariant is kept by the steps of its own object    *)
(* and by UNCHANGED.                                                       *)
(***************************************************************************)
EXTENDS PthreadObjects, FiniteSetTheorems, TLAPS

(* A step of the composition is a step of one object or of none.           *)
LEMMA OneObjectMoves ==
  ASSUME [ObjectsNext]_objectVars
  PROVE  /\ Rwlock!Next \/ UNCHANGED rwlockVars
         /\ Barrier!Next \/ UNCHANGED barrierVars
         /\ Native!Next \/ UNCHANGED nativeVars
BY DEF ObjectsNext, SemaphoreNext, RwlockNext, BarrierNext, NativeNext,
   NativeEnds, objectVars, rwlockVars, barrierVars, nativeVars

(* The instances count as FiniteSets does.                                 *)
LEMMA SameCardinality ==
  \A S : Rwlock!Cardinality(S) = Cardinality(S) /\ Barrier!Cardinality(S) = Cardinality(S)
BY DEF Cardinality, Rwlock!Cardinality, Barrier!Cardinality

-----------------------------------------------------------------------------
(* Reader/writer lock                                                      *)

RdSteps == {"rdLoad", "rdCas", "rdWait", "rdAsleep"}

(* The types of the variables.                                             *)
RwlockTypeOK ==
  /\ word \in Int
  /\ rwPc \in [Threads -> Rwlock!Steps]
  /\ rwOp \in [Threads -> Rwlock!Ops \union {"none"}]
  /\ seen \in [Threads -> Int]
  /\ hold \in [Threads -> -1 .. MaxReads]

(* What a thread that is about to change the word knows of its own locks.  *)
CallWell(t) ==
  /\ rwPc[t] \in RdSteps => hold[t] < MaxReads
  /\ rwPc[t] = "rdCas" => seen[t] >= 0
  /\ rwPc[t] \in {"rdWait", "rdAsleep"} => seen[t] = -1
  /\ rwPc[t] = "unLoad" => hold[t] # 0
  /\ rwPc[t] = "unStore" => hold[t] = -1
  /\ rwPc[t] = "unSub" => hold[t] > 0

(* The inductive invariant of the lock.                                    *)
RwlockInv ==
  /\ RwlockTypeOK
  /\ \A t \in Threads : CallWell(t)
  /\ Rwlock!WordMatchesHolders
  /\ Rwlock!ReadersNotStranded
  /\ Rwlock!WritersNotStranded

(* The read locks are a finite set; there is none exactly when nobody has  *)
(* one.                                                                    *)
LEMMA ReadLocksFinite ==
  ASSUME RwlockTypeOK
  PROVE  /\ IsFiniteSet(Rwlock!ReadLocks)
         /\ Cardinality(Rwlock!ReadLocks) \in Nat
         /\ Cardinality(Rwlock!ReadLocks) = 0 <=> \A t \in Threads : hold[t] <= 0
<1>1. IsFiniteSet(1 .. MaxReads) /\ IsFiniteSet(Threads)
  BY FS_Interval, ObjectsAssumption, SemaphoreAssumption
<1>2. IsFiniteSet(Threads \X (1 .. MaxReads))
  BY <1>1, FS_Product
<1>3. IsFiniteSet(Rwlock!ReadLocks)
  <2>1. Rwlock!ReadLocks \subseteq Threads \X (1 .. MaxReads)
    BY DEF Rwlock!ReadLocks
  <2> QED
    BY <1>2, <2>1, FS_Subset
<1>4. Cardinality(Rwlock!ReadLocks) \in Nat
  BY <1>3, FS_CardinalityType
<1>5. Cardinality(Rwlock!ReadLocks) = 0 <=> Rwlock!ReadLocks = {}
  BY <1>3, FS_EmptySet
<1>6. Rwlock!ReadLocks = {} <=> \A t \in Threads : hold[t] <= 0
  <2>1. ASSUME NEW t \in Threads, hold[t] > 0
        PROVE  <<t, 1>> \in Rwlock!ReadLocks
    <3>1. hold[t] \in Int /\ hold[t] <= MaxReads
      BY DEF RwlockTypeOK
    <3>2. 1 \in 1 .. MaxReads /\ 1 <= hold[t]
      BY <2>1, <3>1, ObjectsAssumption
    <3> QED
      BY <3>2 DEF Rwlock!ReadLocks
  <2>2. ASSUME NEW r \in Rwlock!ReadLocks
        PROVE  r[1] \in Threads /\ hold[r[1]] > 0
    BY ObjectsAssumption DEF Rwlock!ReadLocks, RwlockTypeOK
  <2>3. \A t \in Threads : hold[t] \in Int
    BY DEF RwlockTypeOK
  <2>4. \A t \in Threads : ~ (hold[t] > 0) => hold[t] <= 0
    BY <2>3
  <2>5. \A t \in Threads : hold[t] > 0 => ~ (hold[t] <= 0)
    BY <2>3
  <2> HIDE DEF Rwlock!ReadLocks
  <2> QED
    BY <2>1, <2>2, <2>4, <2>5
<1> QED
  BY <1>3, <1>4, <1>5, <1>6

(* Taking one read lock more adds one to their number.                     *)
LEMMA ReadLockTaken ==
  ASSUME RwlockTypeOK, NEW t \in Threads, hold[t] \in 0 .. MaxReads - 1,
         hold' = [hold EXCEPT ![t] = @ + 1]
  PROVE  Cardinality(Rwlock!ReadLocks') = Cardinality(Rwlock!ReadLocks) + 1
<1> DEFINE new == <<t, hold[t] + 1>>
<1>1. hold \in [Threads -> -1 .. MaxReads]
  BY DEF RwlockTypeOK
<1>2. Rwlock!ReadLocks' = Rwlock!ReadLocks \union {new}
  BY <1>1, ObjectsAssumption DEF Rwlock!ReadLocks
<1>3. new \notin Rwlock!ReadLocks
  BY <1>1 DEF Rwlock!ReadLocks
<1> HIDE DEF new
<1> QED
  BY <1>2, <1>3, ReadLocksFinite, FS_AddElement

(* Giving one back takes one away.                                         *)
LEMMA ReadLockGiven ==
  ASSUME RwlockTypeOK, NEW t \in Threads, hold[t] > 0,
         hold' = [hold EXCEPT ![t] = @ - 1]
  PROVE  Cardinality(Rwlock!ReadLocks') = Cardinality(Rwlock!ReadLocks) - 1
<1> DEFINE old == <<t, hold[t]>>
<1>1. hold \in [Threads -> -1 .. MaxReads]
  BY DEF RwlockTypeOK
<1>2. Rwlock!ReadLocks' = Rwlock!ReadLocks \ {old}
  BY <1>1, ObjectsAssumption DEF Rwlock!ReadLocks
<1>3. old \in Rwlock!ReadLocks
  BY <1>1, ObjectsAssumption DEF Rwlock!ReadLocks
<1> HIDE DEF old
<1> QED
  BY <1>2, <1>3, ReadLocksFinite, FS_RemoveElement

(* The invariant holds of a fresh lock.                                    *)
LEMMA RwlockInitInv == ObjectsInit => RwlockInv
<1> SUFFICES ASSUME Rwlock!Init PROVE RwlockInv
  BY DEF ObjectsInit
<1>1. RwlockTypeOK /\ \A t \in Threads : CallWell(t)
  BY ObjectsAssumption DEF Rwlock!Init, RwlockTypeOK, CallWell, Rwlock!Steps,
     RdSteps
<1>2. \A t \in Threads : hold[t] = 0
  BY DEF Rwlock!Init
<1>3. Cardinality(Rwlock!ReadLocks) = 0
  BY <1>1, <1>2, ReadLocksFinite
<1>4. Rwlock!WordMatchesHolders
  BY <1>2, <1>3, SameCardinality DEF Rwlock!Init, Rwlock!WordMatchesHolders
<1>5. Rwlock!ReadersNotStranded /\ Rwlock!WritersNotStranded
  BY DEF Rwlock!Init, Rwlock!ReadersNotStranded, Rwlock!WritersNotStranded
<1> QED
  BY <1>1, <1>4, <1>5 DEF RwlockInv

(* The steps that change neither the word nor who holds the lock.          *)
LEMMA RwlockWalks ==
  ASSUME RwlockInv, NEW t \in Threads, UNCHANGED <<word, hold>>,
         (\E o \in Rwlock!Ops : Rwlock!Call(t, o)) \/ Rwlock!SpuriousReturn(t) \/ Rwlock!Run(t)
  PROVE  RwlockInv'
<1> DEFINE Moves == Rwlock!SpuriousReturn(t) \/ Rwlock!ReadStep(t) \/ Rwlock!WriteStep(t)
                      \/ Rwlock!UnlockLoad(t)
<1> USE DEF Rwlock!Goto, Rwlock!Return, Rwlock!Load
<1>0. RwlockTypeOK /\ \A s \in Threads : CallWell(s)
  BY DEF RwlockInv
<1>1. ~ Rwlock!WriterLeaves(t) /\ ~ Rwlock!ReaderLeaves(t)
  BY <1>0 DEF Rwlock!WriterLeaves, Rwlock!ReaderLeaves, RwlockTypeOK, CallWell
<1>2. Rwlock!WordMatchesHolders'
  BY DEF RwlockInv, Rwlock!WordMatchesHolders, Rwlock!ReadLocks
<1>3. CASE \E o \in Rwlock!Ops : Rwlock!Call(t, o)
  <2> PICK o \in Rwlock!Ops : Rwlock!Call(t, o)
    BY <1>3
  <2>1. /\ rwPc[t] = "idle" /\ seen' = seen
        /\ rwPc' = [rwPc EXCEPT ![t] = rwPc'[t]]
        /\ rwOp' = [rwOp EXCEPT ![t] = o]
        /\ rwPc'[t] \in {"rdLoad", "wrCas", "unLoad"}
        /\ rwPc'[t] = "rdLoad" => hold[t] < MaxReads
        /\ rwPc'[t] = "unLoad" => hold[t] # 0
    <3>1. \/ o \in {"rdlock", "tryrdlock"} /\ rwPc' = [rwPc EXCEPT ![t] = "rdLoad"]
          \/ o \in {"wrlock", "trywrlock"} /\ rwPc' = [rwPc EXCEPT ![t] = "wrCas"]
          \/ o = "unlock" /\ rwPc' = [rwPc EXCEPT ![t] = "unLoad"]
      BY DEF Rwlock!Call, Rwlock!Ops
    <3>2. /\ o = "rdlock" => hold[t] \in 0 .. MaxReads - 1
          /\ o = "tryrdlock" => hold[t] < MaxReads
          /\ o = "unlock" => hold[t] # 0
      BY DEF Rwlock!Call
    <3>3. rwPc[t] = "idle" /\ seen' = seen /\ rwOp' = [rwOp EXCEPT ![t] = o]
      BY DEF Rwlock!Call
    <3>4. hold[t] \in Int /\ rwPc \in [Threads -> Rwlock!Steps]
      BY <1>0 DEF RwlockTypeOK
    <3>5. rwPc'[t] \in {"rdLoad", "wrCas", "unLoad"} /\ rwPc' = [rwPc EXCEPT ![t] = rwPc'[t]]
      BY <3>1, <3>4
    <3> QED
      BY <3>1, <3>2, <3>3, <3>4, <3>5, ObjectsAssumption
  <2>2. RwlockTypeOK'
    BY <1>0, <2>1 DEF RwlockTypeOK, Rwlock!Steps
  <2>3. ASSUME NEW s \in Threads PROVE CallWell(s)'
    BY <1>0, <2>1 DEF RwlockTypeOK, CallWell, RdSteps
  <2>4. Rwlock!ReadersNotStranded' /\ Rwlock!WritersNotStranded'
    BY <1>0, <2>1 DEF RwlockInv, RwlockTypeOK, Rwlock!ReadersNotStranded,
       Rwlock!WritersNotStranded, Rwlock!WakePending
  <2> QED
    BY <1>2, <2>2, <2>3, <2>4 DEF RwlockInv
<1>4. CASE Moves
  <2> USE DEF Rwlock!ReadStep, Rwlock!WriteStep, Rwlock!SpuriousReturn, Rwlock!ReadLoad,
        Rwlock!ReadExchange, Rwlock!ReadWait, Rwlock!WriteExchange, Rwlock!WriteLoad,
        Rwlock!WriteWait, Rwlock!UnlockLoad, Rwlock!Resume, Rwlock!Asleep,
        Rwlock!WaitSleeps, Rwlock!WriterState
  <2>1. RwlockTypeOK'
    BY <1>0, <1>4 DEF RwlockTypeOK, Rwlock!Steps, Rwlock!Ops
  <2>2. /\ rwPc[t] # "wakeAll"
        /\ rwPc' = [rwPc EXCEPT ![t] = rwPc'[t]]
        /\ seen' = [seen EXCEPT ![t] = seen'[t]]
        /\ rwPc'[t] = "rdAsleep" => seen[t] = word /\ seen[t] = -1 /\ seen'[t] = -1
        /\ rwPc'[t] = "wrAsleep" => seen[t] = word /\ seen'[t] = seen[t]
    BY <1>0, <1>4 DEF RwlockTypeOK, CallWell
  <2>3. ASSUME NEW s \in Threads PROVE CallWell(s)'
    <3>1. CASE s = t
      <4>1. CASE Rwlock!UnlockLoad(t)
        <5>1. hold[t] # 0 /\ hold[t] \in Int
          BY <1>0, <4>1 DEF CallWell, RwlockTypeOK
        <5>2. word = -1 => hold[t] = -1
          <6>1. Cardinality(Rwlock!ReadLocks) # -1
            BY <1>0, ReadLocksFinite
          <6> QED
            BY <5>1, <6>1, SameCardinality DEF RwlockInv,
               Rwlock!WordMatchesHolders
        <5>3. word > 0 => hold[t] > 0
          BY <5>1 DEF RwlockInv, Rwlock!WordMatchesHolders
        <5> QED
          BY <1>0, <3>1, <4>1, <5>1, <5>2, <5>3 DEF RwlockTypeOK, CallWell,
             RdSteps
      <4>2. CASE Moves /\ ~ Rwlock!UnlockLoad(t)
        <5>1. word < 0 => word = -1
          BY <1>0, ReadLocksFinite, SameCardinality DEF RwlockInv,
             Rwlock!WordMatchesHolders
        <5> QED
          BY <1>0, <3>1, <4>2, <5>1 DEF RwlockTypeOK, CallWell, RdSteps
      <4> QED
        BY <1>4, <4>1, <4>2
    <3>2. CASE s # t
      BY <1>0, <2>2, <3>2 DEF RwlockTypeOK, CallWell
    <3> QED
      BY <3>1, <3>2
  <2>4. Rwlock!ReadersNotStranded' /\ Rwlock!WritersNotStranded'
    <3>1. Rwlock!WakePending => Rwlock!WakePending'
      BY <1>0, <2>2 DEF RwlockTypeOK, Rwlock!WakePending
    <3>2. \A s \in Threads \ {t} : rwPc'[s] = rwPc[s] /\ seen'[s] = seen[s]
      BY <1>0, <2>2 DEF RwlockTypeOK
    <3>3. Rwlock!ReadersNotStranded'
      BY <1>0, <2>2, <3>1, <3>2 DEF RwlockInv, Rwlock!ReadersNotStranded
    <3>4. Rwlock!WritersNotStranded'
      BY <1>0, <2>2, <3>1, <3>2 DEF RwlockInv, Rwlock!WritersNotStranded
    <3> QED
      BY <3>3, <3>4
  <2> QED
    BY <1>2, <2>1, <2>3, <2>4 DEF RwlockInv
<1>5. CASE Rwlock!UnlockWake(t)
  <2>1. /\ rwPc' = [s \in Threads |-> IF s = t THEN "idle"
                                      ELSE IF s \in Rwlock!Asleep THEN Rwlock!Resume(s)
                                      ELSE rwPc[s]]
        /\ rwOp' = [rwOp EXCEPT ![t] = "none"] /\ seen' = seen
        /\ rwPc[t] = "wakeAll"
    BY <1>5 DEF Rwlock!UnlockWake, Rwlock!WakeAll
  <2>2. RwlockTypeOK'
    BY <1>0, <2>1 DEF RwlockTypeOK, Rwlock!Steps, Rwlock!Resume
  <2>3. \A s \in Threads : CallWell(s)'
    BY <1>0, <2>1 DEF RwlockTypeOK, CallWell, RdSteps, Rwlock!Asleep,
       Rwlock!Resume
  <2>4. Rwlock!ReadersNotStranded' /\ Rwlock!WritersNotStranded'
    BY <2>1 DEF Rwlock!ReadersNotStranded, Rwlock!WritersNotStranded,
       Rwlock!Asleep, Rwlock!Resume
  <2> QED
    BY <1>2, <2>2, <2>3, <2>4 DEF RwlockInv
<1> QED
  BY <1>1, <1>3, <1>4, <1>5 DEF Rwlock!Run, Rwlock!UnlockStep

(* The steps that change them.                                             *)
RwlockActs(t) == \/ Rwlock!ReadExchange(t) \/ Rwlock!WriteExchange(t)
                 \/ Rwlock!WriterLeaves(t) \/ Rwlock!ReaderLeaves(t)

(* What each of them does to the word and to its thread's hold: the same   *)
(* to both.                                                                *)
LEMMA RwlockEffect ==
  ASSUME RwlockInv, NEW t \in Threads, RwlockActs(t), ~ UNCHANGED <<word, hold>>
  PROVE  \/ /\ Rwlock!ReadExchange(t) /\ word >= 0 /\ word' = word + 1
            /\ hold[t] \in 0 .. MaxReads - 1 /\ hold' = [hold EXCEPT ![t] = @ + 1]
            /\ \A s \in Threads : hold[s] >= 0
         \/ /\ Rwlock!WriteExchange(t) /\ word' = -1 /\ hold' = [hold EXCEPT ![t] = -1]
            /\ \A s \in Threads : hold[s] = 0
         \/ /\ Rwlock!WriterLeaves(t) /\ word = -1 /\ word' = 0 /\ hold[t] = -1
            /\ hold' = [hold EXCEPT ![t] = 0] /\ \A s \in Threads \ {t} : hold[s] = 0
         \/ /\ Rwlock!ReaderLeaves(t) /\ word > 0 /\ word' = word - 1 /\ hold[t] > 0
            /\ hold' = [hold EXCEPT ![t] = @ - 1] /\ \A s \in Threads : hold[s] >= 0
<1>0. RwlockTypeOK /\ CallWell(t) /\ Rwlock!WordMatchesHolders
  BY DEF RwlockInv
<1>1. hold \in [Threads -> -1 .. MaxReads] /\ hold[t] \in -1 .. MaxReads
  BY <1>0 DEF RwlockTypeOK
<1>2. CASE Rwlock!ReadExchange(t)
  <2>1. /\ word >= 0 /\ word' = word + 1 /\ hold[t] < MaxReads
        /\ hold' = [hold EXCEPT ![t] = @ + 1]
    BY <1>0, <1>2 DEF Rwlock!ReadExchange, CallWell, RdSteps
  <2>2. \A s \in Threads : hold[s] >= 0
    BY <1>0, <2>1 DEF Rwlock!WordMatchesHolders, Rwlock!WriterState
  <2> QED
    BY <1>1, <1>2, <2>1, <2>2, ObjectsAssumption
<1>3. CASE Rwlock!WriteExchange(t)
  <2>1. word = 0 /\ word' = -1 /\ hold' = [hold EXCEPT ![t] = -1]
    BY <1>3 DEF Rwlock!WriteExchange, Rwlock!WriterState
  <2>2. \A s \in Threads : hold[s] >= 0 /\ hold[s] <= 0
    BY <1>0, <2>1, ReadLocksFinite, SameCardinality DEF
       Rwlock!WordMatchesHolders, Rwlock!WriterState
  <2> QED
    BY <1>1, <1>3, <2>1, <2>2
<1>4. CASE Rwlock!WriterLeaves(t)
  <2>1. hold[t] = -1 /\ word' = 0 /\ hold' = [hold EXCEPT ![t] = 0]
    BY <1>0, <1>4 DEF Rwlock!WriterLeaves, CallWell
  <2>2. word = -1 /\ \A s \in Threads \ {t} : hold[s] = 0
    BY <1>0, <2>1 DEF Rwlock!WordMatchesHolders, Rwlock!WriterState
  <2> QED
    BY <1>4, <2>1, <2>2
<1>5. CASE Rwlock!ReaderLeaves(t)
  <2>1. hold[t] > 0 /\ word' = word - 1 /\ hold' = [hold EXCEPT ![t] = @ - 1]
    BY <1>0, <1>5 DEF Rwlock!ReaderLeaves, CallWell
  <2>2. (\A s \in Threads : hold[s] >= 0) /\ word = Cardinality(Rwlock!ReadLocks)
    BY <1>0, <2>1, SameCardinality DEF Rwlock!WordMatchesHolders,
       Rwlock!WriterState
  <2>3. word > 0
    BY <1>0, <1>1, <2>1, <2>2, ReadLocksFinite
  <2> QED
    BY <1>5, <2>1, <2>2, <2>3
<1> QED
  BY <1>2, <1>3, <1>4, <1>5 DEF RwlockActs

(* The lock's steps keep the invariant.                                    *)
LEMMA RwlockChanges ==
  ASSUME RwlockInv, NEW t \in Threads, RwlockActs(t), ~ UNCHANGED <<word, hold>>
  PROVE  RwlockInv'
<1> DEFINE Locals == /\ rwOp' \in {rwOp, [rwOp EXCEPT ![t] = "none"]}
                     /\ seen' \in {seen, [seen EXCEPT ![t] = 0]}
<1>0. RwlockTypeOK /\ \A s \in Threads : CallWell(s)
  BY DEF RwlockInv
<1>1. Locals /\ hold' = [hold EXCEPT ![t] = hold'[t]]
      /\ rwPc' = [rwPc EXCEPT ![t] = rwPc'[t]] /\ rwPc'[t] \in {"idle", "wakeAll"}
      /\ rwPc[t] \notin {"wakeAll", "rdAsleep", "wrAsleep"}
  BY RwlockEffect, <1>0 DEF Rwlock!ReadExchange, Rwlock!WriteExchange,
     Rwlock!WriterLeaves, Rwlock!ReaderLeaves, Rwlock!Goto, Rwlock!Return,
     RwlockTypeOK
<1>2. word' \in Int /\ hold'[t] \in -1 .. MaxReads
  BY RwlockEffect, <1>0, ObjectsAssumption DEF RwlockTypeOK
<1>3. RwlockTypeOK'
  BY <1>0, <1>1, <1>2 DEF RwlockTypeOK, Rwlock!Steps
<1>4. ASSUME NEW s \in Threads PROVE CallWell(s)'
  BY <1>0, <1>1 DEF CallWell, RwlockTypeOK, RdSteps
<1>5. Rwlock!WordMatchesHolders'
  <2> USE DEF Rwlock!WordMatchesHolders, Rwlock!WriterState
  <2>1. CASE word' = word + 1 /\ word >= 0
    <3>1. /\ \A s \in Threads : hold[s] >= 0
          /\ hold[t] \in 0 .. MaxReads - 1 /\ hold' = [hold EXCEPT ![t] = @ + 1]
      BY <1>0, <2>1, RwlockEffect DEF RwlockTypeOK
    <3>2. word = Cardinality(Rwlock!ReadLocks)
      BY <1>0, <2>1, SameCardinality DEF RwlockInv
    <3>3. word' = Cardinality(Rwlock!ReadLocks')
      BY <1>0, <2>1, <3>1, <3>2, ReadLockTaken
    <3>4. \A s \in Threads : hold'[s] >= 0
      BY <1>0, <3>1 DEF RwlockTypeOK
    <3> QED
      BY <3>3, <3>4, SameCardinality
  <2>2. CASE word' = -1 /\ \A s \in Threads : hold[s] = 0
    <3>1. hold' = [hold EXCEPT ![t] = -1]
      BY <1>0, <2>2, RwlockEffect DEF RwlockTypeOK
    <3> QED
      BY <1>0, <2>2, <3>1 DEF RwlockTypeOK
  <2>3. CASE word' = 0 /\ word = -1
    <3>1. \A s \in Threads : hold'[s] = 0
      BY <1>0, <2>3, RwlockEffect DEF RwlockTypeOK
    <3>2. Cardinality(Rwlock!ReadLocks)' = 0
      <4>1. Rwlock!ReadLocks' = {}
        BY <3>1 DEF Rwlock!ReadLocks
      <4> QED
        BY <4>1, FS_EmptySet
    <3> QED
      BY <2>3, <3>1, <3>2, SameCardinality
  <2>4. CASE word' = word - 1 /\ word > 0
    <3>1. /\ \A s \in Threads : hold[s] >= 0
          /\ hold[t] > 0 /\ hold' = [hold EXCEPT ![t] = @ - 1]
      BY <1>0, <2>4, RwlockEffect DEF RwlockTypeOK
    <3>2. word = Cardinality(Rwlock!ReadLocks)
      BY <1>0, <2>4, SameCardinality DEF RwlockInv
    <3>3. word' = Cardinality(Rwlock!ReadLocks')
      BY <1>0, <2>4, <3>1, <3>2, ReadLockGiven
    <3>4. \A s \in Threads : hold'[s] >= 0
      BY <1>0, <3>1 DEF RwlockTypeOK
    <3> QED
      BY <3>3, <3>4, SameCardinality
  <2> QED
    BY <2>1, <2>2, <2>3, <2>4, RwlockEffect
<1>6. Rwlock!WakePending => Rwlock!WakePending'
  BY <1>0, <1>1 DEF Rwlock!WakePending, RwlockTypeOK
<1>7. ASSUME word' # word
      PROVE  (word = -1 => Rwlock!WakePending') /\ (word' = 0 => Rwlock!WakePending')
  BY <1>0, <1>7, RwlockEffect DEF Rwlock!WriterLeaves, Rwlock!ReaderLeaves,
     Rwlock!WakePending, Rwlock!Goto, Rwlock!Return, RwlockTypeOK
<1>8. Rwlock!ReadersNotStranded'
  BY <1>0, <1>1, <1>6, <1>7 DEF RwlockInv, Rwlock!ReadersNotStranded,
     Rwlock!WriterState, RwlockTypeOK
<1>9. Rwlock!WritersNotStranded'
  BY <1>0, <1>1, <1>6, <1>7 DEF RwlockInv, Rwlock!WritersNotStranded,
     RwlockTypeOK
<1> QED
  BY <1>3, <1>4, <1>5, <1>8, <1>9 DEF RwlockInv

(* Every step keeps the invariant, those of the other objects too.         *)
LEMMA RwlockStepInv == RwlockInv /\ [ObjectsNext]_objectVars => RwlockInv'
<1> SUFFICES ASSUME RwlockInv, [ObjectsNext]_objectVars PROVE RwlockInv'
  OBVIOUS
<1>1. CASE Rwlock!Next
  <2> PICK t \in Threads : \/ \E o \in Rwlock!Ops : Rwlock!Call(t, o)
                           \/ Rwlock!SpuriousReturn(t) \/ Rwlock!Run(t)
    BY <1>1 DEF Rwlock!Next
  <2>1. CASE UNCHANGED <<word, hold>>
    BY <2>1, RwlockWalks
  <2>2. CASE ~ UNCHANGED <<word, hold>>
    <3>1. RwlockActs(t)
      BY <2>2 DEF RwlockActs, Rwlock!Run, Rwlock!ReadStep, Rwlock!WriteStep,
         Rwlock!UnlockStep, Rwlock!Call, Rwlock!SpuriousReturn,
         Rwlock!ReadLoad, Rwlock!ReadWait, Rwlock!WriteLoad, Rwlock!WriteWait,
         Rwlock!UnlockLoad, Rwlock!UnlockWake
    <3> QED
      BY <2>2, <3>1, RwlockChanges
  <2> QED
    BY <2>1, <2>2
<1>2. CASE UNCHANGED rwlockVars
  BY <1>2 DEF rwlockVars, RwlockInv, RwlockTypeOK, CallWell,
     Rwlock!WordMatchesHolders, Rwlock!ReadLocks, Rwlock!ReadersNotStranded,
     Rwlock!WritersNotStranded, Rwlock!WakePending
<1> QED
  BY <1>1, <1>2, OneObjectMoves

(* pthread_rwlock_*: the word counts its holders, and nobody sleeps whom   *)
(* no unlock will wake.                                                    *)
THEOREM NobodyStranded == ObjectsSpec => []SleepersNotStranded
<1>1. RwlockInv => SleepersNotStranded
  BY DEF RwlockInv, SleepersNotStranded
<1> QED
  BY <1>1, RwlockInitInv, RwlockStepInv, PTL DEF ObjectsSpec

(* pthread_rwlock_* implements the abstract lock: no reader comes in       *)
(* beside a writer, and a writer only when nobody is in.                   *)
THEOREM RwlockRefines == ObjectsSpec => ImplementsRwlockSpec
<1>1. ObjectsInit => Rwlock!Abstract!Init
  BY DEF ObjectsInit, Rwlock!Init, Rwlock!Abstract!Init
<1>2. RwlockInv /\ [ObjectsNext]_objectVars => [Rwlock!Abstract!Next]_hold
  <2> SUFFICES ASSUME RwlockInv, [ObjectsNext]_objectVars, hold' # hold
               PROVE  Rwlock!Abstract!Next
    OBVIOUS
  <2>1. Rwlock!Next
    BY OneObjectMoves DEF rwlockVars
  <2> PICK t \in Threads : RwlockActs(t)
    BY <2>1 DEF RwlockActs, Rwlock!Next, Rwlock!Run, Rwlock!ReadStep,
       Rwlock!WriteStep, Rwlock!UnlockStep, Rwlock!Call, Rwlock!SpuriousReturn,
       Rwlock!ReadLoad, Rwlock!ReadWait, Rwlock!WriteLoad, Rwlock!WriteWait,
       Rwlock!UnlockLoad, Rwlock!UnlockWake
  <2>2. hold \in [Threads -> -1 .. MaxReads]
    BY DEF RwlockInv, RwlockTypeOK
  <2>3. Rwlock!Abstract!Read(t) \/ Rwlock!Abstract!Write(t) \/ Rwlock!Abstract!Release(t)
    BY <2>2, RwlockEffect DEF Rwlock!Abstract!Read, Rwlock!Abstract!Write,
       Rwlock!Abstract!Release
  <2> QED
    BY <2>3 DEF Rwlock!Abstract!Next
<1> QED
  BY <1>1, <1>2, RwlockInitInv, RwlockStepInv, PTL
     DEF ObjectsSpec, ImplementsRwlockSpec, Rwlock!ImplementsRwlockSpec, Rwlock!Abstract!Spec

-----------------------------------------------------------------------------
(* Barrier                                                                 *)

(* The threads that are at a step.                                         *)
At(step) == {t \in Threads : barrierPc[t] = step}

(* The threads whose arrival counts for the round that is not open yet.    *)
InRound == {"reset", "test", "wait", "asleep"}
Arrived == {t \in Threads : barrierPc[t] \in InRound /\ entered[t] = generation + 1}

Waiting(t) == barrierPc[t] \in {"test", "wait", "asleep"}

(* The types of the variables, and what each round counter is bounded by.  *)
BarrierTypeOK ==
  /\ barrierCount \in Nat \ {0} /\ waiters \in Nat /\ generation \in Nat
  /\ barrierPc \in [Threads -> Barrier!Steps] /\ genSeen \in [Threads -> Nat]
  /\ entered \in [Threads -> 0 .. MaxRounds]
  /\ left \in [Threads -> Nat] /\ serial \in [Threads -> Nat]

(* A call more is started than finished while a thread is inside one.      *)
Calls(t) ==
  /\ serial[t] <= left[t]
  /\ entered[t] = left[t] + (IF barrierPc[t] = "idle" THEN 0 ELSE 1)

(* One serial return for every generation, or one still to come.           *)
SerialsCounted ==
  Cardinality(Barrier!SerialReturns) + Cardinality(At("wakeAll")) = generation

(* The word reaches the count once between two resets: one thread at most  *)
(* is about to reset it, and the count is there until it does.             *)
OneResets ==
  \A t \in Threads : barrierPc[t] = "reset" =>
    waiters >= barrierCount /\ \A s \in Threads \ {t} : barrierPc[s] # "reset"

(* The resets so far each took back `count' arrivals or more.              *)
ResetsPaid ==
  barrierCount * (generation + Cardinality(At("advance"))) + waiters
    <= Cardinality(Barrier!Arrivals)

(* What holds of any number of threads.                                    *)
AnyThreads ==
  /\ BarrierTypeOK /\ \A t \in Threads : Calls(t)
  /\ SerialsCounted /\ OneResets /\ ResetsPaid

(* Which round a thread is in at each of its steps.                        *)
Place(t) ==
  /\ barrierPc[t] \in {"idle", "wakeAll"} => entered[t] = generation
  /\ barrierPc[t] \in {"load", "arrive", "reset", "advance"} => entered[t] = generation + 1
  /\ barrierPc[t] = "arrive" => genSeen[t] = generation
  /\ Waiting(t) => /\ entered[t] \in {generation, generation + 1}
                   /\ entered[t] = genSeen[t] + 1

(* While a thread closes a round all the others wait in that round; only   *)
(* one thread at a time opens the barrier.                                 *)
OneCloses ==
  \A t \in Threads :
    /\ barrierPc[t] \in {"reset", "advance"} =>
         \A s \in Threads \ {t} : Waiting(s) /\ entered[s] = generation + 1
    /\ barrierPc[t] = "wakeAll" => \A s \in Threads \ {t} : barrierPc[s] # "wakeAll"

Someone(step) == \E t \in Threads : barrierPc[t] = step

(* The word counts the arrivals, and is 0 from the reset to the opening.   *)
ArrivalsCounted == waiters = IF Someone("advance") THEN 0 ELSE Cardinality(Arrived)

(* What holds besides of as many threads as the barrier counts, or fewer.  *)
Exact == (\A t \in Threads : Place(t)) /\ OneCloses /\ ArrivalsCounted

NotOverused == Cardinality(Threads) <= barrierCount

(* The inductive invariant of the barrier.                                 *)
BarrierInv == AnyThreads /\ (NotOverused => Exact)

(* Returns and arrivals are finite sets, and so are the threads at a step. *)
LEMMA BarrierSetsFinite ==
  /\ IsFiniteSet(Barrier!SerialReturns) /\ Cardinality(Barrier!SerialReturns) \in Nat
  /\ IsFiniteSet(Barrier!Arrivals) /\ Cardinality(Barrier!Arrivals) \in Nat
  /\ \A step : IsFiniteSet(At(step)) /\ Cardinality(At(step)) \in Nat
<1>1. IsFiniteSet(1 .. MaxRounds) /\ IsFiniteSet(Threads)
  BY FS_Interval, ObjectsAssumption, SemaphoreAssumption
<1>2. IsFiniteSet(Threads \X (1 .. MaxRounds))
  BY <1>1, FS_Product
<1>3. /\ Barrier!SerialReturns \subseteq Threads \X (1 .. MaxRounds)
      /\ Barrier!Arrivals \subseteq Threads \X (1 .. MaxRounds)
      /\ \A step : At(step) \subseteq Threads
  BY DEF Barrier!SerialReturns, Barrier!Arrivals, At
<1> QED
  BY <1>1, <1>2, <1>3, FS_Subset, FS_CardinalityType

(* The invariant implies the property.                                     *)
LEMMA BarrierSafe == BarrierInv => RoundsAreExact
<1> SUFFICES ASSUME BarrierInv PROVE RoundsAreExact
  OBVIOUS
<1>0. AnyThreads /\ BarrierTypeOK
  BY DEF BarrierInv, AnyThreads
<1>1. /\ Cardinality(Barrier!SerialReturns) \in Nat /\ Cardinality(At("wakeAll")) \in Nat
      /\ Cardinality(At("advance")) \in Nat /\ Cardinality(Barrier!Arrivals) \in Nat
  BY BarrierSetsFinite
<1>2. Cardinality(Barrier!SerialReturns) <= generation
  BY <1>0, <1>1 DEF AnyThreads, SerialsCounted, BarrierTypeOK
<1>3. ASSUME NotOverused PROVE \A t \in Threads : left[t] <= generation /\ generation <= entered[t]
  BY <1>0, <1>3 DEF BarrierInv, AnyThreads, Exact, Calls, BarrierTypeOK, Place, Waiting,
     Barrier!Steps
<1>4. Barrier!NobodyPassesEarly
  BY <1>0, <1>3, SameCardinality DEF Barrier!NobodyPassesEarly, Barrier!NotOverused, NotOverused,
     BarrierTypeOK
<1>5. ASSUME NotOverused, NEW k \in 0 .. MaxRounds,
             \A t \in Threads : left[t] = k /\ barrierPc[t] = "idle"
      PROVE  Cardinality(Barrier!SerialReturns) = k
  <2>1. PICK t \in Threads : TRUE
    BY ObjectsAssumption
  <2>2. entered[t] = generation /\ entered[t] = k
    BY <1>0, <1>5, <2>1 DEF BarrierInv, AnyThreads, Exact, Place, Calls, BarrierTypeOK
  <2>3. At("wakeAll") = {}
    BY <1>5 DEF At
  <2>4. Cardinality(At("wakeAll")) = 0
    BY <2>3, FS_EmptySet
  <2> QED
    BY <1>0, <1>1, <2>2, <2>4 DEF AnyThreads, SerialsCounted, BarrierTypeOK
<1>6. Barrier!OneSerialThreadPerRound
  BY <1>2, <1>5, SameCardinality DEF Barrier!OneSerialThreadPerRound, Barrier!NotOverused,
     NotOverused
<1>7. Barrier!OpeningsPaid
  <2> DEFINE a == Cardinality(At("advance"))
  <2>1. a \in Nat /\ barrierCount \in Nat /\ generation \in Nat /\ waiters \in Nat
    BY <1>0, <1>1 DEF BarrierTypeOK
  <2>2. barrierCount * (generation + a) + waiters <= Cardinality(Barrier!Arrivals)
    BY <1>0 DEF AnyThreads, ResetsPaid
  <2> HIDE DEF a
  <2>3. barrierCount * (generation + a) = barrierCount * generation + barrierCount * a
    BY <2>1
  <2>4. barrierCount * a \in Nat /\ barrierCount * generation \in Nat
    BY <2>1
  <2>5. barrierCount * generation <= Cardinality(Barrier!Arrivals)
    BY <1>1, <2>1, <2>2, <2>3, <2>4
  <2> QED
    BY <2>5, SameCardinality DEF Barrier!OpeningsPaid
<1> QED
  BY <1>4, <1>6, <1>7 DEF RoundsAreExact

(* The arrivals are a finite set.                                          *)
LEMMA ArrivedFinite ==
  /\ IsFiniteSet(Arrived) /\ Cardinality(Arrived) \in Nat
  /\ Cardinality(Threads) \in Nat
<1>1. Arrived \subseteq Threads /\ IsFiniteSet(Threads)
  BY SemaphoreAssumption DEF Arrived
<1> QED
  BY <1>1, FS_Subset, FS_CardinalityType

(* A serial return is counted once.                                        *)
LEMMA SerialReturned ==
  ASSUME BarrierTypeOK, NEW t \in Threads, serial[t] < MaxRounds,
         serial' = [serial EXCEPT ![t] = @ + 1]
  PROVE  Cardinality(Barrier!SerialReturns') = Cardinality(Barrier!SerialReturns) + 1
<1> DEFINE new == <<t, serial[t] + 1>>
<1>1. serial \in [Threads -> Nat]
  BY DEF BarrierTypeOK
<1>2. Barrier!SerialReturns' = Barrier!SerialReturns \union {new}
  BY <1>1, ObjectsAssumption DEF Barrier!SerialReturns
<1>3. new \notin Barrier!SerialReturns
  BY <1>1 DEF Barrier!SerialReturns
<1>4. IsFiniteSet(Barrier!SerialReturns)
  BY BarrierSetsFinite
<1> HIDE DEF new
<1> QED
  BY <1>2, <1>3, <1>4, FS_AddElement

(* An arrival is counted once...                                           *)
LEMMA ArrivalCounted ==
  ASSUME BarrierTypeOK, NEW t \in Threads, entered[t] > 0,
         barrierPc[t] = "arrive", barrierPc'[t] \notin {"load", "arrive"},
         \A s \in Threads \ {t} : barrierPc'[s] = barrierPc[s], entered' = entered
  PROVE  Cardinality(Barrier!Arrivals') = Cardinality(Barrier!Arrivals) + 1
<1> DEFINE new == <<t, entered[t]>>
<1>1. entered \in [Threads -> 0 .. MaxRounds]
  BY DEF BarrierTypeOK
<1>2. Barrier!Arrivals' = Barrier!Arrivals \union {new}
  BY <1>1, ObjectsAssumption DEF Barrier!Arrivals, Barrier!Counted
<1>3. new \notin Barrier!Arrivals
  BY <1>1 DEF Barrier!Arrivals, Barrier!Counted
<1>4. IsFiniteSet(Barrier!Arrivals)
  BY BarrierSetsFinite
<1> HIDE DEF new
<1> QED
  BY <1>2, <1>3, <1>4, FS_AddElement

(* ... when the word is.                                                   *)
LEMMA ArrivalsStay ==
  ASSUME \A s \in Threads : Barrier!Counted(s)' = Barrier!Counted(s)
  PROVE  Barrier!Arrivals' = Barrier!Arrivals
BY DEF Barrier!Arrivals

(* A thread joins those at a step, or leaves them.                         *)
LEMMA AtJoined ==
  ASSUME NEW t \in Threads, NEW step, barrierPc[t] # step, barrierPc'[t] = step,
         \A s \in Threads \ {t} : barrierPc'[s] = step <=> barrierPc[s] = step
  PROVE  Cardinality(At(step)') = Cardinality(At(step)) + 1
<1>1. At(step)' = At(step) \union {t} /\ t \notin At(step)
  BY DEF At
<1>2. IsFiniteSet(At(step))
  BY BarrierSetsFinite
<1> QED
  BY <1>1, <1>2, FS_AddElement

LEMMA AtLeft ==
  ASSUME NEW t \in Threads, NEW step, barrierPc[t] = step, barrierPc'[t] # step,
         \A s \in Threads \ {t} : barrierPc'[s] = step <=> barrierPc[s] = step
  PROVE  /\ Cardinality(At(step)') = Cardinality(At(step)) - 1
         /\ Cardinality(At(step)) > 0
<1>1. At(step)' = At(step) \ {t} /\ t \in At(step)
  BY DEF At
<1>2. Cardinality(At(step)') = Cardinality(At(step)) - 1
  <2>1. IsFiniteSet(At(step))
    BY BarrierSetsFinite
  <2>2. Cardinality(At(step) \ {t}) = Cardinality(At(step)) - 1
    BY <1>1, <2>1, FS_RemoveElement
  <2> QED
    BY <1>1, <2>2
<1>3. Cardinality(At(step)) # 0
  BY <1>1, BarrierSetsFinite, FS_EmptySet
<1> QED
  BY <1>2, <1>3, BarrierSetsFinite

LEMMA AtStays ==
  ASSUME NEW step, \A s \in Threads : barrierPc'[s] = step <=> barrierPc[s] = step
  PROVE  At(step)' = At(step)
BY DEF At

(* The invariant holds of a fresh barrier.                                 *)
LEMMA BarrierInitInv == ObjectsInit => BarrierInv
<1> SUFFICES ASSUME Barrier!Init PROVE BarrierInv
  BY DEF ObjectsInit
<1>1. BarrierTypeOK
  BY ObjectsAssumption DEF Barrier!Init, BarrierTypeOK, Barrier!Steps
<1>2. /\ Barrier!SerialReturns = {} /\ At("wakeAll") = {} /\ At("advance") = {}
      /\ generation = 0 /\ waiters = 0
  BY DEF Barrier!Init, Barrier!SerialReturns, At
<1>3. SerialsCounted
  BY <1>2, FS_EmptySet DEF SerialsCounted
<1>4. ResetsPaid
  <2>1. Cardinality(At("advance")) = 0
    BY <1>2, FS_EmptySet
  <2>2. barrierCount \in Nat /\ barrierCount * (0 + 0) + 0 = 0
    BY <1>1 DEF BarrierTypeOK
  <2> QED
    BY <1>2, <2>1, <2>2, BarrierSetsFinite DEF ResetsPaid
<1>5. AnyThreads
  BY <1>1, <1>3, <1>4 DEF AnyThreads, Barrier!Init, Calls, OneResets
<1>6. Arrived = {} /\ ~ Someone("advance")
  BY DEF Barrier!Init, Arrived, InRound, Someone
<1>7. Exact
  BY <1>2, <1>6, FS_EmptySet DEF Barrier!Init, Exact, Place, Waiting, OneCloses, ArrivalsCounted
<1> QED
  BY <1>5, <1>7 DEF BarrierInv

(* The steps of a thread that count nothing, for any number of threads.    *)
LEMMA AnyWalks ==
  ASSUME AnyThreads, NEW t \in Threads,
         \/ Barrier!WaitCall(t) \/ Barrier!LoadGeneration(t) \/ Barrier!Test(t)
         \/ Barrier!Wait(t) \/ Barrier!SpuriousReturn(t)
  PROVE  AnyThreads'
<1> USE DEF Barrier!WaitCall, Barrier!LoadGeneration, Barrier!Test, Barrier!Wait,
        Barrier!SpuriousReturn, Barrier!Goto
<1>0. BarrierTypeOK /\ \A s \in Threads : Calls(s)
  BY DEF AnyThreads
<1>1. /\ barrierCount' = barrierCount
      /\ waiters' = waiters /\ generation' = generation /\ serial' = serial
      /\ barrierPc[t] \notin {"reset", "advance", "wakeAll"}
      /\ barrierPc'[t] \notin {"reset", "advance", "wakeAll"}
      /\ Barrier!Counted(t)' = Barrier!Counted(t)
      /\ \A s \in Threads \ {t} : /\ barrierPc'[s] = barrierPc[s]
                                  /\ entered'[s] = entered[s] /\ left'[s] = left[s]
  BY <1>0 DEF BarrierTypeOK, Barrier!Counted
<1>2. BarrierTypeOK'
  BY <1>0, ObjectsAssumption DEF BarrierTypeOK, Barrier!Steps
<1>3. Calls(t)'
  BY <1>0 DEF BarrierTypeOK, Calls
<1>4. \A s \in Threads : Calls(s)'
  BY <1>0, <1>1, <1>3 DEF Calls
<1>5. At("advance")' = At("advance") /\ At("wakeAll")' = At("wakeAll")
  BY <1>1, AtStays
<1>6. Barrier!Arrivals' = Barrier!Arrivals
  BY <1>1, ArrivalsStay DEF Barrier!Counted
<1>7. SerialsCounted' /\ ResetsPaid' /\ OneResets'
  BY <1>1, <1>5, <1>6 DEF AnyThreads, SerialsCounted, ResetsPaid, OneResets,
     Barrier!SerialReturns
<1> QED
  BY <1>2, <1>4, <1>7 DEF AnyThreads

(* An arrival pays.                                                        *)
LEMMA AnyArrives ==
  ASSUME AnyThreads, NEW t \in Threads, Barrier!Arrive(t)
  PROVE  AnyThreads'
<1>0. BarrierTypeOK /\ \A s \in Threads : Calls(s)
  BY DEF AnyThreads
<1>1. /\ barrierPc[t] = "arrive" /\ waiters' = waiters + 1
      /\ barrierPc' = [barrierPc EXCEPT ![t] =
                         IF waiters + 1 = barrierCount THEN "reset" ELSE "test"]
      /\ UNCHANGED <<barrierCount, generation, genSeen, entered, left, serial>>
  BY DEF Barrier!Arrive, Barrier!Goto
<1>2. /\ barrierPc'[t] \in {"reset", "test"} /\ entered[t] > 0
      /\ barrierPc'[t] = "reset" => waiters + 1 = barrierCount
      /\ \A s \in Threads \ {t} : barrierPc'[s] = barrierPc[s]
  BY <1>0, <1>1 DEF BarrierTypeOK, Calls
<1>3. BarrierTypeOK'
  BY <1>0, <1>1 DEF BarrierTypeOK, Barrier!Steps
<1>4. \A s \in Threads : Calls(s)'
  BY <1>0, <1>1, <1>2 DEF Calls
<1>5. At("advance")' = At("advance") /\ At("wakeAll")' = At("wakeAll")
  BY <1>1, <1>2, AtStays
<1>6. SerialsCounted'
  BY <1>1, <1>5 DEF AnyThreads, SerialsCounted, Barrier!SerialReturns
<1>7. OneResets'
  BY <1>0, <1>1, <1>2 DEF AnyThreads, OneResets, BarrierTypeOK
<1>8. Cardinality(Barrier!Arrivals') = Cardinality(Barrier!Arrivals) + 1
  BY <1>0, <1>1, <1>2, ArrivalCounted
<1>9. ResetsPaid'
  <2> DEFINE paid == barrierCount * (generation + Cardinality(At("advance")))
  <2>1. paid \in Nat /\ waiters \in Nat /\ paid' = paid
    BY <1>0, <1>1, <1>5, BarrierSetsFinite DEF BarrierTypeOK
  <2>2. paid + waiters <= Cardinality(Barrier!Arrivals)
    BY DEF AnyThreads, ResetsPaid
  <2> HIDE DEF paid
  <2>3. paid' + waiters' <= Cardinality(Barrier!Arrivals')
    BY <1>1, <1>8, <2>1, <2>2, BarrierSetsFinite
  <2> QED
    BY <2>3 DEF ResetsPaid, paid
<1> QED
  BY <1>3, <1>4, <1>6, <1>7, <1>9 DEF AnyThreads

(* The reset takes back as many arrivals as the barrier counts, or more... *)
LEMMA AnyResets ==
  ASSUME AnyThreads, NEW t \in Threads, Barrier!Reset(t)
  PROVE  AnyThreads'
<1>0. BarrierTypeOK /\ \A s \in Threads : Calls(s)
  BY DEF AnyThreads
<1>1. /\ barrierPc[t] = "reset" /\ waiters' = 0
      /\ barrierPc' = [barrierPc EXCEPT ![t] = "advance"]
      /\ UNCHANGED <<barrierCount, generation, genSeen, entered, left, serial>>
  BY DEF Barrier!Reset, Barrier!Goto
<1>2. /\ barrierPc'[t] = "advance" /\ waiters >= barrierCount
      /\ \A s \in Threads \ {t} : barrierPc'[s] = barrierPc[s] /\ barrierPc[s] # "reset"
  BY <1>0, <1>1 DEF BarrierTypeOK, AnyThreads, OneResets
<1>3. BarrierTypeOK'
  BY <1>0, <1>1 DEF BarrierTypeOK, Barrier!Steps
<1>4. \A s \in Threads : Calls(s)'
  BY <1>0, <1>1, <1>2 DEF Calls
<1>5. At("wakeAll")' = At("wakeAll")
  BY <1>1, <1>2, AtStays
<1>6. SerialsCounted'
  BY <1>1, <1>5 DEF AnyThreads, SerialsCounted, Barrier!SerialReturns
<1>7. OneResets'
  BY <1>2 DEF OneResets
<1>8. Barrier!Arrivals' = Barrier!Arrivals
  BY <1>1, <1>2, ArrivalsStay DEF Barrier!Counted
<1>9. Cardinality(At("advance")') = Cardinality(At("advance")) + 1
  BY <1>1, <1>2, AtJoined
<1>10. ResetsPaid'
  <2> DEFINE r == generation + Cardinality(At("advance"))
  <2>1. r \in Nat /\ waiters \in Nat /\ barrierCount \in Nat
    BY <1>0, BarrierSetsFinite DEF BarrierTypeOK
  <2>2. generation' + Cardinality(At("advance")') = r + 1
    BY <1>0, <1>1, <1>9, BarrierSetsFinite DEF BarrierTypeOK
  <2>3. barrierCount * r + waiters <= Cardinality(Barrier!Arrivals)
    BY DEF AnyThreads, ResetsPaid
  <2> HIDE DEF r
  <2>4. barrierCount * (r + 1) = barrierCount * r + barrierCount /\ barrierCount * r \in Nat
    BY <2>1
  <2>5. barrierCount * (r + 1) + 0 <= Cardinality(Barrier!Arrivals)
    BY <1>2, <2>1, <2>3, <2>4, BarrierSetsFinite
  <2> QED
    BY <1>1, <1>8, <2>2, <2>5 DEF ResetsPaid
<1> QED
  BY <1>3, <1>4, <1>6, <1>7, <1>10 DEF AnyThreads

(* ... for the generation that follows.                                    *)
LEMMA AnyAdvances ==
  ASSUME AnyThreads, NEW t \in Threads, Barrier!Advance(t)
  PROVE  AnyThreads'
<1>0. BarrierTypeOK /\ \A s \in Threads : Calls(s)
  BY DEF AnyThreads
<1>1. /\ barrierPc[t] = "advance" /\ generation' = generation + 1
      /\ barrierPc' = [barrierPc EXCEPT ![t] = "wakeAll"]
      /\ UNCHANGED <<barrierCount, waiters, genSeen, entered, left, serial>>
  BY DEF Barrier!Advance, Barrier!Goto
<1>2. /\ barrierPc'[t] = "wakeAll"
      /\ \A s \in Threads \ {t} : barrierPc'[s] = barrierPc[s]
  BY <1>0, <1>1 DEF BarrierTypeOK
<1>3. BarrierTypeOK'
  BY <1>0, <1>1 DEF BarrierTypeOK, Barrier!Steps
<1>4. \A s \in Threads : Calls(s)'
  BY <1>0, <1>1, <1>2 DEF Calls
<1>5. Cardinality(At("wakeAll")') = Cardinality(At("wakeAll")) + 1
  BY <1>1, <1>2, AtJoined
<1>6. SerialsCounted'
  <2>1. Barrier!SerialReturns' = Barrier!SerialReturns
    BY <1>1 DEF Barrier!SerialReturns
  <2> QED
    BY <1>0, <1>1, <1>5, <2>1, BarrierSetsFinite DEF AnyThreads, SerialsCounted, BarrierTypeOK
<1>7. OneResets'
  BY <1>1, <1>2 DEF AnyThreads, OneResets
<1>8. Barrier!Arrivals' = Barrier!Arrivals
  BY <1>1, <1>2, ArrivalsStay DEF Barrier!Counted
<1>9. /\ Cardinality(At("advance")') = Cardinality(At("advance")) - 1
      /\ Cardinality(At("advance")) > 0
  BY <1>1, <1>2, AtLeft
<1>10. generation' + Cardinality(At("advance")') = generation + Cardinality(At("advance"))
  BY <1>0, <1>1, <1>9, BarrierSetsFinite DEF BarrierTypeOK
<1>11. ResetsPaid'
  BY <1>1, <1>8, <1>10 DEF AnyThreads, ResetsPaid
<1> QED
  BY <1>3, <1>4, <1>6, <1>7, <1>11 DEF AnyThreads

(* The thread that advanced it returns as the serial one.                  *)
LEMMA AnyOpens ==
  ASSUME AnyThreads, NEW t \in Threads, Barrier!Open(t)
  PROVE  AnyThreads'
<1>0. BarrierTypeOK /\ \A s \in Threads : Calls(s)
  BY DEF AnyThreads
<1>1. /\ barrierPc[t] = "wakeAll"
      /\ barrierPc' = [s \in Threads |-> IF s = t THEN "idle"
                                         ELSE IF s \in Barrier!Asleep THEN "test"
                                         ELSE barrierPc[s]]
      /\ left' = [left EXCEPT ![t] = @ + 1] /\ serial' = [serial EXCEPT ![t] = @ + 1]
      /\ UNCHANGED <<barrierCount, waiters, generation, genSeen, entered>>
  BY DEF Barrier!Open, Barrier!WakeAll
<1>2. /\ barrierPc'[t] = "idle" /\ left'[t] = left[t] + 1 /\ serial'[t] = serial[t] + 1
      /\ \A s \in Threads \ {t} :
           /\ barrierPc[s] = "asleep" => barrierPc'[s] = "test"
           /\ barrierPc[s] # "asleep" => barrierPc'[s] = barrierPc[s]
           /\ left'[s] = left[s] /\ serial'[s] = serial[s]
  BY <1>0, <1>1 DEF Barrier!Asleep, BarrierTypeOK
<1>3. BarrierTypeOK'
  BY <1>0, <1>1 DEF BarrierTypeOK, Barrier!Steps
<1>4. \A s \in Threads : Calls(s)'
  BY <1>0, <1>1, <1>2 DEF Calls, BarrierTypeOK
<1>5. /\ Cardinality(At("wakeAll")') = Cardinality(At("wakeAll")) - 1
      /\ Cardinality(At("wakeAll")) > 0
  BY <1>1, <1>2, AtLeft
<1>6. SerialsCounted'
  <2>1. serial[t] < MaxRounds
    BY <1>0, <1>1, ObjectsAssumption DEF BarrierTypeOK, Calls
  <2>2. Cardinality(Barrier!SerialReturns') = Cardinality(Barrier!SerialReturns) + 1
    BY <1>0, <1>1, <2>1, SerialReturned
  <2> QED
    BY <1>0, <1>1, <1>5, <2>2, BarrierSetsFinite DEF AnyThreads, SerialsCounted, BarrierTypeOK
<1>7. OneResets'
  BY <1>1, <1>2 DEF AnyThreads, OneResets
<1>8. Barrier!Arrivals' = Barrier!Arrivals
  BY <1>1, <1>2, ArrivalsStay DEF Barrier!Counted
<1>9. At("advance")' = At("advance")
  BY <1>1, <1>2, AtStays
<1>10. ResetsPaid'
  BY <1>1, <1>8, <1>9 DEF AnyThreads, ResetsPaid
<1> QED
  BY <1>3, <1>4, <1>6, <1>7, <1>10 DEF AnyThreads

(* The steps of a thread that count nothing, for no more threads than the  *)
(* barrier counts.                                                         *)
LEMMA ExactWalks ==
  ASSUME AnyThreads, NotOverused, Exact, NEW t \in Threads,
         \/ Barrier!WaitCall(t) \/ Barrier!LoadGeneration(t) \/ Barrier!Test(t)
         \/ Barrier!Wait(t) \/ Barrier!SpuriousReturn(t)
  PROVE  Exact'
<1> USE DEF Barrier!WaitCall, Barrier!LoadGeneration, Barrier!Test, Barrier!Wait,
        Barrier!SpuriousReturn, Barrier!Goto
<1>0. BarrierTypeOK /\ \A s \in Threads : Place(s) /\ Calls(s)
  BY DEF AnyThreads, Exact
<1>1. /\ waiters' = waiters /\ generation' = generation
      /\ barrierPc' = [barrierPc EXCEPT ![t] = barrierPc'[t]]
      /\ barrierPc[t] \notin {"reset", "advance", "wakeAll"}
      /\ barrierPc'[t] \notin {"reset", "advance", "wakeAll"}
      /\ genSeen' = [genSeen EXCEPT ![t] = genSeen'[t]]
      /\ entered' = [entered EXCEPT ![t] = entered'[t]]
  BY <1>0 DEF BarrierTypeOK
<1>2. Place(t)'
  BY <1>0 DEF BarrierTypeOK, Place, Calls, Waiting, Barrier!WaitSleeps
<1>3. ASSUME NEW s \in Threads \ {t}
      PROVE  /\ barrierPc'[s] = barrierPc[s] /\ entered'[s] = entered[s]
             /\ Waiting(s)' = Waiting(s) /\ Place(s)'
  BY <1>0, <1>1 DEF BarrierTypeOK, Place, Waiting
<1>4. Waiting(t) /\ entered[t] = generation + 1 =>
        Waiting(t)' /\ entered'[t] = generation + 1
  BY <1>0 DEF BarrierTypeOK, Place, Waiting, Barrier!WaitSleeps
<1>5. OneCloses'
  BY <1>1, <1>3, <1>4 DEF Exact, OneCloses
<1>6. Arrived' = Arrived
  <2>1. (t \in Arrived)' <=> t \in Arrived
    BY <1>0, <1>1 DEF BarrierTypeOK, Place, Waiting, Arrived, InRound,
       Barrier!WaitSleeps
  <2> QED
    BY <1>1, <1>3, <2>1 DEF Arrived
<1>7. ArrivalsCounted'
  BY <1>1, <1>3, <1>6 DEF Exact, ArrivalsCounted, Someone
<1> QED
  BY <1>2, <1>3, <1>5, <1>7 DEF Exact

(* An arrival, by which the last thread of a round is singled out.         *)
LEMMA ExactArrives ==
  ASSUME AnyThreads, NotOverused, Exact, NEW t \in Threads, Barrier!Arrive(t)
  PROVE  Exact'
<1>0. BarrierTypeOK /\ \A s \in Threads : Place(s)
  BY DEF AnyThreads, Exact
<1>1. /\ barrierPc[t] = "arrive" /\ waiters' = waiters + 1
      /\ barrierPc' = [barrierPc EXCEPT ![t] =
                         IF waiters + 1 = barrierCount THEN "reset" ELSE "test"]
      /\ UNCHANGED <<barrierCount, generation, genSeen, entered, left, serial>>
  BY DEF Barrier!Arrive, Barrier!Goto
<1>2. /\ \A s \in Threads : barrierPc[s] \notin {"reset", "advance"}
      /\ entered[t] = generation + 1 /\ genSeen[t] = generation
  BY <1>0, <1>1 DEF Exact, OneCloses, Place, Waiting
<1>3. \A s \in Threads \ {t} : barrierPc'[s] = barrierPc[s]
  BY <1>0, <1>1 DEF BarrierTypeOK
<1>4. /\ barrierPc'[t] \in {"reset", "test"}
      /\ barrierPc'[t] = "reset" => waiters + 1 = barrierCount
  BY <1>0, <1>1 DEF BarrierTypeOK
<1>5. ASSUME NEW s \in Threads PROVE Place(s)'
  BY <1>0, <1>1, <1>2, <1>3, <1>4 DEF BarrierTypeOK, Place, Waiting
<1>6. Arrived' = Arrived \union {t} /\ t \notin Arrived
  BY <1>1, <1>2, <1>3, <1>4 DEF Arrived, InRound
<1>7. Cardinality(Arrived') = Cardinality(Arrived) + 1
  BY <1>6, ArrivedFinite, FS_AddElement
<1>8. waiters = Cardinality(Arrived)
  BY <1>2 DEF Exact, ArrivalsCounted, Someone
<1>9. ArrivalsCounted'
  <2>1. ~ Someone("advance")'
    BY <1>2, <1>3, <1>4 DEF Someone
  <2> QED
    BY <1>1, <1>7, <1>8, <2>1 DEF ArrivalsCounted
<1>10. ASSUME barrierPc'[t] = "reset", NEW s \in Threads \ {t}
       PROVE  (Waiting(s) /\ entered[s] = generation + 1)'
  <2>1. Arrived' \subseteq Threads /\ IsFiniteSet(Threads)
    BY SemaphoreAssumption DEF Arrived
  <2>2. Cardinality(Arrived') = barrierCount
    BY <1>0, <1>4, <1>7, <1>8, <1>10 DEF BarrierTypeOK
  <2>3. Cardinality(Arrived') <= Cardinality(Threads)
    BY <2>1, FS_Subset
  <2>4. Cardinality(Arrived') = Cardinality(Threads)
    BY <1>0, <2>2, <2>3, ArrivedFinite DEF NotOverused, BarrierTypeOK
  <2>5. Arrived' = Threads
    BY <2>1, <2>4, FS_Subset
  <2>6. s \in Arrived
    BY <1>6, <2>5
  <2> QED
    BY <1>1, <1>2, <1>3, <2>6 DEF Arrived, InRound, Waiting
<1>11. OneCloses'
  <2>1. ASSUME NEW s \in Threads, barrierPc'[s] \in {"reset", "advance"} PROVE s = t
    BY <1>2, <1>3, <2>1
  <2>2. ASSUME NEW s \in Threads, barrierPc'[s] = "wakeAll" PROVE s # t /\ barrierPc[s] = "wakeAll"
    BY <1>3, <1>4, <2>2
  <2> QED
    BY <1>3, <1>4, <1>10, <2>1, <2>2 DEF Exact, OneCloses
<1> QED
  BY <1>5, <1>9, <1>11 DEF Exact

(* The last arrival takes the count back and advances the generation.      *)
LEMMA ExactTurns ==
  ASSUME AnyThreads, NotOverused, Exact, NEW t \in Threads,
         Barrier!Reset(t) \/ Barrier!Advance(t)
  PROVE  Exact'
<1> USE DEF Barrier!Reset, Barrier!Advance, Barrier!Goto
<1>0. BarrierTypeOK /\ \A s \in Threads : Place(s)
  BY DEF AnyThreads, Exact
<1>1. /\ barrierPc[t] \in {"reset", "advance"} /\ waiters' = 0
      /\ UNCHANGED <<genSeen, entered, left, serial>>
      /\ \A s \in Threads \ {t} : Waiting(s) /\ entered[s] = generation + 1
      /\ \A s \in Threads \ {t} : barrierPc'[s] = barrierPc[s]
  BY <1>0 DEF Exact, OneCloses, BarrierTypeOK, ArrivalsCounted, Someone
<1>2. /\ \A s \in Threads : barrierPc[s] # "wakeAll"
      /\ entered[t] = generation + 1
  BY <1>0, <1>1 DEF Waiting, Place
<1>3. ASSUME NEW s \in Threads PROVE Place(s)'
  BY <1>0, <1>1, <1>2 DEF BarrierTypeOK, Place, Waiting
<1>4. OneCloses'
  BY <1>0, <1>1, <1>2 DEF BarrierTypeOK, OneCloses, Waiting
<1>5. CASE Barrier!Reset(t)
  <2>1. barrierPc'[t] = "advance"
    BY <1>0, <1>5 DEF BarrierTypeOK
  <2> QED
    BY <1>1, <1>3, <1>4, <2>1 DEF Exact, ArrivalsCounted, Someone
<1>6. CASE Barrier!Advance(t)
  <2>1. barrierPc'[t] = "wakeAll" /\ generation' = generation + 1
    BY <1>0, <1>6 DEF BarrierTypeOK
  <2>2. ~ Someone("advance")'
    BY <1>1, <2>1 DEF Someone, Waiting
  <2>3. Arrived' = {}
    BY <1>0, <1>1, <1>2, <2>1 DEF Arrived, BarrierTypeOK
  <2>4. ArrivalsCounted'
    BY <1>1, <2>2, <2>3, FS_EmptySet DEF ArrivalsCounted
  <2> QED
    BY <1>3, <1>4, <2>4 DEF Exact
<1> QED
  BY <1>5, <1>6

(* It wakes the others and returns as the serial thread.                   *)
LEMMA ExactOpens ==
  ASSUME AnyThreads, NotOverused, Exact, NEW t \in Threads, Barrier!Open(t)
  PROVE  Exact'
<1>0. BarrierTypeOK /\ \A s \in Threads : Place(s)
  BY DEF AnyThreads, Exact
<1>1. /\ barrierPc[t] = "wakeAll"
      /\ barrierPc' = [s \in Threads |-> IF s = t THEN "idle"
                                         ELSE IF s \in Barrier!Asleep THEN "test"
                                         ELSE barrierPc[s]]
      /\ UNCHANGED <<waiters, generation, genSeen, entered>>
  BY DEF Barrier!Open, Barrier!WakeAll
<1>2. ASSUME NEW s \in Threads \ {t}
      PROVE  /\ barrierPc[s] = "asleep" => barrierPc'[s] = "test"
             /\ barrierPc[s] # "asleep" => barrierPc'[s] = barrierPc[s]
  BY <1>0, <1>1 DEF Barrier!Asleep, BarrierTypeOK
<1>3. barrierPc'[t] = "idle" /\ entered[t] = generation
  BY <1>0, <1>1 DEF BarrierTypeOK, Place
<1>4. ASSUME NEW s \in Threads PROVE Place(s)'
  BY <1>0, <1>1, <1>2, <1>3 DEF BarrierTypeOK, Place, Waiting
<1>5. \A s \in Threads : barrierPc[s] \notin {"reset", "advance"}
  BY <1>0, <1>1 DEF Exact, OneCloses, Waiting
<1>6. \A s \in Threads \ {t} : barrierPc[s] # "wakeAll"
  BY <1>1 DEF Exact, OneCloses
<1>7. \A s \in Threads : barrierPc'[s] \notin {"reset", "advance", "wakeAll"}
  BY <1>2, <1>3, <1>5, <1>6
<1>8. OneCloses'
  BY <1>7 DEF OneCloses
<1>9. Arrived' = Arrived
  BY <1>1, <1>2, <1>3 DEF Arrived, InRound
<1>10. ArrivalsCounted'
  BY <1>1, <1>5, <1>7, <1>9 DEF Exact, ArrivalsCounted, Someone
<1> QED
  BY <1>4, <1>8, <1>10 DEF Exact

(* Every step keeps the invariant, those of the other objects too.         *)
LEMMA BarrierStepInv == BarrierInv /\ [ObjectsNext]_objectVars => BarrierInv'
<1> SUFFICES ASSUME BarrierInv, [ObjectsNext]_objectVars PROVE BarrierInv'
  OBVIOUS
<1>1. CASE Barrier!Next /\ ~ UNCHANGED barrierVars
  <2> PICK t \in Threads : Barrier!WaitCall(t) \/ Barrier!SpuriousReturn(t) \/ Barrier!Run(t)
    BY <1>1 DEF Barrier!Next, Barrier!Finished, Barrier!vars, barrierVars
  <2>1. AnyThreads'
    BY AnyWalks, AnyArrives, AnyResets, AnyAdvances, AnyOpens DEF Barrier!Run, BarrierInv
  <2>2. barrierCount' = barrierCount
    BY DEF Barrier!Run, Barrier!WaitCall, Barrier!SpuriousReturn, Barrier!LoadGeneration,
       Barrier!Arrive, Barrier!Reset, Barrier!Advance, Barrier!Open, Barrier!Test, Barrier!Wait
  <2>3. ASSUME NotOverused PROVE Exact'
    <3>1. AnyThreads /\ Exact
      BY <2>3 DEF BarrierInv
    <3> QED
      BY <2>3, <3>1, ExactWalks, ExactArrives, ExactTurns, ExactOpens DEF Barrier!Run
  <2> QED
    BY <2>1, <2>2, <2>3 DEF BarrierInv, NotOverused
<1>2. CASE UNCHANGED barrierVars
  <2>1. /\ At("advance")' = At("advance") /\ At("wakeAll")' = At("wakeAll")
        /\ Barrier!Arrivals' = Barrier!Arrivals /\ Arrived' = Arrived
    BY <1>2 DEF barrierVars, At, Barrier!Arrivals, Barrier!Counted, Arrived
  <2>2. AnyThreads' = AnyThreads
    BY <1>2, <2>1 DEF barrierVars, AnyThreads, BarrierTypeOK, Calls, SerialsCounted, OneResets,
       ResetsPaid, Barrier!SerialReturns
  <2>3. Exact' = Exact
    BY <1>2, <2>1 DEF barrierVars, Exact, Place, Waiting, OneCloses, ArrivalsCounted, Someone
  <2> QED
    BY <1>2, <2>2, <2>3 DEF barrierVars, BarrierInv, NotOverused
<1> QED
  BY <1>1, <1>2, OneObjectMoves

(* pthread_barrier_wait: with no more threads than the barrier counts,     *)
(* nobody gets past a round before all have reached it and one thread of   *)
(* every round is told it is the serial one, however far the fast threads  *)
(* run ahead of those that are still asleep; with any number of threads,   *)
(* no arrival pays for two rounds and no round has two serial threads.     *)
THEOREM RoundsExact == ObjectsSpec => []RoundsAreExact
BY BarrierInitInv, BarrierStepInv, BarrierSafe, PTL DEF ObjectsSpec

-----------------------------------------------------------------------------
(* Native threads                                                          *)

(* The types of the variables.                                             *)
NativeTypeOK ==
  /\ ctl \in [NativeThreads -> Native!ControlBlocks]
  /\ refs \in [NativeThreads -> {0, 1}]
  /\ at \in [Native!Agents -> Native!Steps]

(* What holds of a thread with its creator at the step cal, itself at the  *)
(* step wrk, the control block k and ref references, on any schedule.      *)
RolesKept(cal, wrk, k) ==
  /\ cal \in {"none", "hostCreate"} => wrk = "none"
  /\ k.mem = "unborn" => cal = "none"
  /\ cal \in Native!DetachSteps => k.role = "detachedByOther"
  /\ cal \in Native!JoinSteps => k.role = "joined"
  /\ cal \notin Native!CreateSteps \union Native!DetachSteps \union Native!JoinSteps \union {"none", "idle"} =>
       cal = "done"
  /\ k.role = "createdDetached" /\ cal # "none" => k.detached = 1
  /\ k.seen = 1 => k.detached = 1 /\ k.ending # "none"
  /\ wrk \in {"none", "boundsStore", "boundsWake", "run"} => k.ending = "none"
  /\ wrk \in {"destructors", "loadDetached"} => k.ending # "none"
  /\ wrk \in Native!DetachSteps =>
       \/ k.role = "createdDetached"
       \/ k.role = "detachedBySelf" /\ k.ending = "none"
       \/ k.role = "detachedInDestructor" /\ k.ending # "none"
  /\ /\ k.ending = "exit" /\ wrk \in {"destructors"} \union Native!DetachSteps
     /\ k.role \notin {"detachedByOther", "detachedInDestructor"}
     => k.seen = k.detached
  /\ /\ wrk \in {"end", "dead"} /\ k.detached = 1 /\ k.role # "detachedByOther"
     /\ k.role = "detachedInDestructor" => k.ending = "return"
     => k.mem = "freed"
  /\ cal \in {"testDetached", "closeNew", "publish", "idle"} \union Native!DetachSteps \union Native!JoinSteps =>
       k.bounds = 1

(* What holds besides on the disciplined schedules: who may still find the *)
(* block there, and who may still give up the host's reference.            *)
LifeKept(cal, wrk, k, ref) ==
  /\ k.published = 1 => cal \notin Native!CreateSteps \union {"none"}
  /\ k.role = "joined" => k.detached = 0
  /\ k.role = "detachedByOther" /\ k.detached = 1 =>
       cal \in {"detachTest", "detachClose", "done"}
  /\ wrk \in {"destructors", "loadDetached", "awaitCreator", "free", "end"} => cal \notin Native!DetachSteps
  /\ wrk = "loadDetached" /\ k.ending = "exit" /\ k.detached = 1 => cal \notin Native!CreateSteps
  /\ wrk = "destructors" /\ k.seen = 1 => cal \notin Native!CreateSteps
  /\ wrk \in {"awaitCreator", "free"} => k.detached = 1
  /\ wrk = "free" => cal \notin Native!CreateSteps
  /\ wrk \in Native!DetachSteps => cal \notin Native!CreateSteps
  /\ cal = "joinDestroy" => wrk = "dead"
  /\ k.mem = "freed" => /\ wrk \in {"none", "end", "dead"}
                        /\ cal \in {"idle", "done"} /\ (cal = "done" \/ k.detached = 1)
  /\ cal = "closeNew" => k.detached = 1
  /\ cal \in {"detachTest", "detachClose"} => k.detached = 1
  /\ wrk \in {"detachTest", "detachClose"} => k.detached = 1
  /\ cal = "done" /\ wrk # "none" /\ k.detached = 0 => k.role = "joined"
  /\ k.detached = 0 /\ cal \in {"publish", "idle", "joinTest", "joinWait", "detachCas"} => ref = 1
  /\ cal \in Native!CreateSteps \ {"hostCreate", "publish"} => ref = 1
  /\ cal \in {"detachTest", "detachClose"} => ref = 1
  /\ wrk \in {"detachTest", "detachClose"} => ref = 1

ThreadWell(c) ==
  /\ RolesKept(at[Native!Caller(c)], at[Native!Worker(c)], ctl[c])
  /\ disciplined => LifeKept(at[Native!Caller(c)], at[Native!Worker(c)], ctl[c], refs[c])

(* The inductive invariant of the native threads.                          *)
NativeInv == NativeTypeOK /\ \A c \in NativeThreads : ThreadWell(c)

(* The invariant holds before any thread is created.                       *)
LEMMA NativeInitInv == ObjectsInit => NativeInv
<1> SUFFICES ASSUME Native!Init PROVE NativeInv
  BY DEF ObjectsInit
<1>1. NativeTypeOK
  BY DEF Native!Init, NativeTypeOK, Native!ControlBlocks, Native!Roles,
     Native!Steps
<1>2. ASSUME NEW c \in NativeThreads
      PROVE  /\ at[Native!Caller(c)] = "none" /\ at[Native!Worker(c)] = "none"
             /\ ctl[c].role = "joined" /\ ctl[c].mem = "unborn" /\ ctl[c].detached = 0
             /\ ctl[c].published = 0 /\ ctl[c].seen = 0 /\ ctl[c].ending = "none"
  BY DEF Native!Init, Native!Agents, Native!Caller, Native!Worker
<1>3. ASSUME NEW c \in NativeThreads PROVE ThreadWell(c)
  BY <1>2 DEF ThreadWell, RolesKept, LifeKept, Native!CreateSteps,
     Native!DetachSteps, Native!JoinSteps, Native!WaitSteps
<1> QED
  BY <1>1, <1>3 DEF NativeInv

(* The invariant implies the property.                                     *)
LEMMA NativeSafe == NativeInv => FreedOnceAfterLastUse
<1> SUFFICES ASSUME NativeInv PROVE FreedOnceAfterLastUse
  OBVIOUS
<1>1. \A c \in NativeThreads : ThreadWell(c) /\ refs[c] \in {0, 1}
  BY DEF NativeInv, NativeTypeOK
<1> USE <1>1 DEF ThreadWell, RolesKept, LifeKept, Native!CreateSteps, Native!DetachSteps,
        Native!JoinSteps, Native!WaitSteps
<1>2. Native!NoUseAfterFree
  BY DEF Native!NoUseAfterFree, Native!CreatorFinishesFirst, Native!Freed
<1>3. Native!ReferenceGivenUpOnce
  <2> SUFFICES ASSUME disciplined, NEW c \in NativeThreads, refs[c] # 1
               PROVE  /\ at[Native!Caller(c)] \notin {"closeNew", "detachClose", "joinWait"}
                      /\ at[Native!Worker(c)] # "detachClose"
    BY DEF Native!ReferenceGivenUpOnce
  <2>1. at[Native!Caller(c)] = "joinWait" => ctl[c].detached = 0
    OBVIOUS
  <2> QED
    BY <2>1
<1>4. Native!DetachedIsReleased
  BY DEF Native!DetachedIsReleased, Native!Freed
<1>5. Native!BoundsBeforeId
  BY DEF Native!BoundsBeforeId
<1> QED
  BY <1>2, <1>3, <1>4, <1>5 DEF FreedOnceAfterLastUse

(* The agents of a thread are two, and not those of another thread.        *)
LEMMA TwoAgents ==
  /\ \A c \in NativeThreads : Native!Caller(c) \in Native!Agents /\ Native!Worker(c) \in Native!Agents
  /\ \A c, d \in NativeThreads : /\ Native!Caller(c) # Native!Worker(d)
                                 /\ Native!Caller(c) = Native!Caller(d) => c = d
                                 /\ Native!Worker(c) = Native!Worker(d) => c = d
  /\ \A a \in Native!Agents : \E c \in NativeThreads :
       a[2] = c /\ \/ a = Native!Caller(c) /\ a[1] = "caller"
                   \/ a = Native!Worker(c) /\ a[1] = "worker"
BY DEF Native!Agents, Native!Caller, Native!Worker

(* What a step of the thread c leaves alone.                               *)
Only(c) ==
  /\ disciplined' = disciplined
  /\ \A d \in NativeThreads \ {c} :
       /\ at'[Native!Caller(d)] = at[Native!Caller(d)]
       /\ at'[Native!Worker(d)] = at[Native!Worker(d)]
       /\ ctl'[d] = ctl[d] /\ refs'[d] = refs[d]

(* The other threads stay well.                                            *)
LEMMA OthersWell ==
  ASSUME NativeInv, NativeTypeOK', NEW c \in NativeThreads, Only(c), ThreadWell(c)'
  PROVE  NativeInv'
BY DEF NativeInv, Only, ThreadWell

(* A step changes at most one field of a thread's record.                  *)
BlockStep(c) ==
  \/ ctl' = ctl
  \/ ctl' = [ctl EXCEPT ![c].mem = "freed"]
  \/ ctl' = [ctl EXCEPT ![c].detached = 1]
  \/ ctl' = [ctl EXCEPT ![c].bounds = 1]
  \/ ctl' = [ctl EXCEPT ![c].published = 1]
  \/ \E stored \in BOOLEAN : ctl' = [ctl EXCEPT ![c].handle = stored]
  \/ \E ending \in {"return", "exit"} : ctl' = [ctl EXCEPT ![c].ending = ending]
  \/ ctl' = [ctl EXCEPT ![c].seen = ctl[c].detached]

LEMMA BlockTyped ==
  ASSUME NEW c \in NativeThreads, ctl \in [NativeThreads -> Native!ControlBlocks], BlockStep(c)
  PROVE  ctl' \in [NativeThreads -> Native!ControlBlocks]
<1>1. \E k \in Native!ControlBlocks : ctl' = [ctl EXCEPT ![c] = k] \/ ctl' = ctl
  <2>1. ctl[c] \in Native!ControlBlocks
    OBVIOUS
  <2>2. \A k \in Native!ControlBlocks :
          /\ [k EXCEPT !.mem = "freed"] \in Native!ControlBlocks
          /\ [k EXCEPT !.detached = 1] \in Native!ControlBlocks
          /\ [k EXCEPT !.bounds = 1] \in Native!ControlBlocks
          /\ [k EXCEPT !.published = 1] \in Native!ControlBlocks
          /\ \A stored \in BOOLEAN : [k EXCEPT !.handle = stored] \in Native!ControlBlocks
          /\ \A ending \in {"return", "exit"} :
               [k EXCEPT !.ending = ending] \in Native!ControlBlocks
          /\ [k EXCEPT !.seen = k.detached] \in Native!ControlBlocks
    BY DEF Native!ControlBlocks
  <2> QED
    BY <2>1, <2>2 DEF BlockStep
<1> QED
  BY <1>1

(* Calling and beginning pthread_create.                                   *)
LEMMA NativeCalls ==
  ASSUME NativeInv, NEW c \in NativeThreads, NEW role \in Native!Roles, Native!Create(c, role)
  PROVE  NativeInv'
<1> USE TwoAgents DEF Native!Goto, Native!Live, Native!Free, Native!GiveUpReference, Native!build
<1>0. NativeTypeOK /\ ThreadWell(c)
  BY DEF NativeInv
<1>1. /\ ctl[c] \in Native!ControlBlocks /\ refs[c] \in {0, 1}
      /\ at \in [Native!Agents -> Native!Steps]
      /\ ctl \in [NativeThreads -> Native!ControlBlocks]
      /\ refs \in [NativeThreads -> {0, 1}]
  BY <1>0 DEF NativeTypeOK
<1>2. NativeTypeOK' /\ Only(c)
  BY <1>1 DEF Native!Create, NativeTypeOK, Only, Native!ControlBlocks,
     Native!Roles, Native!Steps, Native!CreateSteps, Native!DetachSteps,
     Native!JoinSteps, Native!WorkerSteps, Native!WaitSteps
<1>3. ThreadWell(c)'
  BY <1>0, <1>1, <1>2 DEF Native!Create, Only, ThreadWell, RolesKept, LifeKept,
     Native!ControlBlocks, Native!CreateSteps, Native!DetachSteps,
     Native!JoinSteps, Native!WaitSteps
<1> QED
  BY <1>2, <1>3, OthersWell

(* The steps of pthread_create.                                            *)
LEMMA NativeCreates ==
  ASSUME NativeInv, NEW c \in NativeThreads, Native!CreateStep(c) \/ Native!SpuriousReturn(c)
  PROVE  NativeInv'
<1> USE TwoAgents DEF Native!Goto, Native!Live, Native!Free, Native!GiveUpReference, Native!build
<1>0. NativeTypeOK /\ ThreadWell(c)
  BY DEF NativeInv
<1>1. /\ ctl[c] \in Native!ControlBlocks /\ refs[c] \in {0, 1}
      /\ at \in [Native!Agents -> Native!Steps]
      /\ ctl \in [NativeThreads -> Native!ControlBlocks]
      /\ refs \in [NativeThreads -> {0, 1}]
  BY <1>0 DEF NativeTypeOK
<1> USE DEF Native!CreateStep, Native!SpuriousReturn, Native!HostCreateFails,
        Native!HostCreate, Native!StoreHandle, Native!BoundsLoad, Native!BoundsWait,
        Native!TestDetached, Native!CloseNew, Native!Publish
<1>2. NativeTypeOK' /\ Only(c)
  <2>1. ctl' \in [NativeThreads -> Native!ControlBlocks]
    <3>1. BlockStep(c)
      BY DEF BlockStep
    <3> QED
      BY <1>1, <3>1, BlockTyped
  <2>2. refs' \in [NativeThreads -> {0, 1}]
    BY <1>1
  <2>3. at' \in [Native!Agents -> Native!Steps]
    BY <1>1 DEF Native!Steps, Native!CreateSteps, Native!DetachSteps,
       Native!JoinSteps, Native!WorkerSteps, Native!WaitSteps
  <2>4. Only(c)
    BY <1>1 DEF Only
  <2> QED
    BY <2>1, <2>2, <2>3, <2>4 DEF NativeTypeOK
<1>3. /\ Native!Caller(c) \in Native!Agents /\ Native!Worker(c) \in Native!Agents
      /\ Native!Caller(c) # Native!Worker(c)
      /\ disciplined' = disciplined
  BY <1>2, TwoAgents DEF Only
<1>4. ThreadWell(c)'
  <2> HIDE TwoAgents DEF Native!CreateStep, Native!HostCreateFails, Native!HostCreate,
           Native!StoreHandle, Native!BoundsLoad, Native!BoundsWait,
           Native!TestDetached, Native!CloseNew, Native!Publish,
           Native!SpuriousReturn
  <2> USE <1>0, <1>1, <1>3 DEF ThreadWell, RolesKept, LifeKept,
          Native!ControlBlocks, Native!CreateSteps, Native!DetachSteps,
          Native!JoinSteps, Native!WaitSteps
  <2>1. CASE Native!HostCreateFails(c)
    BY <2>1 DEF Native!HostCreateFails
  <2>2. CASE Native!HostCreate(c)
    BY <2>2 DEF Native!HostCreate
  <2>3. CASE Native!StoreHandle(c)
    BY <2>3 DEF Native!StoreHandle
  <2>4. CASE Native!BoundsLoad(c)
    BY <2>4 DEF Native!BoundsLoad
  <2>5. CASE Native!BoundsWait(c)
    BY <2>5 DEF Native!BoundsWait
  <2>6. CASE Native!TestDetached(c)
    BY <2>6 DEF Native!TestDetached
  <2>7. CASE Native!CloseNew(c)
    BY <2>7 DEF Native!CloseNew
  <2>8. CASE Native!Publish(c)
    BY <2>8 DEF Native!Publish
  <2>9. CASE Native!SpuriousReturn(c)
    BY <2>9 DEF Native!SpuriousReturn
  <2> QED
    BY <2>1, <2>2, <2>3, <2>4, <2>5, <2>6, <2>7, <2>8, <2>9 DEF Native!CreateStep
<1> QED
  BY <1>2, <1>4, OthersWell

(* pthread_detach, called by the creator or by the thread itself.          *)
LEMMA NativeDetaches ==
  ASSUME NativeInv, NEW a \in Native!Agents, Native!DetachCall(a) \/ Native!DetachStep(a)
  PROVE  NativeInv'
<1> PICK c \in NativeThreads : a[2] = c /\ \/ a = Native!Caller(c) /\ a[1] = "caller"
                                           \/ a = Native!Worker(c) /\ a[1] = "worker"
  BY TwoAgents
<1> USE TwoAgents DEF Native!Goto, Native!Live, Native!Free, Native!GiveUpReference, Native!build
<1>0. NativeTypeOK /\ ThreadWell(c)
  BY DEF NativeInv
<1>1. /\ ctl[c] \in Native!ControlBlocks /\ refs[c] \in {0, 1}
      /\ at \in [Native!Agents -> Native!Steps]
      /\ ctl \in [NativeThreads -> Native!ControlBlocks]
      /\ refs \in [NativeThreads -> {0, 1}]
  BY <1>0 DEF NativeTypeOK
<1> USE DEF Native!DetachCall, Native!DetachStep, Native!DetachExchange, Native!DetachTest,
        Native!DetachClose, Native!Back
<1>2. NativeTypeOK' /\ Only(c)
  <2>1. ctl' \in [NativeThreads -> Native!ControlBlocks]
    <3>1. BlockStep(c)
      BY DEF BlockStep
    <3> QED
      BY <1>1, <3>1, BlockTyped
  <2>2. refs' \in [NativeThreads -> {0, 1}]
    BY <1>1
  <2>3. at' \in [Native!Agents -> Native!Steps]
    BY <1>1 DEF Native!Steps, Native!CreateSteps, Native!DetachSteps,
       Native!JoinSteps, Native!WorkerSteps, Native!WaitSteps
  <2>4. Only(c)
    BY <1>1 DEF Only
  <2> QED
    BY <2>1, <2>2, <2>3, <2>4 DEF NativeTypeOK
<1>3. /\ Native!Caller(c) \in Native!Agents /\ Native!Worker(c) \in Native!Agents
      /\ Native!Caller(c) # Native!Worker(c)
      /\ disciplined' = disciplined
  BY <1>2, TwoAgents DEF Only
<1>4. ThreadWell(c)'
  <2> HIDE TwoAgents DEF Native!DetachStep, Native!DetachCall, Native!DetachExchange,
           Native!DetachTest, Native!DetachClose
  <2> USE <1>0, <1>1, <1>3 DEF ThreadWell, RolesKept, LifeKept,
          Native!ControlBlocks, Native!CreateSteps, Native!DetachSteps,
          Native!JoinSteps, Native!WaitSteps
  <2>1. CASE Native!DetachCall(a)
    BY <2>1 DEF Native!DetachCall
  <2>2. CASE Native!DetachExchange(a)
    BY <2>2 DEF Native!DetachExchange
  <2>3. CASE Native!DetachTest(a)
    BY <2>3 DEF Native!DetachTest
  <2>4. CASE Native!DetachClose(a)
    BY <2>4 DEF Native!DetachClose
  <2> QED
    BY <2>1, <2>2, <2>3, <2>4 DEF Native!DetachStep
<1> QED
  BY <1>2, <1>4, OthersWell

(* The steps of the thread, from its start to its end.                     *)
LEMMA NativeWorks ==
  ASSUME NativeInv, NEW c \in NativeThreads,
         \/ \E ending \in {"return", "exit"} : Native!RoutineEnds(c, ending)
         \/ Native!DestructorsEnd(c) \/ Native!WorkerStep(c)
  PROVE  NativeInv'
<1> USE TwoAgents DEF Native!Goto, Native!Live, Native!Free, Native!GiveUpReference, Native!build
<1>0. NativeTypeOK /\ ThreadWell(c)
  BY DEF NativeInv
<1>1. /\ ctl[c] \in Native!ControlBlocks /\ refs[c] \in {0, 1}
      /\ at \in [Native!Agents -> Native!Steps]
      /\ ctl \in [NativeThreads -> Native!ControlBlocks]
      /\ refs \in [NativeThreads -> {0, 1}]
  BY <1>0 DEF NativeTypeOK
<1> USE DEF Native!RoutineEnds, Native!DestructorsEnd, Native!WorkerStep, Native!BoundsStore, Native!BoundsWake,
        Native!LoadDetached, Native!AwaitCreator, Native!WorkerFrees, Native!ThreadEnds
<1>2. NativeTypeOK' /\ Only(c)
  <2>1. ctl' \in [NativeThreads -> Native!ControlBlocks]
    <3>1. BlockStep(c)
      BY DEF BlockStep
    <3> QED
      BY <1>1, <3>1, BlockTyped
  <2>2. refs' \in [NativeThreads -> {0, 1}]
    BY <1>1
  <2>3. at' \in [Native!Agents -> Native!Steps]
    <3>1. /\ {"boundsWake", "run", "destructors", "loadDetached", "awaitCreator", "free",
                "end", "dead", "boundsLoad"} \subseteq Native!Steps
          /\ Native!Caller(c) \in Native!Agents /\ Native!Worker(c) \in Native!Agents
      BY DEF Native!Steps, Native!CreateSteps, Native!WorkerSteps, Native!WaitSteps
    <3>2. \E s \in Native!Steps :
            \/ at' = [at EXCEPT ![Native!Worker(c)] = s]
            \/ at' = [at EXCEPT ![Native!Worker(c)] = "run", ![Native!Caller(c)] = s]
      BY <1>1, <3>1
    <3> QED
      BY <1>1, <3>1, <3>2
  <2>4. Only(c)
    BY <1>1 DEF Only
  <2> QED
    BY <2>1, <2>2, <2>3, <2>4 DEF NativeTypeOK
<1>3. /\ Native!Caller(c) \in Native!Agents /\ Native!Worker(c) \in Native!Agents
      /\ Native!Caller(c) # Native!Worker(c)
      /\ disciplined' = disciplined
  BY <1>2, TwoAgents DEF Only
<1>4. ThreadWell(c)'
  <2> HIDE TwoAgents DEF Native!WorkerStep, Native!RoutineEnds, Native!DestructorsEnd,
           Native!BoundsStore, Native!BoundsWake, Native!LoadDetached,
           Native!AwaitCreator, Native!WorkerFrees, Native!ThreadEnds
  <2> USE <1>0, <1>1, <1>3 DEF ThreadWell, RolesKept, LifeKept,
          Native!ControlBlocks, Native!CreateSteps, Native!DetachSteps,
          Native!JoinSteps, Native!WaitSteps
  <2>1. CASE \E ending \in {"return", "exit"} : Native!RoutineEnds(c, ending)
    <3>1. PICK ending \in {"return", "exit"} : Native!RoutineEnds(c, ending)
      BY <2>1
    <3>2. /\ at[Native!Worker(c)] = "run"
          /\ at'[Native!Worker(c)] = IF ending = "return" THEN "destructors" ELSE "loadDetached"
          /\ at'[Native!Caller(c)] = at[Native!Caller(c)]
          /\ ctl'[c] = [ctl[c] EXCEPT !.ending = ending] /\ refs' = refs
          /\ disciplined =>
               /\ at[Native!Caller(c)] \notin Native!DetachSteps
               /\ ending = "exit" /\ ctl[c].detached = 1 => at[Native!Caller(c)] \notin Native!CreateSteps
      BY <3>1 DEF Native!RoutineEnds
    <3> QED
      BY <3>2
  <2>2. CASE Native!DestructorsEnd(c)
    BY <2>2 DEF Native!DestructorsEnd
  <2>3. CASE Native!BoundsStore(c)
    BY <2>3 DEF Native!BoundsStore
  <2>4. CASE Native!BoundsWake(c)
    BY <2>4 DEF Native!BoundsWake
  <2>5. CASE Native!LoadDetached(c)
    BY <2>5 DEF Native!LoadDetached
  <2>6. CASE Native!AwaitCreator(c)
    BY <2>6 DEF Native!AwaitCreator
  <2>7. CASE Native!WorkerFrees(c)
    BY <2>7 DEF Native!WorkerFrees
  <2>8. CASE Native!ThreadEnds(c)
    BY <2>8 DEF Native!ThreadEnds
  <2> QED
    BY <2>1, <2>2, <2>3, <2>4, <2>5, <2>6, <2>7, <2>8 DEF Native!WorkerStep
<1> QED
  BY <1>2, <1>4, OthersWell

(* pthread_join.                                                           *)
LEMMA NativeJoins ==
  ASSUME NativeInv, NEW c \in NativeThreads, Native!JoinCall(c) \/ Native!JoinStep(c)
  PROVE  NativeInv'
<1> USE TwoAgents DEF Native!Goto, Native!Live, Native!Free, Native!GiveUpReference, Native!build
<1>0. NativeTypeOK /\ ThreadWell(c)
  BY DEF NativeInv
<1>1. /\ ctl[c] \in Native!ControlBlocks /\ refs[c] \in {0, 1}
      /\ at \in [Native!Agents -> Native!Steps]
      /\ ctl \in [NativeThreads -> Native!ControlBlocks]
      /\ refs \in [NativeThreads -> {0, 1}]
  BY <1>0 DEF NativeTypeOK
<1> USE DEF Native!JoinCall, Native!JoinStep, Native!JoinTest, Native!JoinWait,
        Native!JoinDestroy
<1>2. NativeTypeOK' /\ Only(c)
  <2>1. ctl' \in [NativeThreads -> Native!ControlBlocks]
    <3>1. BlockStep(c)
      BY DEF BlockStep
    <3> QED
      BY <1>1, <3>1, BlockTyped
  <2>2. refs' \in [NativeThreads -> {0, 1}]
    BY <1>1
  <2>3. at' \in [Native!Agents -> Native!Steps]
    BY <1>1 DEF Native!Steps, Native!CreateSteps, Native!DetachSteps,
       Native!JoinSteps, Native!WorkerSteps, Native!WaitSteps
  <2>4. Only(c)
    BY <1>1 DEF Only
  <2> QED
    BY <2>1, <2>2, <2>3, <2>4 DEF NativeTypeOK
<1>3. /\ Native!Caller(c) \in Native!Agents /\ Native!Worker(c) \in Native!Agents
      /\ Native!Caller(c) # Native!Worker(c)
      /\ disciplined' = disciplined
  BY <1>2, TwoAgents DEF Only
<1>4. ThreadWell(c)'
  <2> HIDE TwoAgents DEF Native!JoinStep, Native!JoinCall, Native!JoinTest,
           Native!JoinWait, Native!JoinDestroy
  <2> USE <1>0, <1>1, <1>3 DEF ThreadWell, RolesKept, LifeKept,
          Native!ControlBlocks, Native!CreateSteps, Native!DetachSteps,
          Native!JoinSteps, Native!WaitSteps
  <2>1. CASE Native!JoinCall(c)
    BY <2>1 DEF Native!JoinCall
  <2>2. CASE Native!JoinTest(c)
    BY <2>2 DEF Native!JoinTest
  <2>3. CASE Native!JoinWait(c)
    BY <2>3 DEF Native!JoinWait
  <2>4. CASE Native!JoinDestroy(c)
    BY <2>4 DEF Native!JoinDestroy
  <2> QED
    BY <2>1, <2>2, <2>3, <2>4 DEF Native!JoinStep
<1> QED
  BY <1>2, <1>4, OthersWell

(* Every step keeps the invariant, those of the other objects too.         *)
LEMMA NativeStepInv == NativeInv /\ [ObjectsNext]_objectVars => NativeInv'
<1> SUFFICES ASSUME NativeInv, [ObjectsNext]_objectVars PROVE NativeInv'
  OBVIOUS
<1>1. CASE Native!Next
  BY <1>1, NativeCalls, NativeCreates, NativeDetaches, NativeWorks, NativeJoins
     DEF Native!Next
<1>2. CASE UNCHANGED nativeVars
  BY <1>2 DEF nativeVars, NativeInv, NativeTypeOK, ThreadWell
<1> QED
  BY <1>1, <1>2, OneObjectMoves

(* Native threads: nobody touches a freed control block or gives up the    *)
(* host's reference twice, a finished detached thread has freed its block, *)
(* and no id is handed out before the stack bounds.                        *)
THEOREM NativeFreedOnce == ObjectsSpec => []FreedOnceAfterLastUse
BY NativeInitInv, NativeStepInv, NativeSafe, PTL DEF ObjectsSpec

-----------------------------------------------------------------------------
(* The semaphore: the count stays within its bounds, racing posts and      *)
(* waits neither lose a token nor make one up, and while somebody sleeps   *)
(* there is a thread under way for every token.                            *)

(* The composition's semaphore is one of module PosixSemaphore.            *)
LEMMA SemaphoreInside == ObjectsSpec => Spec
<1>1. ObjectsInit => Init
  BY DEF ObjectsInit
<1>2. [ObjectsNext]_objectVars => [Next]_vars
  BY DEF ObjectsNext, SemaphoreNext, RwlockNext, BarrierNext, NativeNext, NativeEnds,
     objectVars
<1> QED
  BY <1>1, <1>2, PTL DEF ObjectsSpec, Spec

WaitingSteps == {"load", "take", "deadline", "wait", "asleep", "recheck"}

(* A thread goes for a token only after it has seen one: the exchange      *)
(* value -> value - 1 never stores a negative count.                       *)
TakersSawToken == \A t \in Threads : pc[t] = "take" => value[t] > 0

(* Only the waiting calls are at the steps of a waiting call.              *)
WaitersOp == \A t \in Threads : pc[t] \in WaitingSteps => op[t] \in WaitOps

IInv == TypeOK /\ TokensConserved /\ TakersSawToken /\ WaitersOp

USE SemaphoreAssumption DEF Steps, WaitOps, WaitingSteps, Goto, Return, See

(* The invariant holds in the state sem_init leaves.                       *)
LEMMA InitInvariant == Init => IInv
BY DEF Init, IInv, TypeOK, TokensConserved, TakersSawToken, WaitersOp

(* The steps of sem_post keep the invariant.                               *)
LEMMA PostInv ==
  ASSUME IInv, NEW t \in Threads,
         PostCall(t) \/ PostLoad(t) \/ PostExchange(t) \/ PostWake(t)
  PROVE  IInv'
<1>1. CASE PostCall(t)
  BY <1>1 DEF PostCall, IInv, TypeOK, TokensConserved, TakersSawToken, WaitersOp
<1>2. CASE PostLoad(t)
  BY <1>2 DEF PostLoad, IInv, TypeOK, TokensConserved, TakersSawToken, WaitersOp
<1>3. CASE PostExchange(t)
  BY <1>3 DEF PostExchange, IInv, TypeOK, TokensConserved, TakersSawToken, WaitersOp
<1>4. CASE PostWake(t)
  <2>1. PICK woken \in WakeOne(Asleep) :
          pc' = [s \in Threads |-> IF s = t THEN "idle"
                                   ELSE IF s \in woken THEN "load" ELSE pc[s]]
    BY <1>4 DEF PostWake
  <2>2. woken \subseteq Asleep
    BY <2>1 DEF WakeOne
  <2>3. \A s \in Threads : s \in woken => op[s] \in WaitOps
    BY <2>2 DEF Asleep, IInv, WaitersOp
  <2> QED
    BY <1>4, <2>1, <2>3 DEF PostWake, IInv, TypeOK, TokensConserved, TakersSawToken,
       WaitersOp
<1> QED
  BY <1>1, <1>2, <1>3, <1>4

(* Whatever a waiting call decides on the count it has just seen keeps the *)
(* invariant.                                                              *)
LEMMA ConsiderInv ==
  ASSUME IInv, NEW t \in Threads, op[t] \in WaitOps, Consider(t)
  PROVE  IInv'
<1>1. CASE count > 0
  BY <1>1 DEF Consider, IInv, TypeOK, TokensConserved, TakersSawToken, WaitersOp
<1>2. CASE ~ (count > 0)
  <2>1. CASE op[t] = "trywait"
    <3>1. Return(t) /\ UNCHANGED <<count, posted, taken>>
      BY <1>2, <2>1 DEF Consider
    <3> QED
      BY <3>1 DEF IInv, TypeOK, TokensConserved, TakersSawToken, WaitersOp
  <2>2. CASE op[t] = "timedwait"
    <3>1. See(t) /\ Goto(t, "deadline") /\ UNCHANGED <<count, posted, taken>>
      BY <1>2, <2>2 DEF Consider
    <3> QED
      BY <2>2, <3>1 DEF IInv, TypeOK, TokensConserved, TakersSawToken, WaitersOp
  <2>3. CASE op[t] = "wait"
    <3>1. See(t) /\ Goto(t, "wait") /\ UNCHANGED <<count, posted, taken>>
      BY <1>2, <2>3 DEF Consider
    <3> QED
      BY <2>3, <3>1 DEF IInv, TypeOK, TokensConserved, TakersSawToken, WaitersOp
  <2> QED
    BY <2>1, <2>2, <2>3
<1> QED
  BY <1>1, <1>2

(* The steps of sem_wait, sem_timedwait and sem_trywait keep the invariant.*)
LEMMA WaitInv ==
  ASSUME IInv, NEW t \in Threads,
         \/ \E o \in WaitOps : WaitCall(t, o)
         \/ Load(t) \/ Take(t) \/ Deadline(t) \/ Wait(t) \/ Recheck(t)
         \/ SpuriousReturn(t) \/ WaitTimesOut(t)
  PROVE  IInv'
<1>1. ASSUME NEW o \in WaitOps, WaitCall(t, o) PROVE IInv'
  BY <1>1 DEF WaitCall, IInv, TypeOK, TokensConserved, TakersSawToken, WaitersOp
<1>2. CASE Load(t)
  BY <1>2, ConsiderInv DEF Load, IInv, WaitersOp
<1>3. CASE Take(t)
  <2>1. CASE count # value[t]
    BY <1>3, <2>1, ConsiderInv DEF Take, IInv, WaitersOp
  <2>2. CASE count = value[t]
    BY <1>3, <2>2 DEF Take, IInv, TypeOK, TokensConserved, TakersSawToken, WaitersOp
  <2> QED
    BY <2>1, <2>2
<1>4. CASE Deadline(t)
  BY <1>4 DEF Deadline, IInv, TypeOK, TokensConserved, TakersSawToken, WaitersOp
<1>5. CASE Wait(t)
  BY <1>5 DEF Wait, IInv, TypeOK, TokensConserved, TakersSawToken, WaitersOp
<1>6. CASE Recheck(t)
  BY <1>6 DEF Recheck, IInv, TypeOK, TokensConserved, TakersSawToken, WaitersOp
<1>7. CASE SpuriousReturn(t) \/ WaitTimesOut(t)
  BY <1>7 DEF SpuriousReturn, WaitTimesOut, IInv, TypeOK, TokensConserved,
     TakersSawToken, WaitersOp
<1> QED
  BY <1>1, <1>2, <1>3, <1>4, <1>5, <1>6, <1>7

(* Every step of the semaphore keeps the invariant.                        *)
LEMMA StepInvariant == IInv /\ [Next]_vars => IInv'
<1> SUFFICES ASSUME IInv, [Next]_vars PROVE IInv'
  OBVIOUS
<1>1. CASE Next
  BY <1>1, PostInv, WaitInv DEF Next, Run
<1>2. CASE UNCHANGED vars
  BY <1>2 DEF vars, IInv, TypeOK, TokensConserved, TakersSawToken, WaitersOp
<1> QED
  BY <1>1, <1>2

(* The inductive invariant holds in every reachable state.                 *)
THEOREM Invariant == Spec => []IInv
BY InitInvariant, StepInvariant, PTL DEF Spec

(* sem_post never takes the count beyond SEM_VALUE_MAX, not even when two  *)
(* posts have both loaded a value below it, and no wait takes it below 0.  *)
THEOREM CountWithinLimits == Spec => []TypeOK
<1>1. IInv => TypeOK
  BY DEF IInv
<1> QED
  BY <1>1, Invariant, PTL

(* The compare-and-exchange loops of sem_post and the waiting calls        *)
(* conserve tokens: what is in the semaphore is what was put in less what  *)
(* was taken.                                                              *)
THEOREM TokensAreConserved == Spec => []TokensConserved
<1>1. IInv => TokensConserved
  BY DEF IInv
<1> QED
  BY <1>1, Invariant, PTL

-----------------------------------------------------------------------------
(* Every token has an agent                                                *)

(* The agents are finitely many, and counted one by one.                   *)
LEMMA AgentCount ==
  /\ IsFiniteSet(Agents) /\ Cardinality(Agents) \in Nat
  /\ IsFiniteSet(Agents') /\ Cardinality(Agents') \in Nat
  /\ Agents \subseteq Agents' => Cardinality(Agents) <= Cardinality(Agents')
<1>1. Agents \in SUBSET Threads /\ Agents' \in SUBSET Threads
  BY DEF Agents
<1>2. IsFiniteSet(Agents) /\ IsFiniteSet(Agents')
  BY <1>1, FS_Subset
<1> QED
  BY <1>2, FS_CardinalityType, FS_Subset

LEMMA AgentJoins ==
  ASSUME NEW t, t \notin Agents, Agents' = Agents \union {t}
  PROVE  Cardinality(Agents') = Cardinality(Agents) + 1
BY AgentCount, FS_AddElement

LEMMA AgentLeaves ==
  ASSUME NEW t, t \in Agents, Agents' = Agents \ {t}
  PROVE  Cardinality(Agents') = Cardinality(Agents) - 1
BY AgentCount, FS_RemoveElement

LEMMA AgentReplaced ==
  ASSUME NEW t, NEW s, t \in Agents, s \notin Agents,
         Agents' = (Agents \ {t}) \union {s}
  PROVE  Cardinality(Agents') = Cardinality(Agents)
<1>1. /\ IsFiniteSet(Agents \ {t})
      /\ Cardinality(Agents \ {t}) = Cardinality(Agents) - 1
  BY AgentCount, FS_RemoveElement
<1>2. Cardinality(Agents') = Cardinality(Agents \ {t}) + 1
  BY <1>1, FS_AddElement
<1> QED
  BY <1>1, <1>2, AgentCount

(* Nothing is to be shown where the count is 0, nor where no agent leaves, *)
(* no token comes and nobody lies down.                                    *)
LEMMA NoTokenNoClaim ==
  ASSUME count' = 0
  PROVE  NoTokenUnclaimed'
BY AgentCount DEF NoTokenUnclaimed

LEMMA AgentsStay ==
  ASSUME TypeOK, NoTokenUnclaimed, count' = count,
         Agents \subseteq Agents', Asleep' \subseteq Asleep
  PROVE  NoTokenUnclaimed'
BY AgentCount DEF NoTokenUnclaimed, TypeOK

(* A post brings its token and the thread that will wake a sleeper.  That  *)
(* thread leaves only when it has woken one, who takes its place.          *)
LEMMA PostKeepsClaims ==
  ASSUME IInv, NoTokenUnclaimed, NEW t \in Threads,
         PostCall(t) \/ PostLoad(t) \/ PostExchange(t) \/ PostWake(t)
  PROVE  NoTokenUnclaimed'
<1>1. CASE PostCall(t) \/ PostLoad(t)
  <2>1. count' = count /\ Agents \subseteq Agents' /\ Asleep' \subseteq Asleep
    BY <1>1 DEF PostCall, PostLoad, Agents, Asleep, IInv, TypeOK
  <2> QED
    BY <2>1, AgentsStay DEF IInv
<1>2. CASE PostExchange(t)
  <2>1. CASE posted' = posted
    <3>1. count' = count /\ Agents \subseteq Agents' /\ Asleep' \subseteq Asleep
      BY <1>2, <2>1 DEF PostExchange, Agents, Asleep, IInv, TypeOK
    <3> QED
      BY <3>1, AgentsStay DEF IInv
  <2>2. CASE posted' # posted
    <3>1. pc[t] = "postCas" /\ pc' = [pc EXCEPT ![t] = "wake"] /\ count' = count + 1
      BY <1>2, <2>2 DEF PostExchange
    <3>2. Asleep' = Asleep /\ t \notin Agents /\ Agents' = Agents \union {t}
      BY <3>1 DEF Agents, Asleep, IInv, TypeOK
    <3>3. Cardinality(Agents') = Cardinality(Agents) + 1
      BY <3>2, AgentJoins
    <3>4. Cardinality(Agents) \in Nat /\ count \in Nat
      BY AgentCount DEF IInv, TypeOK
    <3> QED
      BY <3>1, <3>2, <3>3, <3>4 DEF NoTokenUnclaimed
  <2> QED
    BY <2>1, <2>2
<1>3. CASE PostWake(t)
  <2>1. PICK woken \in WakeOne(Asleep) :
          pc' = [s \in Threads |-> IF s = t THEN "idle"
                                   ELSE IF s \in woken THEN "load" ELSE pc[s]]
    BY <1>3 DEF PostWake
  <2>2. pc[t] = "wake" /\ count' = count
    BY <1>3 DEF PostWake
  <2>3. CASE Asleep = {}
    <3>1. Asleep' = {}
      BY <2>1, <2>3 DEF WakeOne, Asleep, IInv, TypeOK
    <3> QED
      BY <3>1 DEF NoTokenUnclaimed
  <2>4. CASE Asleep # {}
    <3>1. PICK s \in Asleep : woken = {s}
      BY <2>1, <2>4 DEF WakeOne
    <3>2. s \in Threads /\ pc[s] = "asleep" /\ s # t
      BY <3>1, <2>2 DEF Asleep
    <3>3. t \in Agents /\ s \notin Agents /\ Agents' = (Agents \ {t}) \union {s}
      BY <2>1, <2>2, <3>1, <3>2 DEF Agents, IInv, TypeOK
    <3>4. Cardinality(Agents') = Cardinality(Agents)
      BY <3>3, AgentReplaced
    <3> QED
      BY <2>2, <2>4, <3>4 DEF NoTokenUnclaimed
  <2> QED
    BY <2>3, <2>4
<1> QED
  BY <1>1, <1>2, <1>3

(* A waiting call that has looked at a positive count goes for the token;  *)
(* it gives up or lies down only on the count 0.                           *)
LEMMA ConsiderKeepsClaims ==
  ASSUME IInv, NoTokenUnclaimed, NEW t \in Threads, Consider(t)
  PROVE  NoTokenUnclaimed'
<1>1. CASE count > 0
  <2>1. count' = count /\ pc' = [pc EXCEPT ![t] = "take"]
    BY <1>1 DEF Consider
  <2>2. Agents \subseteq Agents' /\ Asleep' \subseteq Asleep
    BY <2>1 DEF Agents, Asleep, IInv, TypeOK
  <2> QED
    BY <2>1, <2>2, AgentsStay DEF IInv
<1>2. CASE ~ (count > 0)
  <2>1. count' = 0
    BY <1>2 DEF Consider, IInv, TypeOK
  <2> QED
    BY <2>1, NoTokenNoClaim
<1> QED
  BY <1>1, <1>2

(* The steps of the waiting calls; a token leaves with its taker.          *)
LEMMA WaitKeepsClaims ==
  ASSUME IInv, NoTokenUnclaimed, NEW t \in Threads,
         \/ \E o \in WaitOps : WaitCall(t, o)
         \/ Load(t) \/ Take(t) \/ Deadline(t) \/ Wait(t) \/ Recheck(t)
         \/ SpuriousReturn(t) \/ WaitTimesOut(t)
  PROVE  NoTokenUnclaimed'
<1>1. CASE (\E o \in WaitOps : WaitCall(t, o)) \/ Deadline(t)
             \/ SpuriousReturn(t) \/ WaitTimesOut(t)
  <2>1. count' = count /\ Agents \subseteq Agents' /\ Asleep' \subseteq Asleep
    BY <1>1 DEF WaitCall, Deadline, SpuriousReturn, WaitTimesOut, Agents, Asleep,
       IInv, TypeOK
  <2> QED
    BY <2>1, AgentsStay DEF IInv
<1>2. CASE Load(t)
  BY <1>2, ConsiderKeepsClaims DEF Load
<1>3. CASE Take(t)
  <2>1. CASE count # value[t]
    BY <1>3, <2>1, ConsiderKeepsClaims DEF Take
  <2>2. CASE count = value[t]
    <3>1. pc[t] = "take" /\ pc' = [pc EXCEPT ![t] = "idle"] /\ count' = count - 1
      BY <1>3, <2>2 DEF Take
    <3>2. Asleep' = Asleep /\ t \in Agents /\ Agents' = Agents \ {t}
      BY <3>1 DEF Agents, Asleep, IInv, TypeOK
    <3>3. Cardinality(Agents') = Cardinality(Agents) - 1
      BY <3>2, AgentLeaves
    <3>4. Cardinality(Agents) \in Nat /\ count \in Nat
      BY AgentCount DEF IInv, TypeOK
    <3> QED
      BY <3>1, <3>2, <3>3, <3>4 DEF NoTokenUnclaimed
  <2> QED
    BY <2>1, <2>2
<1>4. CASE Wait(t) \/ Recheck(t)
  <2>1. CASE count = 0
    <3>1. count' = 0
      BY <1>4, <2>1 DEF Wait, Recheck
    <3> QED
      BY <3>1, NoTokenNoClaim
  <2>2. CASE count # 0
    <3>1. count' = count /\ pc' = [pc EXCEPT ![t] = "load"]
      BY <1>4, <2>2 DEF Wait, Recheck, WaitSleeps
    <3>2. Agents \subseteq Agents' /\ Asleep' \subseteq Asleep
      BY <3>1 DEF Agents, Asleep, IInv, TypeOK
    <3> QED
      BY <3>1, <3>2, AgentsStay DEF IInv
  <2> QED
    BY <2>1, <2>2
<1> QED
  BY <1>1, <1>2, <1>3, <1>4

(* No wake-up of the semaphore is lost: while a thread sleeps there is,    *)
(* for every token, a thread that will wake a sleeper or look at the       *)
(* count.  sem_post has to wake after every post for this, not only when   *)
(* it found the semaphore empty.                                           *)
THEOREM EveryTokenHasAnAgent == Spec => []NoTokenUnclaimed
<1>1. Init => NoTokenUnclaimed
  BY DEF Init, NoTokenUnclaimed, Asleep
<1>2. IInv /\ NoTokenUnclaimed /\ [Next]_vars => NoTokenUnclaimed'
  <2> SUFFICES ASSUME IInv, NoTokenUnclaimed, [Next]_vars PROVE NoTokenUnclaimed'
    OBVIOUS
  <2>1. CASE Next
    BY <2>1, PostKeepsClaims, WaitKeepsClaims DEF Next, Run
  <2>2. CASE UNCHANGED vars
    <3>1. count' = count /\ Agents \subseteq Agents' /\ Asleep' \subseteq Asleep
      BY <2>2 DEF vars, Agents, Asleep
    <3> QED
      BY <3>1, AgentsStay DEF IInv
  <2> QED
    BY <2>1, <2>2
<1> QED
  BY <1>1, <1>2, Invariant, PTL DEF Spec
=============================================================================
