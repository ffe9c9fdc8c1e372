-------------------------- MODULE PthreadCondProofs --------------------------
(***************************************************************************)
(* Proofs about PthreadCond for any set of threads and any number of       *)
(* signals: the waiters are counted exactly, a broadcast leaves nobody     *)
(* asleep who waited before it, and a signal ends the wait of a thread     *)
(* that waited when it was sent.                                           *)
(*                                                                         *)
(* The last needs the most: where sleepers are woken in the order they     *)
(* came in, the line is a total order along which what they have seen of   *)
(* the sequence never falls, so that the first in line is among the        *)
(* threads that every signal still owed to somebody was meant for.         *)
(***************************************************************************)
EXTENDS PthreadCond, FiniteSetTheorems, TLAPS

(* A set of finite sets has a smallest one.                                *)
LEMMA SmallestSet ==
  ASSUME NEW S, IsFiniteSet(S), NEW T, T \subseteq SUBSET S, T # {}
  PROVE  \E x \in T : \A y \in T : y \subseteq x => y = x
<1>1. IsWellFoundedOn(StrictSubsetOrdering(S), SUBSET S)
  BY FS_StrictSubsetOrderingWellFounded, FS_FiniteSubsetsOfFinite
<1>2. PICK x \in T : \A y \in T : <<y, x>> \notin StrictSubsetOrdering(S)
  BY <1>1, WFMin
<1> QED
  BY <1>2 DEF StrictSubsetOrdering

(* The threads inside a wait, whom `waiters' counts.                       *)
Inside == {t \in Threads : pc[t] \in {"unlock", "refused", "leave"} \union BlockedSteps}

(* The types of the variables.                                             *)
CondTypeOK ==
  /\ sequence \in Nat /\ sequence <= MaxSignals /\ waiters \in Nat
  /\ pc \in [Threads -> Steps]
  /\ op \in [Threads -> WaitOps \union {"none"}]
  /\ seen \in [Threads -> Nat]
  /\ promised \in [1 .. MaxSignals -> SUBSET Threads]
  /\ broadcast \in Nat

(* Nothing has been seen or broadcast that has not happened.               *)
SeenBefore == broadcast <= sequence /\ \A t \in Threads : seen[t] <= sequence

(* The sleepers stand in line, and those further back have seen no less.   *)
Line ==
  /\ \A x, y \in Threads : <<x, y>> \in ahead =>
       x # y /\ pc[x] = "asleep" /\ pc[y] = "asleep" /\ seen[x] <= seen[y]
  /\ \A x, y \in Threads : pc[x] = "asleep" /\ pc[y] = "asleep" /\ x # y =>
       <<x, y>> \in ahead \/ <<y, x>> \in ahead
  /\ \A x, y, z \in Threads : <<x, y>> \in ahead /\ <<y, z>> \in ahead => <<x, z>> \in ahead

(* While somebody sleeps, somebody is first in line.                       *)
LEMMA LineHasFirst ==
  ASSUME Line, Asleep # {}
  PROVE  First # {}
<1> DEFINE Before(s) == {u \in Asleep : <<u, s>> \in ahead}
           T == {Before(s) : s \in Asleep}
<1>1. IsFiniteSet(Asleep)
  BY CondAssumption, FS_Subset DEF Asleep
<1>2. PICK s \in Asleep : \A r \in Asleep : Before(r) \subseteq Before(s) => Before(r) = Before(s)
  <2>1. T \subseteq SUBSET Asleep /\ T # {}
    OBVIOUS
  <2> HIDE DEF Before, T
  <2>2. PICK x \in T : \A y \in T : y \subseteq x => y = x
    BY <1>1, <2>1, SmallestSet
  <2> QED
    BY <2>2 DEF T
<1>3. ASSUME NEW r \in Asleep, <<r, s>> \in ahead PROVE FALSE
  <2>1. Before(r) \subseteq Before(s)
    BY <1>3 DEF Line, Asleep
  <2>2. r \in Before(s) /\ r \notin Before(r)
    BY <1>3 DEF Line, Asleep
  <2> QED
    BY <1>2, <2>1, <2>2
<1>4. s \in First
  BY <1>3 DEF First, Line, Asleep
<1> QED
  BY <1>4

(* How a step changes the line: a thread joins it at its end,              *)
LEMMA LineJoined ==
  ASSUME CondTypeOK, SeenBefore, Line, NEW t \in Threads, pc[t] = "wait", seen[t] = sequence,
         pc' = [pc EXCEPT ![t] = "asleep"], seen' = seen,
         ahead' = ahead \union (Asleep \X {t})
  PROVE  Line'
<1>1. \A x, y \in Threads : <<x, y>> \in ahead' <=>
        <<x, y>> \in ahead \/ (pc[x] = "asleep" /\ y = t)
  BY DEF Asleep
<1>2. \A x \in Threads : pc'[x] = "asleep" <=> pc[x] = "asleep" \/ x = t
  BY DEF CondTypeOK
<1> QED
  BY <1>1, <1>2 DEF Line, CondTypeOK, SeenBefore

(* ... some leave it,                                                      *)
LEMMA LineLeft ==
  ASSUME CondTypeOK, Line, NEW woken, ahead' = Without(woken), seen' = seen,
         \A x \in Threads : pc'[x] = "asleep" <=> pc[x] = "asleep" /\ x \notin woken
  PROVE  Line'
<1>1. \A x, y \in Threads : <<x, y>> \in ahead' <=>
        <<x, y>> \in ahead /\ x \notin woken /\ y \notin woken
  BY DEF Without
<1> QED
  BY <1>1 DEF Line, CondTypeOK

(* ... or it stays as it is.                                               *)
LEMMA LineKept ==
  ASSUME CondTypeOK, Line, ahead' = ahead,
         \A x \in Threads : /\ pc'[x] = "asleep" <=> pc[x] = "asleep"
                            /\ pc[x] = "asleep" => seen'[x] = seen[x]
  PROVE  Line'
BY DEF Line

(* A thread that a signal or a broadcast was meant for stays among the     *)
(* blocked threads until one of them leaves; whoever began to wait later   *)
(* has seen that signal.                                                   *)
Promises ==
  \A k \in 1 .. MaxSignals :
    /\ promised[k] # {} => k <= sequence
    /\ \A t \in promised[k] : pc[t] \in BlockedSteps \union {"leave"} /\ seen[t] < k
    /\ \A t \in Threads : pc[t] = "asleep" /\ seen[t] < k /\ promised[k] # {} =>
         t \in promised[k]

(* Where the line is kept, the wake is still to come or has reached one of *)
(* the threads it was meant for.                                           *)
WakeIsDue ==
  fifo => \A k \in 1 .. MaxSignals : promised[k] # {} =>
    \/ \E t \in promised[k] : pc[t] # "asleep"
    \/ \E t \in Threads : pc[t] \in {"wakeOne", "wakeAll"}

(* The inductive invariant.                                                *)
CondInv == /\ CondTypeOK /\ SeenBefore /\ WaitersCounted /\ Line
           /\ Promises /\ WakeIsDue /\ BroadcastReachesAll

(* The steps of a thread, the two that wake apart.                         *)
QuietStep(t) ==
  \/ MutexLock(t) \/ MutexUnlock(t) \/ (\E o \in WaitOps : WaitCall(t, o))
  \/ LoadSequence(t) \/ Enter(t) \/ Unlock(t) \/ Refused(t) \/ Test(t) \/ Clock(t)
  \/ Recheck(t) \/ Relock(t)

SleepStep(t) == Wait(t) \/ SpuriousReturn(t) \/ WaitTimesOut(t)

BumpStep(t) == Signal(t) \/ Broadcast(t)

WakeStep(t) == SignalWake(t) \/ BroadcastWake(t)

(* Every step is of one of these kinds.                                    *)
LEMMA NextSteps ==
  Next => \E t \in Threads : \/ QuietStep(t) \/ SleepStep(t) \/ LeaveWait(t)
                             \/ BumpStep(t) \/ WakeStep(t)
BY DEF Next, Run, QuietStep, SleepStep, BumpStep, WakeStep

(* Whoever is woken was asleep; a broadcast wakes all, and where the line  *)
(* is kept a signal wakes the first in line.                               *)
LEMMA Woken ==
  ASSUME CondInv, NEW t \in Threads, WakeStep(t)
  PROVE  \E woken \in SUBSET Asleep :
           /\ Wake(t, woken)
           /\ pc[t] = "wakeAll" => woken = Asleep
           /\ fifo /\ Asleep # {} => woken \intersect First # {} \/ woken = Asleep
           /\ pc[t] \in {"wakeOne", "wakeAll"}
<1>1. CASE SignalWake(t)
  <2>1. PICK woken \in WakeOne(IF fifo THEN First ELSE Asleep) : Wake(t, woken)
    BY <1>1 DEF SignalWake
  <2>2. woken \subseteq Asleep
    BY <2>1 DEF WakeOne, First
  <2>3. fifo /\ Asleep # {} => woken \intersect First # {}
    BY <2>1, LineHasFirst DEF WakeOne, CondInv
  <2> QED
    BY <1>1, <2>1, <2>2, <2>3 DEF SignalWake
<1>2. CASE BroadcastWake(t)
  BY <1>2 DEF BroadcastWake, WakeAll
<1> QED
  BY <1>1, <1>2 DEF WakeStep

(* The invariant holds of an initialised condition variable.               *)
LEMMA CondInitInv == Init => CondInv
<1> SUFFICES ASSUME Init PROVE CondInv
  OBVIOUS
<1>1. Inside = {} /\ Cardinality({}) = 0
  BY FS_EmptySet DEF Init, Inside, BlockedSteps
<1>2. WaitersCounted
  BY <1>1 DEF WaitersCounted, Inside, Init
<1>3. CondTypeOK /\ SeenBefore /\ Line
  BY CondAssumption DEF Init, CondTypeOK, Steps, SeenBefore, Line
<1>4. Promises /\ WakeIsDue /\ BroadcastReachesAll
  BY DEF Init, Promises, WakeIsDue, BroadcastReachesAll
<1> QED
  BY <1>2, <1>3, <1>4 DEF CondInv

(* What counting needs of the invariant.                                   *)
LEMMA CondTypes ==
  ASSUME CondInv, NEW t \in Threads
  PROVE  /\ IsFiniteSet(Inside) /\ waiters = Cardinality(Inside)
         /\ pc \in [Threads -> Steps]
BY CondAssumption, FS_Subset DEF CondInv, CondTypeOK, Inside, WaitersCounted

(* Enter counts a thread in, and the refusal and the end of a wait count   *)
(* it out; no other step does either.                                      *)
LEMMA CountStep ==
  ASSUME CondInv, NEW t \in Threads,
         QuietStep(t) \/ SleepStep(t) \/ LeaveWait(t) \/ BumpStep(t) \/ WakeStep(t)
  PROVE  WaitersCounted' /\ waiters' \in Nat
<1> USE DEF Goto, Return, BlockedSteps
<1>0. /\ IsFiniteSet(Inside) /\ waiters = Cardinality(Inside) /\ Cardinality(Inside) \in Nat
      /\ pc \in [Threads -> Steps]
  BY CondTypes, FS_CardinalityType
<1>c. waiters' = Cardinality(Inside') => WaitersCounted'
  BY DEF Inside, WaitersCounted
<1>1. CASE Enter(t)
  <2>1. Inside' = Inside \union {t} /\ t \notin Inside /\ waiters' = waiters + 1
    BY <1>0, <1>1 DEF Enter, Inside
  <2> QED
    BY <1>0, <1>c, <2>1, FS_AddElement, FS_CardinalityType
<1>2. CASE Refused(t) \/ LeaveWait(t)
  <2>1. Inside' = Inside \ {t} /\ t \in Inside /\ waiters' = waiters - 1
    BY <1>0, <1>2 DEF Refused, LeaveWait, Inside
  <2> QED
    <3>1. IsFiniteSet(Inside \ {t}) /\ Cardinality(Inside \ {t}) = Cardinality(Inside) - 1
      BY <1>0, <2>1, FS_RemoveElement
    <3>2. Cardinality(Inside \ {t}) \in Nat
      BY <3>1, FS_CardinalityType
    <3> QED
      BY <1>0, <1>c, <2>1, <3>1, <3>2
<1>3. ASSUME ~ Enter(t), ~ Refused(t), ~ LeaveWait(t)
      PROVE  Inside' = Inside /\ waiters' = waiters
  <2> USE <1>0 DEF Inside
  <2>1. CASE QuietStep(t)
    <3>1. CASE MutexLock(t) \/ MutexUnlock(t)
      BY <3>1 DEF MutexLock, MutexUnlock, words
    <3>2. CASE \E o \in WaitOps : WaitCall(t, o)
      BY <3>2 DEF WaitCall, words
    <3>3. CASE LoadSequence(t) \/ Relock(t)
      BY <3>3 DEF LoadSequence, Relock, words
    <3>4. CASE Unlock(t)
      BY <3>4 DEF Unlock, words
    <3>5. CASE Test(t) \/ Clock(t) \/ Recheck(t)
      BY <3>5 DEF Test, Clock, Recheck, words
    <3> QED
      BY <1>3, <2>1, <3>1, <3>2, <3>3, <3>4, <3>5 DEF QuietStep
  <2>2. CASE SleepStep(t)
    BY <2>2 DEF SleepStep, Wait, SpuriousReturn, WaitTimesOut, words
  <2>3. CASE BumpStep(t)
    BY <2>3 DEF BumpStep, Signal, Broadcast
  <2>4. CASE WakeStep(t)
    <3>1. PICK woken \in SUBSET Asleep : Wake(t, woken) /\ pc[t] \in {"wakeOne", "wakeAll"}
      BY <2>4, Woken
    <3> QED
      BY <3>1 DEF Wake, Asleep, words
  <2> QED
    BY <1>3, <2>1, <2>2, <2>3, <2>4
<1> QED
  BY <1>0, <1>c, <1>1, <1>2, <1>3

(* Every step keeps the types and the order of the sequence numbers.       *)
LEMMA TypeStep ==
  ASSUME CondInv, NEW t \in Threads,
         QuietStep(t) \/ SleepStep(t) \/ LeaveWait(t) \/ BumpStep(t) \/ WakeStep(t)
  PROVE  CondTypeOK' /\ SeenBefore'
<1> USE DEF Goto, Return, Steps, BlockedSteps, words, ghosts
<1>0. waiters' \in Nat /\ CondTypeOK /\ SeenBefore
  BY CountStep DEF CondInv
<1>1. CASE QuietStep(t)
  <2>1. CASE MutexLock(t) \/ MutexUnlock(t)
    BY <1>0, <2>1 DEF MutexLock, MutexUnlock, CondTypeOK, SeenBefore
  <2>2. CASE \E o \in WaitOps : WaitCall(t, o)
    BY <1>0, <2>2 DEF WaitCall, CondTypeOK, SeenBefore
  <2>3. CASE LoadSequence(t)
    BY <1>0, <2>3 DEF LoadSequence, CondTypeOK, SeenBefore
  <2>4. CASE Relock(t)
    BY <1>0, <2>4 DEF Relock, CondTypeOK, SeenBefore
  <2>6. CASE Enter(t) \/ Unlock(t)
    BY <1>0, <2>6 DEF Enter, Unlock, CondTypeOK, SeenBefore
  <2>7. CASE Refused(t)
    BY <1>0, <2>7 DEF Refused, CondTypeOK, SeenBefore
  <2>5. CASE Test(t) \/ Clock(t) \/ Recheck(t)
    BY <1>0, <2>5 DEF Test, Clock, Recheck, CondTypeOK, SeenBefore
  <2> QED
    BY <1>1, <2>1, <2>2, <2>3, <2>4, <2>5, <2>6, <2>7 DEF QuietStep
<1>2. CASE SleepStep(t)
  BY <1>0, <1>2 DEF SleepStep, Wait, SpuriousReturn, WaitTimesOut, CondTypeOK,
     SeenBefore
<1>3. CASE LeaveWait(t)
  BY <1>0, <1>3 DEF LeaveWait, CondTypeOK, SeenBefore
<1>4. CASE BumpStep(t)
  <2>1. /\ sequence < MaxSignals /\ sequence' = sequence + 1 /\ seen' = seen
        /\ promised' = [promised EXCEPT ![sequence + 1] = Blocked]
        /\ broadcast' \in {broadcast, sequence + 1} /\ waiters' = waiters
    BY <1>4 DEF BumpStep, Signal, Broadcast, Bump
  <2>2. pc' \in [Threads -> Steps] /\ op' = op
    BY <1>0, <1>4 DEF BumpStep, Signal, Broadcast, CondTypeOK
  <2>3. Blocked \subseteq Threads
    BY DEF Blocked
  <2> QED
    BY <1>0, <2>1, <2>2, <2>3, CondAssumption DEF CondTypeOK, SeenBefore
<1>5. CASE WakeStep(t)
  <2>1. PICK woken \in SUBSET Asleep : Wake(t, woken)
    BY <1>5, Woken
  <2> QED
    BY <1>0, <2>1 DEF Wake, CondTypeOK, SeenBefore
<1> QED
  BY <1>1, <1>2, <1>3, <1>4, <1>5

(* Every step keeps the line.                                              *)
LEMMA LineStep ==
  ASSUME CondInv, NEW t \in Threads,
         QuietStep(t) \/ SleepStep(t) \/ LeaveWait(t) \/ BumpStep(t) \/ WakeStep(t)
  PROVE  Line'
<1> USE DEF Goto, Return, words
<1>0. CondTypeOK /\ SeenBefore /\ Line /\ pc \in [Threads -> Steps] /\ seen \in [Threads -> Nat]
  BY DEF CondInv, CondTypeOK
<1>1. ASSUME QuietStep(t) \/ LeaveWait(t) \/ BumpStep(t)
      PROVE  /\ ahead' = ahead
             /\ \A x \in Threads : /\ pc'[x] = "asleep" <=> pc[x] = "asleep"
                                   /\ pc[x] = "asleep" => seen'[x] = seen[x]
  <2>1. CASE MutexLock(t) \/ MutexUnlock(t)
    BY <1>0, <2>1 DEF MutexLock, MutexUnlock
  <2>2. CASE \E o \in WaitOps : WaitCall(t, o)
    BY <1>0, <2>2 DEF WaitCall
  <2>3. CASE LoadSequence(t) \/ Relock(t)
    BY <1>0, <2>3 DEF LoadSequence, Relock
  <2>4. CASE Enter(t) \/ Unlock(t) \/ Refused(t)
    BY <1>0, <2>4 DEF Enter, Unlock, Refused
  <2>5. CASE Test(t) \/ Clock(t) \/ Recheck(t)
    BY <1>0, <2>5 DEF Test, Clock, Recheck
  <2>6. CASE LeaveWait(t) \/ BumpStep(t)
    BY <1>0, <2>6 DEF LeaveWait, BumpStep, Signal, Broadcast
  <2> QED
    BY <1>1, <2>1, <2>2, <2>3, <2>4, <2>5, <2>6 DEF QuietStep
<1>2. CASE SleepStep(t)
  <2>1. CASE SpuriousReturn(t) \/ WaitTimesOut(t)
    <3>1. /\ ahead' = Without({t}) /\ seen' = seen
          /\ \A x \in Threads : pc'[x] = "asleep" <=> pc[x] = "asleep" /\ x \notin {t}
      BY <1>0, <2>1 DEF SpuriousReturn, WaitTimesOut
    <3> QED
      BY <1>0, <3>1, LineLeft
  <2>2. CASE Wait(t) /\ sequence = seen[t]
    BY <1>0, <2>2, LineJoined DEF Wait, WaitSleeps
  <2>3. CASE Wait(t) /\ sequence # seen[t]
    <3>1. /\ ahead' = ahead
          /\ \A x \in Threads : /\ pc'[x] = "asleep" <=> pc[x] = "asleep"
                                /\ pc[x] = "asleep" => seen'[x] = seen[x]
      BY <1>0, <2>3 DEF Wait, WaitSleeps
    <3> QED
      BY <1>0, <3>1, LineKept
  <2> QED
    BY <1>2, <2>1, <2>2, <2>3 DEF SleepStep
<1>3. CASE WakeStep(t)
  <2>1. PICK woken \in SUBSET Asleep : Wake(t, woken) /\ pc[t] \in {"wakeOne", "wakeAll"}
    BY <1>3, Woken
  <2>2. /\ ahead' = Without(woken) /\ seen' = seen
        /\ \A x \in Threads : pc'[x] = "asleep" <=> pc[x] = "asleep" /\ x \notin woken
    BY <1>0, <2>1 DEF Wake
  <2> QED
    BY <1>0, <2>2, LineLeft
<1> QED
  BY <1>0, <1>1, <1>2, <1>3, LineKept

(* A step of a waiting thread that moves nothing but the thread itself:    *)
(* inside the wait it keeps what it has seen, and it falls asleep only if  *)
(* that is the latest.                                                     *)
Moves(t) ==
  /\ sequence' = sequence /\ promised' = promised /\ broadcast' = broadcast /\ fifo' = fifo
  /\ \A x \in Threads \ {t} : pc'[x] = pc[x] /\ seen'[x] = seen[x]
  /\ pc[t] \notin {"wakeOne", "wakeAll"}
  /\ pc[t] \in BlockedSteps \union {"leave"} =>
       pc'[t] \in BlockedSteps \union {"leave"} /\ seen'[t] = seen[t]
  /\ pc'[t] = "asleep" => seen'[t] = sequence

(* All steps but those of a signal and the last of a wait are such.        *)
LEMMA StepMoves ==
  ASSUME CondInv, NEW t \in Threads, QuietStep(t) \/ SleepStep(t)
  PROVE  Moves(t)
<1> USE DEF Goto, Return, words, ghosts, BlockedSteps, Moves
<1>0. pc \in [Threads -> Steps] /\ seen \in [Threads -> Nat]
  BY DEF CondInv, CondTypeOK
<1>1. CASE MutexLock(t) \/ MutexUnlock(t)
  BY <1>0, <1>1 DEF MutexLock, MutexUnlock
<1>2. CASE \E o \in WaitOps : WaitCall(t, o)
  BY <1>0, <1>2 DEF WaitCall
<1>3. CASE LoadSequence(t) \/ Relock(t)
  BY <1>0, <1>3 DEF LoadSequence, Relock
<1>4. CASE Enter(t) \/ Unlock(t) \/ Refused(t)
  BY <1>0, <1>4 DEF Enter, Unlock, Refused
<1>5. CASE Test(t) \/ Clock(t) \/ Recheck(t)
  BY <1>0, <1>5 DEF Test, Clock, Recheck
<1>6. CASE Wait(t)
  BY <1>0, <1>6 DEF Wait, WaitSleeps
<1>7. CASE SpuriousReturn(t) \/ WaitTimesOut(t)
  BY <1>0, <1>7 DEF SpuriousReturn, WaitTimesOut
<1> QED
  BY <1>1, <1>2, <1>3, <1>4, <1>5, <1>6, <1>7 DEF QuietStep, SleepStep

(* They lose no wake: a thread that a signal was meant for, once awake,    *)
(* does not fall asleep again.                                             *)
LEMMA MovesInv ==
  ASSUME CondInv, NEW t \in Threads, Moves(t)
  PROVE  Promises' /\ WakeIsDue' /\ BroadcastReachesAll'
<1>0. /\ CondTypeOK /\ SeenBefore /\ Promises /\ WakeIsDue /\ BroadcastReachesAll
      /\ pc[t] = "asleep" => pc[t] \in BlockedSteps
  BY DEF CondInv, BlockedSteps
<1>1. Promises'
  BY <1>0, CondAssumption, SMTT(30) DEF Moves, Promises, CondTypeOK
<1>2. WakeIsDue'
  <2> SUFFICES ASSUME fifo, NEW k \in 1 .. MaxSignals, promised[k] # {}
               PROVE  \/ \E u \in promised[k] : pc'[u] # "asleep"
                      \/ \E u \in Threads : pc'[u] \in {"wakeOne", "wakeAll"}
    BY DEF Moves, WakeIsDue
  <2>1. CASE \E u \in promised[k] : pc[u] # "asleep"
    <3>1. PICK u \in promised[k] : pc[u] # "asleep"
      BY <2>1
    <3>2. u \in Threads /\ k \in Nat /\ seen[u] < k /\ k <= sequence
      BY <1>0, <3>1, CondAssumption DEF Promises, CondTypeOK
    <3>3. pc'[u] # "asleep"
      BY <1>0, <3>1, <3>2 DEF Moves, Promises, CondTypeOK
    <3> QED
      BY <3>3
  <2>2. CASE \E u \in Threads : pc[u] \in {"wakeOne", "wakeAll"}
    BY <2>2 DEF Moves
  <2> QED
    BY <1>0, <2>1, <2>2 DEF WakeIsDue
<1>3. BroadcastReachesAll'
  BY <1>0 DEF Moves, BroadcastReachesAll, SeenBefore, CondTypeOK
<1> QED
  BY <1>1, <1>2, <1>3

(* A thread that leaves its wait settles what was meant for it.            *)
LEMMA LeaveInv ==
  ASSUME CondInv, NEW t \in Threads, LeaveWait(t)
  PROVE  Promises' /\ WakeIsDue' /\ BroadcastReachesAll'
<1>0. /\ CondTypeOK /\ SeenBefore /\ Promises /\ WakeIsDue /\ BroadcastReachesAll
  BY DEF CondInv
<1>1. /\ sequence' = sequence /\ broadcast' = broadcast /\ fifo' = fifo /\ seen' = seen
      /\ \A x \in Threads \ {t} : pc'[x] = pc[x]
      /\ pc[t] = "leave" /\ pc'[t] = "relock"
      /\ \A k \in 1 .. MaxSignals :
           promised'[k] = IF t \in promised[k] THEN {} ELSE promised[k]
  BY <1>0 DEF LeaveWait, Goto, CondTypeOK
<1>2. Promises'
  BY <1>0, <1>1 DEF Promises, CondTypeOK
<1>3. WakeIsDue'
  BY <1>0, <1>1 DEF WakeIsDue, CondTypeOK
<1>4. BroadcastReachesAll'
  BY <1>0, <1>1 DEF BroadcastReachesAll
<1> QED
  BY <1>2, <1>3, <1>4

(* A signal or broadcast is meant for whoever is blocked, and has its wake *)
(* to come.                                                                *)
LEMMA BumpInv ==
  ASSUME CondInv, NEW t \in Threads, BumpStep(t)
  PROVE  Promises' /\ WakeIsDue' /\ BroadcastReachesAll'
<1>0. /\ CondTypeOK /\ SeenBefore /\ Promises /\ WakeIsDue /\ BroadcastReachesAll
  BY DEF CondInv
<1>1. /\ sequence' = sequence + 1 /\ sequence < MaxSignals /\ fifo' = fifo /\ seen' = seen
      /\ promised' = [promised EXCEPT ![sequence + 1] = Blocked]
      /\ \A x \in Threads \ {t} : pc'[x] = pc[x]
      /\ pc[t] = "idle"
      /\ \/ pc'[t] = "wakeOne" /\ broadcast' = broadcast
         \/ pc'[t] = "wakeAll"
  BY <1>0 DEF BumpStep, Signal, Broadcast, Bump, Goto, CondTypeOK
<1>2. Promises'
  <2> SUFFICES ASSUME NEW k \in 1 .. MaxSignals
      PROVE /\ promised'[k] # {} => k <= sequence'
            /\ \A u \in promised'[k] : pc'[u] \in BlockedSteps \union {"leave"} /\ seen'[u] < k
            /\ \A u \in Threads : pc'[u] = "asleep" /\ seen'[u] < k /\ promised'[k] # {} =>
                 u \in promised'[k]
    BY DEF Promises
  <2>1. CASE k = sequence + 1
    <3>1. promised'[k] = Blocked
      BY <1>0, <1>1, <2>1 DEF CondTypeOK
    <3> QED
      BY <1>0, <1>1, <2>1, <3>1 DEF Blocked, BlockedSteps, SeenBefore,
         CondTypeOK
  <2>2. CASE k # sequence + 1
    <3>1. promised'[k] = promised[k]
      BY <1>0, <1>1, <2>2 DEF CondTypeOK
    <3> QED
      BY <1>0, <1>1, <3>1, SMTT(30) DEF Promises, BlockedSteps, CondTypeOK
  <2> QED
    BY <2>1, <2>2
<1>3. WakeIsDue'
  BY <1>1 DEF WakeIsDue
<1>4. BroadcastReachesAll'
  BY <1>0, <1>1 DEF BroadcastReachesAll
<1> QED
  BY <1>2, <1>3, <1>4

(* The first in line has seen no more than any sleeper a signal was meant  *)
(* for: the signal was meant for it too.                                   *)
LEMMA WakeInv ==
  ASSUME CondInv, NEW t \in Threads, WakeStep(t)
  PROVE  Promises' /\ WakeIsDue' /\ BroadcastReachesAll'
<1>0. /\ CondTypeOK /\ SeenBefore /\ Line /\ Promises /\ WakeIsDue /\ BroadcastReachesAll
  BY DEF CondInv
<1>1. PICK woken \in SUBSET Asleep :
           /\ Wake(t, woken)
           /\ pc[t] = "wakeAll" => woken = Asleep
           /\ fifo /\ Asleep # {} => woken \intersect First # {} \/ woken = Asleep
           /\ pc[t] \in {"wakeOne", "wakeAll"}
  BY Woken
<1>2. /\ sequence' = sequence /\ broadcast' = broadcast /\ fifo' = fifo /\ seen' = seen
      /\ promised' = promised
      /\ \A x \in Threads : pc'[x] = IF x = t THEN "idle" ELSE IF x \in woken THEN "test" ELSE pc[x]
      /\ \A x \in woken : x \in Threads /\ pc[x] = "asleep"
  BY <1>1 DEF Wake, words, ghosts, Asleep
<1>3. Promises'
  BY <1>0, <1>1, <1>2 DEF Promises, BlockedSteps, CondTypeOK
<1>4. WakeIsDue'
  <2> SUFFICES ASSUME fifo, NEW k \in 1 .. MaxSignals, promised[k] # {}
               PROVE  \E u \in promised[k] : pc'[u] # "asleep"
    BY <1>2 DEF WakeIsDue
  <2>0. promised[k] \subseteq Threads
    BY <1>0 DEF CondTypeOK
  <2> SUFFICES ASSUME \A u \in promised[k] : pc[u] = "asleep"
               PROVE  \E u \in promised[k] : pc'[u] # "asleep"
    BY <1>2, <2>0
  <2>1. PICK u \in promised[k] : u \in Asleep /\ seen[u] < k
    BY <1>0 DEF Promises, Asleep, CondTypeOK
  <2>2. CASE woken = Asleep
    BY <1>2, <2>1, <2>2
  <2>3. ASSUME NEW z \in woken, z \in First PROVE pc'[z] # "asleep" /\ z \in promised[k]
    <3>1. z = u \/ <<z, u>> \in ahead
      BY <2>1, <2>3 DEF First
    <3>2. seen[z] <= seen[u] /\ z \in Threads /\ pc[z] = "asleep"
      BY <1>0, <1>2, <2>1, <3>1 DEF Line, CondTypeOK, Asleep
    <3>3. seen[z] < k
      BY <1>0, <2>1, <3>2, CondAssumption DEF CondTypeOK, Asleep
    <3> QED
      BY <1>0, <1>2, <3>2, <3>3 DEF Promises
  <2> QED
    BY <1>1, <2>1, <2>2, <2>3
<1>5. BroadcastReachesAll'
  BY <1>0, <1>1, <1>2 DEF BroadcastReachesAll, Asleep
<1> QED
  BY <1>3, <1>4, <1>5

(* Every step of the condition variable keeps the invariant.               *)
LEMMA CondStepInv == CondInv /\ [Next]_vars => CondInv'
<1> SUFFICES ASSUME CondInv, [Next]_vars PROVE CondInv'
  OBVIOUS
<1>1. CASE Next
  <2>1. PICK t \in Threads : \/ QuietStep(t) \/ SleepStep(t) \/ LeaveWait(t)
                             \/ BumpStep(t) \/ WakeStep(t)
    BY <1>1, NextSteps
  <2>2. WaitersCounted' /\ CondTypeOK' /\ SeenBefore' /\ Line'
    BY <2>1, CountStep, TypeStep, LineStep
  <2>3. Promises' /\ WakeIsDue' /\ BroadcastReachesAll'
    BY <2>1, StepMoves, MovesInv, LeaveInv, BumpInv, WakeInv
  <2> QED
    BY <2>2, <2>3 DEF CondInv
<1>2. CASE UNCHANGED vars
  BY <1>2 DEF vars, CondInv, CondTypeOK, SeenBefore, WaitersCounted, Line,
     Promises, WakeIsDue, BroadcastReachesAll
<1> QED
  BY <1>1, <1>2

(* The invariant implies that no wake is lost.                             *)
LEMMA CondSafe == CondInv => BroadcastReachesAll /\ SignalReleasesOne
<1> SUFFICES ASSUME CondInv, fifo, AtRest, NEW k \in 1 .. MaxSignals, promised[k] # {} PROVE FALSE
  BY DEF SignalReleasesOne, CondInv
<1> QED
  BY DEF CondInv, CondTypeOK, AtRest, WakeIsDue, Promises, BlockedSteps

(* The inductive invariant holds in every reachable state.                 *)
THEOREM CondInvariant == Spec => []CondInv
BY CondInitInv, CondStepInv, PTL DEF Spec

(* pthread_cond_destroy's EBUSY is exact on every path out of a wait:      *)
(* timeout, refusal and spurious return included.                          *)
THEOREM WaitersAreCounted == Spec => []WaitersCounted
<1>1. CondInv => WaitersCounted
  BY DEF CondInv
<1> QED
  BY <1>1, CondInvariant, PTL

(* No wake is lost: a broadcast leaves nobody asleep who waited before it, *)
(* and a signal ends the wait of one of the threads it was meant for.      *)
THEOREM NoWakeIsLost == Spec => [](BroadcastReachesAll /\ SignalReleasesOne)
BY CondSafe, CondInvariant, PTL
=============================================================================
