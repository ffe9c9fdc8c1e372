------------------------- MODULE PthreadMutexProofs -------------------------
(***************************************************************************)
(* Proofs about PthreadMutex for any set of threads, any handles with      *)
(* pairwise different low halves and any recursion bound.                  *)
(***************************************************************************)
EXTENDS PthreadMutex, TLAPS

(* A thread that is taking or giving back the mutex has it, the last level *)
(* of it when giving back; so does one about to unlock a normal mutex.     *)
HolderSteps ==
  \A t \in Threads :
    /\ pc[t] \in TakeSteps \union GiveSteps => held[t] = 1
    /\ pc[t] = "load" /\ type = "normal" => held[t] > 0
    /\ type # "recursive" => held[t] <= 1

(* The low owner word is the holder's from its SetOwnerLow to its          *)
(* ClearOwnerLow and nobody's otherwise; the high word is right whenever   *)
(* the holder is not rewriting it.                                         *)
OwnerWords ==
  \A t \in Threads :
    /\ ownerLow = LowWord[t] <=>
         held[t] > 0 /\ pc[t] \notin {"setLow", "clearHigh", "store"}
    /\ held[t] > 0 /\ pc[t] \notin {"setLow", "setHigh", "store"}
         => ownerHigh = HighWord[t]

(* The low half a thread has read is its own exactly when it is holder:    *)
(* only its own steps write that value or overwrite it.                    *)
LowHalfSeen ==
  \A t \in Threads : pc[t] \in {"lockReadHigh", "unlockReadHigh"} =>
    (lowSeen[t] = LowWord[t] <=> held[t] > 0)

(* CountIsDepth at every step outside taking and giving back.              *)
CountMatches ==
  \A t \in Threads : held[t] > 0 /\ pc[t] \notin TakeSteps \union GiveSteps
                       => count = held[t]

(* Only lock and timedlock wait.                                           *)
WaitersOp ==
  \A t \in Threads : pc[t] \in {"spin", "wait", "asleep"} => op[t] # "trylock"

IInv == /\ TypeOK /\ MutualExclusion /\ HolderSteps /\ OwnerWords
        /\ LowHalfSeen /\ CountMatches /\ WaitersOp /\ NoLostWakeup

USE DEF Steps, LockSteps, TakeSteps, UnlockSteps, GiveSteps, LockOps, words,
        Goto, Leave

(* The invariant holds in the state pthread_mutex_init leaves.             *)
LEMMA InitInvariant == Init => IInv
BY OwnerHalves DEF Init, IInv, TypeOK, MutualExclusion, HolderSteps, OwnerWords,
     LowHalfSeen, CountMatches, WaitersOp, NoLostWakeup, Asleep

(* Entering pthread_mutex_lock, _timedlock or _trylock keeps the invariant.*)
LEMMA LockCallInv ==
  ASSUME IInv, NEW t \in Threads, NEW o \in LockOps, LockCall(t, o)
  PROVE  IInv'
BY OwnerHalves DEF LockCall, IInv, TypeOK, MutualExclusion, HolderSteps, OwnerWords,
     LowHalfSeen, CountMatches, WaitersOp, NoLostWakeup, Asleep, Contending

(* So does the compare-exchange, whether it takes the state word or fails. *)
LEMMA CompareExchangeInv ==
  ASSUME IInv, NEW t \in Threads, CompareExchange(t)
  PROVE  IInv'
BY OwnerHalves DEF CompareExchange, IInv, TypeOK, MutualExclusion, HolderSteps, OwnerWords,
     LowHalfSeen, CountMatches, WaitersOp, NoLostWakeup, Asleep, Contending

(* So does the first half of mutex_owner, in lock and in unlock.           *)
LEMMA ReadOwnerLowInv ==
  ASSUME IInv, NEW t \in Threads, ReadOwnerLow(t)
  PROVE  IInv'
BY OwnerHalves DEF ReadOwnerLow, IInv, TypeOK, MutualExclusion, HolderSteps, OwnerWords,
     LowHalfSeen, CountMatches, WaitersOp, NoLostWakeup, Asleep, Contending

(* So does the owner comparison of a lock call: relock, EDEADLK or go on.  *)
LEMMA LockOwnerTestInv ==
  ASSUME IInv, NEW t \in Threads, LockOwnerTest(t)
  PROVE  IInv'
<1>1. TypeOK'
  BY OwnerHalves DEF IInv, LockOwnerTest, TypeOK
<1>2. MutualExclusion'
  <2>1. CASE held' = held
    BY <2>1 DEF IInv, LockOwnerTest, MutualExclusion
  <2>2. CASE held' = [held EXCEPT ![t] = @ + 1] /\ ReadsSelf(t)
    <3>1. held[t] > 0
      BY <2>2 DEF IInv, LockOwnerTest, LowHalfSeen, ReadsSelf
    <3>2. \A s \in Threads : held'[s] > 0 <=> held[s] > 0
      BY <2>2, <3>1 DEF IInv, TypeOK
    <3>. QED  BY <3>2 DEF IInv, LockOwnerTest, MutualExclusion
  <2>. QED  BY <2>1, <2>2 DEF LockOwnerTest
<1>3. HolderSteps'
  BY OwnerHalves DEF IInv, LockOwnerTest, HolderSteps, MutualExclusion, CountMatches, OwnerWords, LowHalfSeen, ReadsSelf, TypeOK
<1>4. OwnerWords'
  BY OwnerHalves DEF IInv, LockOwnerTest, OwnerWords, MutualExclusion, HolderSteps, LowHalfSeen, ReadsSelf, TypeOK
<1>5. LowHalfSeen'
  BY OwnerHalves DEF IInv, LockOwnerTest, LowHalfSeen, OwnerWords, HolderSteps, MutualExclusion, ReadsSelf, TypeOK
<1>6. CountMatches'
  BY OwnerHalves DEF IInv, LockOwnerTest, CountMatches, HolderSteps, MutualExclusion, LowHalfSeen, ReadsSelf, TypeOK
<1>7. WaitersOp'
  BY OwnerHalves DEF IInv, LockOwnerTest, WaitersOp, TypeOK
<1>8. NoLostWakeup'
  BY OwnerHalves DEF IInv, LockOwnerTest, NoLostWakeup, WaitersOp, Asleep, Contending, TypeOK
<1>. QED  BY <1>1, <1>2, <1>3, <1>4, <1>5, <1>6, <1>7, <1>8 DEF IInv

(* So does the relaxed load that guards the wait loop.                     *)
LEMMA SpinInv ==
  ASSUME IInv, NEW t \in Threads, Spin(t)
  PROVE  IInv'
BY OwnerHalves DEF Spin, IInv, TypeOK, MutualExclusion, HolderSteps, OwnerWords,
     LowHalfSeen, CountMatches, WaitersOp, NoLostWakeup, Asleep, Contending

(* So does __crt_wait32: it sleeps only on a locked word.                  *)
LEMMA WaitInv ==
  ASSUME IInv, NEW t \in Threads, Wait(t)
  PROVE  IInv'
<1>1. TypeOK'
  BY OwnerHalves DEF IInv, Wait, WaitSleeps, TypeOK
<1>2. MutualExclusion'
  BY OwnerHalves DEF IInv, Wait, WaitSleeps, MutualExclusion, TypeOK
<1>3. HolderSteps'
  BY OwnerHalves DEF IInv, Wait, WaitSleeps, HolderSteps, MutualExclusion, CountMatches, OwnerWords, LowHalfSeen, ReadsSelf, TypeOK
<1>4. OwnerWords'
  BY OwnerHalves DEF IInv, Wait, WaitSleeps, OwnerWords, MutualExclusion, HolderSteps, LowHalfSeen, ReadsSelf, TypeOK
<1>5. LowHalfSeen'
  BY OwnerHalves DEF IInv, Wait, WaitSleeps, LowHalfSeen, OwnerWords, HolderSteps, MutualExclusion, ReadsSelf, TypeOK
<1>6. CountMatches'
  BY OwnerHalves DEF IInv, Wait, WaitSleeps, CountMatches, HolderSteps, MutualExclusion, LowHalfSeen, ReadsSelf, TypeOK
<1>7. WaitersOp'
  BY OwnerHalves DEF IInv, Wait, WaitSleeps, WaitersOp, TypeOK
<1>8. NoLostWakeup'
  BY OwnerHalves DEF IInv, Wait, WaitSleeps, NoLostWakeup, WaitersOp, Asleep, Contending, TypeOK
<1>. QED  BY <1>1, <1>2, <1>3, <1>4, <1>5, <1>6, <1>7, <1>8 DEF IInv

(* So does a wait that returns without a wake.                             *)
LEMMA SpuriousReturnInv ==
  ASSUME IInv, NEW t \in Threads, SpuriousReturn(t)
  PROVE  IInv'
BY OwnerHalves DEF SpuriousReturn, IInv, TypeOK, MutualExclusion, HolderSteps, OwnerWords,
     LowHalfSeen, CountMatches, WaitersOp, NoLostWakeup, Asleep, Contending

(* So does a wait that ends pthread_mutex_timedlock with ETIMEDOUT.        *)
LEMMA WaitTimesOutInv ==
  ASSUME IInv, NEW t \in Threads, WaitTimesOut(t)
  PROVE  IInv'
BY OwnerHalves DEF WaitTimesOut, IInv, TypeOK, MutualExclusion, HolderSteps, OwnerWords,
     LowHalfSeen, CountMatches, WaitersOp, NoLostWakeup, Asleep, Contending

(* So does the first store of set_mutex_owner, by the new holder.          *)
LEMMA SetOwnerLowInv ==
  ASSUME IInv, NEW t \in Threads, SetOwnerLow(t)
  PROVE  IInv'
<1>1. TypeOK'
  BY OwnerHalves DEF IInv, SetOwnerLow, TypeOK
<1>2. MutualExclusion'
  BY OwnerHalves DEF IInv, SetOwnerLow, MutualExclusion, TypeOK
<1>3. HolderSteps'
  BY OwnerHalves DEF IInv, SetOwnerLow, HolderSteps, MutualExclusion, CountMatches, OwnerWords, LowHalfSeen, ReadsSelf, TypeOK
<1>4. OwnerWords'
  BY OwnerHalves DEF IInv, SetOwnerLow, OwnerWords, MutualExclusion, HolderSteps, LowHalfSeen, ReadsSelf, TypeOK
<1>5. LowHalfSeen'
  BY OwnerHalves DEF IInv, SetOwnerLow, LowHalfSeen, OwnerWords, HolderSteps, MutualExclusion, ReadsSelf, TypeOK
<1>6. CountMatches'
  BY OwnerHalves DEF IInv, SetOwnerLow, CountMatches, HolderSteps, MutualExclusion, LowHalfSeen, ReadsSelf, TypeOK
<1>7. WaitersOp'
  BY OwnerHalves DEF IInv, SetOwnerLow, WaitersOp, TypeOK
<1>8. NoLostWakeup'
  BY OwnerHalves DEF IInv, SetOwnerLow, NoLostWakeup, WaitersOp, Asleep, Contending, TypeOK
<1>. QED  BY <1>1, <1>2, <1>3, <1>4, <1>5, <1>6, <1>7, <1>8 DEF IInv

(* So do its second store and the count a lock call returns with.          *)
LEMMA SetOwnerHighInv ==
  ASSUME IInv, NEW t \in Threads, SetOwnerHigh(t)
  PROVE  IInv'
<1>1. TypeOK'
  BY OwnerHalves DEF IInv, SetOwnerHigh, TypeOK
<1>2. MutualExclusion'
  BY OwnerHalves DEF IInv, SetOwnerHigh, MutualExclusion, TypeOK
<1>3. HolderSteps'
  BY OwnerHalves DEF IInv, SetOwnerHigh, HolderSteps, MutualExclusion, CountMatches, OwnerWords, LowHalfSeen, ReadsSelf, TypeOK
<1>4. OwnerWords'
  BY OwnerHalves DEF IInv, SetOwnerHigh, OwnerWords, MutualExclusion, HolderSteps, LowHalfSeen, ReadsSelf, TypeOK
<1>5. LowHalfSeen'
  BY OwnerHalves DEF IInv, SetOwnerHigh, LowHalfSeen, OwnerWords, HolderSteps, MutualExclusion, ReadsSelf, TypeOK
<1>6. CountMatches'
  BY OwnerHalves DEF IInv, SetOwnerHigh, CountMatches, HolderSteps, MutualExclusion, LowHalfSeen, ReadsSelf, TypeOK
<1>7. WaitersOp'
  BY OwnerHalves DEF IInv, SetOwnerHigh, WaitersOp, TypeOK
<1>8. NoLostWakeup'
  BY OwnerHalves DEF IInv, SetOwnerHigh, NoLostWakeup, WaitersOp, Asleep, Contending, TypeOK
<1>. QED  BY <1>1, <1>2, <1>3, <1>4, <1>5, <1>6, <1>7, <1>8 DEF IInv

(* So does entering pthread_mutex_unlock.                                  *)
LEMMA UnlockCallInv ==
  ASSUME IInv, NEW t \in Threads, UnlockCall(t)
  PROVE  IInv'
BY OwnerHalves DEF UnlockCall, IInv, TypeOK, MutualExclusion, HolderSteps, OwnerWords,
     LowHalfSeen, CountMatches, WaitersOp, NoLostWakeup, Asleep, Contending

(* So does the load of the state word in pthread_mutex_unlock.             *)
LEMMA UnlockLoadInv ==
  ASSUME IInv, NEW t \in Threads, UnlockLoad(t)
  PROVE  IInv'
BY OwnerHalves DEF UnlockLoad, IInv, TypeOK, MutualExclusion, HolderSteps, OwnerWords,
     LowHalfSeen, CountMatches, WaitersOp, NoLostWakeup, Asleep, Contending

(* Three outcomes: refused, one level given back, or the last level about  *)
(* to be given back.                                                       *)
LEMMA UnlockOwnerTestInv ==
  ASSUME IInv, NEW t \in Threads, UnlockOwnerTest(t)
  PROVE  IInv'
<1>1. /\ pc[t] = "unlockReadHigh" /\ UNCHANGED <<type, ownerLow, ownerHigh, state>>
      /\ \A s \in Threads : s # t => pc'[s] = pc[s] /\ op'[s] = op[s] /\ lowSeen'[s] = lowSeen[s]
      /\ op' \in [Threads -> LockOps \union {"none"}] /\ lowSeen' \in [Threads -> Nat]
      /\ pc' \in [Threads -> Steps]
  BY DEF UnlockOwnerTest, IInv, TypeOK
<1>2. ReadsSelf(t) => held[t] > 0 /\ count = held[t]
  BY <1>1 DEF IInv, LowHalfSeen, CountMatches, ReadsSelf
<1>3. CASE UNCHANGED <<count, held>> /\ pc'[t] = "idle"
  BY <1>1, <1>3 DEF IInv, TypeOK, MutualExclusion, HolderSteps, OwnerWords,
       LowHalfSeen, CountMatches, WaitersOp, NoLostWakeup, Asleep, Contending
<1>4. CASE /\ ReadsSelf(t) /\ type = "recursive" /\ count > 1 /\ pc'[t] = "idle"
           /\ count' = count - 1 /\ held' = [held EXCEPT ![t] = @ - 1]
  <2>1. /\ held' \in [Threads -> Nat] /\ count' \in Nat /\ held'[t] = count'
        /\ \A s \in Threads : held'[s] > 0 <=> held[s] > 0
        /\ \A s \in Threads : s # t => held'[s] = held[s]
    BY <1>2, <1>4 DEF IInv, TypeOK
  <2>2. TypeOK' /\ MutualExclusion' /\ HolderSteps'
    BY <1>1, <1>4, <2>1 DEF IInv, TypeOK, MutualExclusion, HolderSteps
  <2>3. OwnerWords' /\ LowHalfSeen'
    BY <1>1, <1>2, <1>4, <2>1 DEF IInv, OwnerWords, LowHalfSeen
  <2>4. CountMatches'
    BY <1>1, <1>2, <1>4, <2>1 DEF IInv, CountMatches, MutualExclusion, TypeOK
  <2>5. WaitersOp' /\ NoLostWakeup'
    BY <1>1, <1>4 DEF IInv, WaitersOp, NoLostWakeup, Asleep, Contending
  <2>. QED  BY <2>2, <2>3, <2>4, <2>5 DEF IInv
<1>5. CASE /\ ReadsSelf(t) /\ ~ (type = "recursive" /\ count > 1)
           /\ pc'[t] = "clearLow" /\ count' = 0 /\ UNCHANGED held
  <2>1. held[t] = 1 /\ \A s \in Threads : held[s] > 0 => s = t
    BY <1>2, <1>5 DEF IInv, TypeOK, HolderSteps, MutualExclusion
  <2>2. TypeOK' /\ MutualExclusion' /\ HolderSteps'
    BY <1>1, <1>5, <2>1 DEF IInv, TypeOK, MutualExclusion, HolderSteps
  <2>3. OwnerWords' /\ LowHalfSeen' /\ CountMatches'
    BY <1>1, <1>5, <2>1 DEF IInv, OwnerWords, LowHalfSeen, CountMatches
  <2>4. WaitersOp' /\ NoLostWakeup'
    BY <1>1, <1>5 DEF IInv, WaitersOp, NoLostWakeup, Asleep, Contending
  <2>. QED  BY <2>2, <2>3, <2>4 DEF IInv
<1>6. pc'[t] \in {"idle", "clearLow"} /\ (pc'[t] = "clearLow" => ReadsSelf(t))
  BY DEF UnlockOwnerTest, IInv, TypeOK
<1>. QED  BY <1>3, <1>4, <1>5, <1>6 DEF UnlockOwnerTest, IInv, TypeOK

(* So does the first store of clear_mutex_owner.                           *)
LEMMA ClearOwnerLowInv ==
  ASSUME IInv, NEW t \in Threads, ClearOwnerLow(t)
  PROVE  IInv'
<1>1. TypeOK'
  BY OwnerHalves DEF IInv, ClearOwnerLow, TypeOK
<1>2. MutualExclusion'
  BY OwnerHalves DEF IInv, ClearOwnerLow, MutualExclusion, TypeOK
<1>3. HolderSteps'
  BY OwnerHalves DEF IInv, ClearOwnerLow, HolderSteps, MutualExclusion, CountMatches, OwnerWords, LowHalfSeen, ReadsSelf, TypeOK
<1>4. OwnerWords'
  <2>1. ownerLow' = 0 /\ \A s \in Threads : LowWord[s] # 0
    BY OwnerHalves DEF ClearOwnerLow
  <2>2. \A s \in Threads : s # t => held[s] = 0 /\ pc'[s] = pc[s]
    BY DEF IInv, ClearOwnerLow, MutualExclusion, HolderSteps, TypeOK
  <2>3. held[t] = 1 /\ pc'[t] = "clearHigh" /\ held' = held /\ ownerHigh' = ownerHigh
    BY DEF IInv, ClearOwnerLow, HolderSteps, TypeOK
  <2>. QED  BY <2>1, <2>2, <2>3 DEF IInv, OwnerWords, ClearOwnerLow
<1>5. LowHalfSeen'
  BY OwnerHalves DEF IInv, ClearOwnerLow, LowHalfSeen, OwnerWords, HolderSteps, MutualExclusion, ReadsSelf, TypeOK
<1>6. CountMatches'
  BY OwnerHalves DEF IInv, ClearOwnerLow, CountMatches, HolderSteps, MutualExclusion, LowHalfSeen, ReadsSelf, TypeOK
<1>7. WaitersOp'
  BY OwnerHalves DEF IInv, ClearOwnerLow, WaitersOp, TypeOK
<1>8. NoLostWakeup'
  BY OwnerHalves DEF IInv, ClearOwnerLow, NoLostWakeup, WaitersOp, Asleep, Contending, TypeOK
<1>. QED  BY <1>1, <1>2, <1>3, <1>4, <1>5, <1>6, <1>7, <1>8 DEF IInv

(* So does its second store.                                               *)
LEMMA ClearOwnerHighInv ==
  ASSUME IInv, NEW t \in Threads, ClearOwnerHigh(t)
  PROVE  IInv'
BY OwnerHalves DEF ClearOwnerHigh, IInv, TypeOK, MutualExclusion, HolderSteps, OwnerWords,
     LowHalfSeen, CountMatches, WaitersOp, NoLostWakeup, Asleep, Contending

(* So does the release store that frees the mutex before its wake.         *)
LEMMA UnlockStoreInv ==
  ASSUME IInv, NEW t \in Threads, UnlockStore(t)
  PROVE  IInv'
BY OwnerHalves DEF UnlockStore, IInv, TypeOK, MutualExclusion, HolderSteps, OwnerWords,
     LowHalfSeen, CountMatches, WaitersOp, NoLostWakeup, Asleep, Contending

(* The woken thread was asleep, so it leaves the wait with nothing held    *)
(* but its place in the loop, and takes over the duty to try again.        *)
LEMMA UnlockWakeInv ==
  ASSUME IInv, NEW t \in Threads, UnlockWake(t)
  PROVE  IInv'
<1>1. PICK woken \in WakeOne(Asleep) :
        pc' = [s \in Threads |-> IF s = t THEN "idle"
                                 ELSE IF s \in woken THEN "spin" ELSE pc[s]]
  BY DEF UnlockWake
<1>2. /\ pc[t] = "wake" /\ UNCHANGED <<words, state, op, lowSeen, held>>
      /\ \A s \in woken : s \in Threads /\ pc[s] = "asleep"
      /\ Asleep # {} => woken # {}
  BY DEF UnlockWake, WakeOne, Asleep
<1>3. \A s \in Threads :
        \/ pc'[s] = pc[s] /\ s # t /\ s \notin woken
        \/ pc'[s] = "idle" /\ pc[s] = "wake" /\ s = t
        \/ pc'[s] = "spin" /\ pc[s] = "asleep" /\ s \in woken
  BY <1>1, <1>2
<1>4. TypeOK'
  BY <1>1, <1>2 DEF IInv, TypeOK
<1>5. MutualExclusion' /\ HolderSteps' /\ LowHalfSeen'
  BY <1>2, <1>3 DEF IInv, MutualExclusion, HolderSteps, LowHalfSeen
<1>6. OwnerWords'
  BY <1>2, <1>3 DEF IInv, OwnerWords
<1>7. CountMatches'
  BY <1>2, <1>3 DEF IInv, CountMatches
<1>8. WaitersOp'
  BY <1>2, <1>3 DEF IInv, WaitersOp
<1>9. NoLostWakeup'
  <2>1. SUFFICES ASSUME Asleep' # {}
                 PROVE  \E s \in Threads : Contending(s)'
    BY DEF NoLostWakeup
  <2>2. PICK s \in Threads : pc[s] = "asleep"
    BY <1>3, <2>1 DEF Asleep
  <2>3. PICK u \in woken : u \in Threads /\ u # t
    BY <1>2, <2>2 DEF Asleep
  <2>4. pc'[u] = "spin" /\ op'[u] # "trylock"
    BY <1>1, <1>8, <2>3 DEF WaitersOp
  <2>. QED  BY <2>3, <2>4 DEF Contending
<1>. QED  BY <1>4, <1>5, <1>6, <1>7, <1>8, <1>9 DEF IInv

(* Every step of every call keeps the invariant.                           *)
LEMMA StepInvariant == IInv /\ [Next]_vars => IInv'
<1> SUFFICES ASSUME IInv, [Next]_vars PROVE IInv'
  OBVIOUS
<1>1. CASE UNCHANGED vars
  BY <1>1 DEF vars, IInv, TypeOK, MutualExclusion, HolderSteps, OwnerWords,
       LowHalfSeen, CountMatches, WaitersOp, NoLostWakeup, Asleep, Contending
<1>2. ASSUME NEW t \in Threads, LockStep(t) PROVE IInv'
  BY <1>2, LockOwnerTestInv, CompareExchangeInv, SpinInv, WaitInv,
     SetOwnerLowInv, SetOwnerHighInv DEF LockStep
<1>3. ASSUME NEW t \in Threads, UnlockStep(t) PROVE IInv'
  BY <1>3, UnlockLoadInv, UnlockOwnerTestInv, ClearOwnerLowInv,
     ClearOwnerHighInv, UnlockStoreInv, UnlockWakeInv DEF UnlockStep
<1>. QED
  BY <1>1, <1>2, <1>3, LockCallInv, UnlockCallInv, SpuriousReturnInv,
     WaitTimesOutInv, ReadOwnerLowInv DEF Next, Run

(* IInv holds in every state of pthread_mutex_*.                           *)
LEMMA Invariant == Spec => []IInv
BY InitInvariant, StepInvariant, PTL DEF Spec

(* Mutual exclusion of pthread_mutex_lock/trylock/timedlock, and a locked  *)
(* word exactly while some caller holds the mutex, for every mutex type.   *)
THEOREM MutexExcludes == Spec => []MutualExclusion
<1>1. IInv => MutualExclusion  BY DEF IInv
<1>. QED  BY <1>1, Invariant, PTL

(* The words keep their types.                                             *)
THEOREM MutexTyped == Spec => []TypeOK
<1>1. IInv => TypeOK  BY DEF IInv
<1>. QED  BY <1>1, Invariant, PTL

(* The two-word owner test never misjudges its caller, although it is not  *)
(* atomic: different low halves suffice.                                   *)
THEOREM OwnerTestIsExact == Spec => []OwnerTestExact
<1>1. IInv => OwnerTestExact
  BY DEF IInv, OwnerTestExact, LowHalfSeen, OwnerWords, ReadsSelf
<1>. QED  BY <1>1, Invariant, PTL

(* A recursive mutex is released by the last matching unlock.              *)
THEOREM CountIsCallersDepth == Spec => []CountIsDepth
<1>1. IInv => CountIsDepth
  BY DEF IInv, CountIsDepth, CountMatches
<1>. QED  BY <1>1, Invariant, PTL

(* No wakeup is lost between the release store and __crt_wake32_one.       *)
THEOREM WakeupsAreNotLost == Spec => []NoLostWakeup
<1>1. IInv => NoLostWakeup  BY DEF IInv
<1>. QED  BY <1>1, Invariant, PTL

-----------------------------------------------------------------------------
(* A step of the code is a step of MutexSpec or leaves the holders alone.  *)
LEMMA StepRefines == IInv /\ [Next]_vars => [Abstract!Next]_(Abstract!vars)
<1> SUFFICES ASSUME IInv, [Next]_vars
             PROVE  [Abstract!Next]_(Abstract!vars)
  OBVIOUS
<1> USE DEF Abstract!vars
<1>1. CASE UNCHANGED vars
  BY <1>1 DEF vars
<1>2. ASSUME NEW t \in Threads, LockOwnerTest(t)
      PROVE  Abstract!Reacquire(t) \/ UNCHANGED <<type, held>>
  BY <1>2 DEF LockOwnerTest, Abstract!Reacquire, IInv, LowHalfSeen, ReadsSelf
<1>3. ASSUME NEW t \in Threads, CompareExchange(t)
      PROVE  Abstract!Acquire(t) \/ UNCHANGED <<type, held>>
  BY <1>3 DEF CompareExchange, Abstract!Acquire, IInv, MutualExclusion, TypeOK
<1>4. ASSUME NEW t \in Threads, UnlockOwnerTest(t)
      PROVE  Abstract!Release(t) \/ UNCHANGED <<type, held>>
  BY <1>4 DEF UnlockOwnerTest, Abstract!Release, IInv, LowHalfSeen, ReadsSelf
<1>5. ASSUME NEW t \in Threads, UnlockStore(t)
      PROVE  Abstract!Release(t)
  <2>1. held[t] = 1 /\ held[t] - 1 = 0
    BY <1>5 DEF UnlockStore, IInv, HolderSteps
  <2>2. held' = [held EXCEPT ![t] = held[t] - 1]
    BY <1>5, <2>1, Zenon DEF UnlockStore
  <2>. QED  BY <1>5, <2>1, <2>2 DEF UnlockStore, Abstract!Release
<1>6. ASSUME NEW t \in Threads,
             \/ \E o \in LockOps : LockCall(t, o)
             \/ UnlockCall(t) \/ SpuriousReturn(t) \/ WaitTimesOut(t)
             \/ ReadOwnerLow(t) \/ Spin(t) \/ Wait(t) \/ SetOwnerLow(t)
             \/ SetOwnerHigh(t) \/ UnlockLoad(t) \/ ClearOwnerLow(t)
             \/ ClearOwnerHigh(t) \/ UnlockWake(t)
      PROVE  UNCHANGED <<type, held>>
  BY <1>6 DEF LockCall, UnlockCall, SpuriousReturn, WaitTimesOut, ReadOwnerLow,
       Spin, Wait, SetOwnerLow, SetOwnerHigh, UnlockLoad, ClearOwnerLow,
       ClearOwnerHigh, UnlockWake
<1>. QED
  BY <1>1, <1>2, <1>3, <1>4, <1>5, <1>6
     DEF Next, Run, LockStep, UnlockStep, Abstract!Next

(* The code implements the abstract mutex.                                 *)
THEOREM Implements == Spec => ImplementsMutexSpec
<1>1. Init => Abstract!Init
  BY DEF Init, Abstract!Init, Abstract!MutexTypes
<1>. QED
  BY <1>1, Invariant, StepRefines, PTL DEF Spec, ImplementsMutexSpec, Abstract!Spec
=============================================================================
