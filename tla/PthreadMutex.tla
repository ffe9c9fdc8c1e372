---------------------------- MODULE PthreadMutex ----------------------------
(***************************************************************************)
(* pthread_mutex_* of libc/src/pthread.c at the grain of its memory        *)
(* accesses: the state word that lock and unlock contend on, the count,    *)
(* and the owner handle kept in two 32-bit words that are written and read *)
(* one after the other with plain, unsynchronised accesses.                *)
(*                                                                         *)
(* A thread runs one call at a time; pc[t] names the next access of that   *)
(* call and "idle" is the thread between two calls.  held is the callers'  *)
(* view of who has the mutex, updated where a call decides its outcome.    *)
(***************************************************************************)
EXTENDS Naturals, CrtWait

CONSTANTS Threads,    (* threads sharing the mutex                         *)
          LowWord,    (* LowWord[t], HighWord[t]: the two halves of the    *)
          HighWord,   (*   pthread_t of t                                  *)
          MaxDepth    (* bound on the recursion count a caller builds up   *)

(* A zero half is what clear_mutex_owner writes.  Handles are addresses of *)
(* control blocks (or the initial thread's tid): the code relies on no two *)
(* of them agreeing in their low half, since a reader may see halves of    *)
(* two different owners.                                                   *)
ASSUME OwnerHalves ==
  /\ LowWord \in [Threads -> Nat \ {0}]
  /\ HighWord \in [Threads -> Nat]
  /\ \A s, t \in Threads : LowWord[s] = LowWord[t] => s = t

ASSUME DepthBound == MaxDepth \in Nat \ {0}

VARIABLES type,       (* CRT_MUTEX_TYPE_WORD, fixed by pthread_mutex_init  *)
          state,      (* CRT_MUTEX_STATE_WORD: 0 free, 1 locked            *)
          count,      (* CRT_MUTEX_COUNT_WORD                              *)
          ownerLow,   (* CRT_MUTEX_OWNER_LOW_WORD                          *)
          ownerHigh,  (* CRT_MUTEX_OWNER_HIGH_WORD                         *)
          pc, op,     (* where each thread is, and in which call           *)
          lowSeen,    (* low half a thread has read in mutex_owner         *)
          held        (* held[t]: how many times t has the mutex locked     *)

words == <<type, count, ownerLow, ownerHigh>>
vars == <<type, state, count, ownerLow, ownerHigh, pc, op, lowSeen, held>>

LockOps == {"lock", "timedlock", "trylock"}

LockSteps == {"lockReadLow", "lockReadHigh", "cas", "spin", "wait", "asleep"}
TakeSteps == {"setLow", "setHigh"}
UnlockSteps == {"load", "unlockReadLow", "unlockReadHigh"}
GiveSteps == {"clearLow", "clearHigh", "store"}
Steps == {"idle", "wake"} \union LockSteps \union TakeSteps
           \union UnlockSteps \union GiveSteps

Asleep == {t \in Threads : pc[t] = "asleep"}

Init ==
  /\ type \in {"normal", "recursive", "errorcheck"}
  /\ state = 0 /\ count = 0 /\ ownerLow = 0 /\ ownerHigh = 0
  /\ pc = [t \in Threads |-> "idle"]
  /\ op = [t \in Threads |-> "none"]
  /\ lowSeen = [t \in Threads |-> 0]
  /\ held = [t \in Threads |-> 0]

(* The call of t goes on at a step, keeping its locals...                  *)
Goto(t, step) == pc' = [pc EXCEPT ![t] = step] /\ UNCHANGED <<op, lowSeen>>

(* ... or at a step where they are no longer needed.                       *)
Leave(t, step) ==
  /\ pc' = [pc EXCEPT ![t] = step]
  /\ op' = [op EXCEPT ![t] = "none"]
  /\ lowSeen' = [lowSeen EXCEPT ![t] = 0]

-----------------------------------------------------------------------------
(* pthread_mutex_lock, _timedlock and _trylock                             *)

(* A caller enters a lock call.  Locking a normal mutex one already holds  *)
(* would deadlock the caller, so no caller does; it may still try.         *)
LockCall(t, o) ==
  /\ pc[t] = "idle" /\ held[t] < MaxDepth
  /\ type = "normal" /\ o # "trylock" => held[t] = 0
  /\ op' = [op EXCEPT ![t] = o]
  /\ pc' = [pc EXCEPT ![t] = IF type = "normal" THEN "cas" ELSE "lockReadLow"]
  /\ UNCHANGED <<words, state, lowSeen, held>>

(* mutex_owner reads the low word first, the high word in a later step.    *)
ReadOwnerLow(t) ==
  /\ \/ pc[t] = "lockReadLow" /\ pc' = [pc EXCEPT ![t] = "lockReadHigh"]
     \/ pc[t] = "unlockReadLow" /\ pc' = [pc EXCEPT ![t] = "unlockReadHigh"]
  /\ lowSeen' = [lowSeen EXCEPT ![t] = ownerLow]
  /\ UNCHANGED <<words, state, op, held>>

(* mutex_owner(mutex) == self, once the high word is read as well.         *)
ReadsSelf(t) == lowSeen[t] = LowWord[t] /\ ownerHigh = HighWord[t]

(* The owner comparison of a lock call: the owner of a recursive mutex     *)
(* counts up, the owner of an error-checking one gets EDEADLK (EBUSY from  *)
(* trylock), anybody else goes on to the compare-exchange.                 *)
LockOwnerTest(t) ==
  /\ pc[t] = "lockReadHigh"
  /\ \/ ~ ReadsSelf(t) /\ Goto(t, "cas") /\ UNCHANGED <<count, held>>
     \/ /\ ReadsSelf(t) /\ type = "recursive"
        /\ count' = count + 1 /\ held' = [held EXCEPT ![t] = @ + 1]
        /\ Leave(t, "idle")
     \/ /\ ReadsSelf(t) /\ type = "errorcheck"
        /\ Leave(t, "idle") /\ UNCHANGED <<count, held>>
  /\ UNCHANGED <<type, ownerLow, ownerHigh, state>>

(* Fault: the state word is set without looking at its value.              *)
CompareExchangeBlind(t) ==
  /\ pc[t] = "cas"
  /\ state' = 1 /\ held' = [held EXCEPT ![t] = 1] /\ Leave(t, "setLow")
  /\ UNCHANGED words

(* Fault: the word is taken with a fetch-add, which also counts losers.     *)
CompareExchangeAdd(t) ==
  /\ pc[t] = "cas" /\ state' = state + 1
  /\ \/ /\ state = 0
        /\ held' = [held EXCEPT ![t] = 1] /\ Leave(t, "setLow")
     \/ /\ state # 0 /\ op[t] # "trylock"
        /\ Goto(t, "spin") /\ UNCHANGED held
     \/ /\ state # 0 /\ op[t] = "trylock"
        /\ Leave(t, "idle") /\ UNCHANGED held
  /\ UNCHANGED words

(* The compare-exchange 0 -> 1; trylock returns EBUSY when it fails.       *)
CompareExchange(t) ==
  /\ pc[t] = "cas"
  /\ \/ /\ state = 0 /\ state' = 1
        /\ held' = [held EXCEPT ![t] = 1] /\ Leave(t, "setLow")
     \/ /\ state # 0 /\ op[t] # "trylock"
        /\ Goto(t, "spin") /\ UNCHANGED <<state, held>>
     \/ /\ state # 0 /\ op[t] = "trylock"
        /\ Leave(t, "idle") /\ UNCHANGED <<state, held>>
  /\ UNCHANGED words

(* The relaxed load that guards the wait loop.  pthread_mutex_timedlock    *)
(* looks at its deadline before each wait; time is not modelled, so the    *)
(* deadline may have passed whenever it is looked at (ETIMEDOUT).          *)
Spin(t) ==
  /\ pc[t] = "spin"
  /\ \/ state = 0 /\ Goto(t, "cas")
     \/ state # 0 /\ Goto(t, "wait")
     \/ state # 0 /\ op[t] = "timedlock" /\ Leave(t, "idle")
  /\ UNCHANGED <<words, state, held>>

(* __crt_wait32(&state, 1).                                                *)
Wait(t) ==
  /\ pc[t] = "wait"
  /\ Goto(t, IF WaitSleeps(state, 1) THEN "asleep" ELSE "spin")
  /\ UNCHANGED <<words, state, held>>

(* A wait returns without a wake (EINTR, EAGAIN, a signal)...              *)
SpuriousReturn(t) ==
  /\ pc[t] = "asleep" /\ Goto(t, "spin")
  /\ UNCHANGED <<words, state, held>>

(* ... or at its deadline, which ends the call with ETIMEDOUT.             *)
WaitTimesOut(t) ==
  /\ pc[t] = "asleep" /\ op[t] = "timedlock" /\ Leave(t, "idle")
  /\ UNCHANGED <<words, state, held>>

(* set_mutex_owner, low word.                                              *)
SetOwnerLow(t) ==
  /\ pc[t] = "setLow"
  /\ ownerLow' = LowWord[t] /\ Goto(t, "setHigh")
  /\ UNCHANGED <<type, state, count, ownerHigh, held>>

(* Fault: the count of the previous owner is left in place.                *)
SetOwnerHighKeepCount(t) ==
  /\ pc[t] = "setHigh"
  /\ ownerHigh' = HighWord[t] /\ Goto(t, "idle")
  /\ UNCHANGED <<type, state, count, ownerLow, held>>

(* set_mutex_owner, high word, and the count: the lock call returns 0.     *)
SetOwnerHigh(t) ==
  /\ pc[t] = "setHigh"
  /\ ownerHigh' = HighWord[t] /\ count' = 1 /\ Goto(t, "idle")
  /\ UNCHANGED <<type, state, ownerLow, held>>

-----------------------------------------------------------------------------
(* pthread_mutex_unlock                                                    *)

(* Any thread may call it on an owner-checked mutex; unlocking a normal    *)
(* mutex one does not hold is undefined, so no caller does.                *)
UnlockCall(t) ==
  /\ pc[t] = "idle"
  /\ type = "normal" => held[t] > 0
  /\ Goto(t, "load")
  /\ UNCHANGED <<words, state, held>>

(* The state is loaded: unlocking a free mutex is EPERM, a normal mutex is *)
(* given back without an owner test.                                       *)
UnlockLoad(t) ==
  /\ pc[t] = "load"
  /\ \/ state = 0 /\ Leave(t, "idle") /\ UNCHANGED count
     \/ state # 0 /\ type # "normal" /\ Goto(t, "unlockReadLow") /\ UNCHANGED count
     \/ state # 0 /\ type = "normal" /\ Goto(t, "clearLow") /\ count' = 0
  /\ UNCHANGED <<type, ownerLow, ownerHigh, state, held>>

(* Fault: nested locks of a recursive mutex are not counted down.          *)
UnlockOwnerTestNoNesting(t) ==
  /\ pc[t] = "unlockReadHigh"
  /\ \/ ~ ReadsSelf(t) /\ Leave(t, "idle") /\ UNCHANGED count
     \/ ReadsSelf(t) /\ Leave(t, "clearLow") /\ count' = 0
  /\ UNCHANGED <<type, ownerLow, ownerHigh, state, held>>

(* Only the owner goes on, others get EPERM; a nested lock of a recursive  *)
(* mutex is only counted down.                                             *)
UnlockOwnerTest(t) ==
  /\ pc[t] = "unlockReadHigh"
  /\ \/ ~ ReadsSelf(t) /\ Leave(t, "idle") /\ UNCHANGED <<count, held>>
     \/ /\ ReadsSelf(t) /\ type = "recursive" /\ count > 1
        /\ count' = count - 1 /\ held' = [held EXCEPT ![t] = @ - 1]
        /\ Leave(t, "idle")
     \/ /\ ReadsSelf(t) /\ ~ (type = "recursive" /\ count > 1)
        /\ count' = 0 /\ Leave(t, "clearLow") /\ UNCHANGED held
  /\ UNCHANGED <<type, ownerLow, ownerHigh, state>>

(* Fault: the owner words are left to the next owner to overwrite.         *)
KeepOwnerLow(t) ==
  /\ pc[t] = "clearLow" /\ Goto(t, "clearHigh")
  /\ UNCHANGED <<words, state, held>>

(* clear_mutex_owner, low word then high word.                             *)
ClearOwnerLow(t) ==
  /\ pc[t] = "clearLow"
  /\ ownerLow' = 0 /\ Goto(t, "clearHigh")
  /\ UNCHANGED <<type, state, count, ownerHigh, held>>

ClearOwnerHigh(t) ==
  /\ pc[t] = "clearHigh"
  /\ ownerHigh' = 0 /\ Goto(t, "store")
  /\ UNCHANGED <<type, state, count, ownerLow, held>>

(* The release store of 0: the mutex is free from here on.                 *)
UnlockStore(t) ==
  /\ pc[t] = "store"
  /\ state' = 0 /\ held' = [held EXCEPT ![t] = 0] /\ Goto(t, "wake")
  /\ UNCHANGED words

(* Fault: unlock returns without waking a sleeper.                         *)
UnlockNoWake(t) ==
  /\ pc[t] = "wake" /\ Goto(t, "idle")
  /\ UNCHANGED <<words, state, held>>

(* __crt_wake32_one: one sleeper, if any, resumes its wait loop.           *)
UnlockWake(t) ==
  /\ pc[t] = "wake"
  /\ \E woken \in WakeOne(Asleep) :
       pc' = [s \in Threads |-> IF s = t THEN "idle"
                                ELSE IF s \in woken THEN "spin" ELSE pc[s]]
  /\ UNCHANGED <<words, state, op, lowSeen, held>>

-----------------------------------------------------------------------------
LockStep(t) == \/ LockOwnerTest(t) \/ CompareExchange(t) \/ Spin(t) \/ Wait(t)
               \/ SetOwnerLow(t) \/ SetOwnerHigh(t)
UnlockStep(t) == \/ UnlockLoad(t) \/ UnlockOwnerTest(t) \/ ClearOwnerLow(t)
                 \/ ClearOwnerHigh(t) \/ UnlockStore(t) \/ UnlockWake(t)

(* A step the scheduler owes a thread that is inside a call and runnable.  *)
Run(t) == ReadOwnerLow(t) \/ LockStep(t) \/ UnlockStep(t)

Next ==
  \E t \in Threads :
    \/ \E o \in LockOps : LockCall(t, o)
    \/ UnlockCall(t)
    \/ SpuriousReturn(t) \/ WaitTimesOut(t)
    \/ Run(t)

(* Every runnable thread is scheduled.  Nothing is assumed of sleepers, of *)
(* timeouts, nor of callers: a holder may keep the mutex for ever.         *)
Fairness == \A t \in Threads : WF_vars(Run(t))

Spec == Init /\ [][Next]_vars
FairSpec == Spec /\ Fairness

-----------------------------------------------------------------------------
TypeOK ==
  /\ type \in {"normal", "recursive", "errorcheck"}
  /\ state \in {0, 1} /\ count \in Nat
  /\ ownerLow \in Nat /\ ownerHigh \in Nat
  /\ pc \in [Threads -> Steps]
  /\ op \in [Threads -> LockOps \union {"none"}]
  /\ lowSeen \in [Threads -> Nat] /\ held \in [Threads -> Nat]

(* A caller that was told it holds the mutex does: no other thread has it, *)
(* and the word is locked exactly from its lock to its own last unlock, so *)
(* that EBUSY is never returned for a mutex nobody holds                   *)
(* (pthread_mutex_lock, pthread_mutex_unlock).                             *)
MutualExclusion ==
  /\ \A s, t \in Threads : held[s] > 0 /\ held[t] > 0 => s = t
  /\ state = 1 <=> \E t \in Threads : held[t] > 0

(* The owner test of lock and unlock, made of two unsynchronised reads,    *)
(* never takes another thread for the holder and never misses the holder,  *)
(* even when the words are being rewritten between the two reads.          *)
OwnerTestExact ==
  \A t \in Threads : pc[t] \in {"lockReadHigh", "unlockReadHigh"} =>
    (ReadsSelf(t) <=> held[t] > 0)

(* What the callers counted is what the mutex counts: a recursive mutex is *)
(* released by the last matching unlock, not before and not later.         *)
CountIsDepth ==
  \A t \in Threads : pc[t] \in {"idle", "lockReadHigh", "unlockReadHigh"} /\ held[t] > 0
                       => count = held[t]

(* A thread that will look at the state word again without being woken.    *)
Contending(t) == pc[t] \in {"cas", "spin", "wait"} /\ op[t] # "trylock"

(* No lost wakeup: threads sleep on a free mutex only while some unlock is *)
(* still to issue its wake or some awake thread is about to try again.     *)
NoLostWakeup ==
  state = 0 /\ Asleep # {} =>
    \E t \in Threads : pc[t] = "wake" \/ Contending(t)

(* A free mutex that somebody is waiting for is eventually taken, or the   *)
(* waiting call ends at its deadline: waking a single thread per unlock,   *)
(* with barging and timeouts, never stalls the waiters.                    *)
WaitersProgress ==
  \A t \in Threads :
    (state = 0 /\ (Contending(t) \/ pc[t] = "asleep")) ~> (state = 1 \/ pc[t] = "idle")

(* pthread_mutex_* implements the abstract mutex.                          *)
Abstract == INSTANCE MutexSpec WITH type <- type, held <- held
ImplementsMutexSpec == Abstract!Spec
=============================================================================
