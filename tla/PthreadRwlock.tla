--------------------------- MODULE PthreadRwlock ---------------------------
(***************************************************************************)
(* pthread_rwlock_* of libc/src/pthread.c: one state word that is -1 while *)
(* a writer is in, otherwise the number of read locks.  Every access to    *)
(* the word is a step of its own, and a waiting thread sleeps on the value *)
(* it loaded last.                                                         *)
(***************************************************************************)
EXTENDS Integers, CrtWait

CONSTANTS Threads,    (* threads sharing the lock                          *)
          MaxReads    (* bound on the read locks a caller nests            *)

VARIABLES word,       (* CRT_RWLOCK_STATE_WORD                             *)
          pc, op,     (* where each thread is, and in which call           *)
          seen,       (* the local `state' of the call                     *)
          hold        (* the callers' view: read locks of t, -1 for writer *)

vars == <<word, pc, op, seen, hold>>

WriterState == -1
Ops == {"rdlock", "tryrdlock", "wrlock", "trywrlock", "unlock"}
Steps == {"idle", "rdLoad", "rdCas", "rdWait", "rdAsleep", "wrCas", "wrLoad",
          "wrWait", "wrAsleep", "unLoad", "unStore", "unSub", "wakeAll"}

Asleep == {t \in Threads : pc[t] \in {"rdAsleep", "wrAsleep"}}

Init ==
  /\ word = 0
  /\ pc = [t \in Threads |-> "idle"]
  /\ op = [t \in Threads |-> "none"]
  /\ seen = [t \in Threads |-> 0]
  /\ hold = [t \in Threads |-> 0]

Goto(t, step) == pc' = [pc EXCEPT ![t] = step] /\ UNCHANGED op

(* The call returns; its locals are forgotten.                             *)
Return(t) ==
  /\ pc' = [pc EXCEPT ![t] = "idle"]
  /\ op' = [op EXCEPT ![t] = "none"]
  /\ seen' = [seen EXCEPT ![t] = 0]

(* The call loads the state word and goes on at a step.                    *)
Load(t, step) == Goto(t, step) /\ seen' = [seen EXCEPT ![t] = word]

(* A caller enters a call.  Callers do not block on a lock they hold in a  *)
(* way that would deadlock them, and unlock only what they hold.           *)
Call(t, o) ==
  /\ pc[t] = "idle"
  /\ o = "rdlock" => hold[t] \in 0 .. MaxReads - 1
  /\ o = "tryrdlock" => hold[t] < MaxReads
  /\ o = "wrlock" => hold[t] = 0
  /\ o = "unlock" => hold[t] # 0
  /\ op' = [op EXCEPT ![t] = o]
  /\ pc' = [pc EXCEPT ![t] = CASE o \in {"rdlock", "tryrdlock"} -> "rdLoad"
                               [] o \in {"wrlock", "trywrlock"} -> "wrCas"
                               [] o = "unlock" -> "unLoad"]
  /\ UNCHANGED <<word, seen, hold>>

-----------------------------------------------------------------------------
(* pthread_rwlock_rdlock, pthread_rwlock_tryrdlock                         *)

(* Fault: a reader does not mind a writer.                                 *)
ReadLoadIgnoreWriter(t) ==
  /\ pc[t] = "rdLoad" /\ Load(t, "rdCas")
  /\ UNCHANGED <<word, hold>>

ReadLoad(t) ==
  /\ pc[t] = "rdLoad"
  /\ \/ word >= 0 /\ Load(t, "rdCas")
     \/ word < 0 /\ op[t] = "rdlock" /\ Load(t, "rdWait")
     \/ word < 0 /\ op[t] = "tryrdlock" /\ Return(t)
  /\ UNCHANGED <<word, hold>>

(* state -> state + 1; tryrdlock does not try twice.                       *)
ReadExchange(t) ==
  /\ pc[t] = "rdCas"
  /\ \/ /\ word = seen[t] /\ word' = word + 1
        /\ hold' = [hold EXCEPT ![t] = @ + 1] /\ Return(t)
     \/ /\ word # seen[t] /\ op[t] = "rdlock"
        /\ Goto(t, "rdLoad") /\ UNCHANGED <<word, seen, hold>>
     \/ /\ word # seen[t] /\ op[t] = "tryrdlock"
        /\ Return(t) /\ UNCHANGED <<word, hold>>

(* __crt_wait32(word, state)                                               *)
ReadWait(t) ==
  /\ pc[t] = "rdWait"
  /\ Goto(t, IF WaitSleeps(word, seen[t]) THEN "rdAsleep" ELSE "rdLoad")
  /\ UNCHANGED <<word, seen, hold>>

-----------------------------------------------------------------------------
(* pthread_rwlock_wrlock, pthread_rwlock_trywrlock                         *)

WriteExchange(t) ==
  /\ pc[t] = "wrCas"
  /\ \/ /\ word = 0 /\ word' = WriterState
        /\ hold' = [hold EXCEPT ![t] = -1] /\ Return(t)
     \/ /\ word # 0 /\ op[t] = "wrlock"
        /\ Goto(t, "wrLoad") /\ UNCHANGED <<word, seen, hold>>
     \/ /\ word # 0 /\ op[t] = "trywrlock"
        /\ Return(t) /\ UNCHANGED <<word, hold>>

(* After a failed exchange the word is loaded anew: the lock may have been *)
(* freed meanwhile, and 0 is then the value the writer waits on.           *)
WriteLoad(t) ==
  /\ pc[t] = "wrLoad" /\ Load(t, "wrWait")
  /\ UNCHANGED <<word, hold>>

WriteWait(t) ==
  /\ pc[t] = "wrWait"
  /\ Goto(t, IF WaitSleeps(word, seen[t]) THEN "wrAsleep" ELSE "wrCas")
  /\ UNCHANGED <<word, seen, hold>>

(* Where a sleeper goes on when its wait returns.                          *)
Resume(t) == IF pc[t] = "rdAsleep" THEN "rdLoad" ELSE "wrCas"

(* A wait returns without a wake.                                          *)
SpuriousReturn(t) ==
  /\ t \in Asleep /\ Goto(t, Resume(t))
  /\ UNCHANGED <<word, seen, hold>>

-----------------------------------------------------------------------------
(* pthread_rwlock_unlock                                                   *)

(* The word tells whether a writer or a reader is leaving.                 *)
UnlockLoad(t) ==
  /\ pc[t] = "unLoad"
  /\ \/ word = WriterState /\ Goto(t, "unStore")
     \/ word > 0 /\ Goto(t, "unSub")
  /\ UNCHANGED <<word, seen, hold>>

WriterLeaves(t) ==
  /\ pc[t] = "unStore"
  /\ word' = 0 /\ hold' = [hold EXCEPT ![t] = 0] /\ Goto(t, "wakeAll")
  /\ UNCHANGED seen

(* Fault: the last reader wakes nobody.                                    *)
ReaderLeavesSilently(t) ==
  /\ pc[t] = "unSub"
  /\ word' = word - 1 /\ hold' = [hold EXCEPT ![t] = @ - 1] /\ Return(t)

(* Only the reader that takes the count from 1 to 0 wakes the sleepers.    *)
ReaderLeaves(t) ==
  /\ pc[t] = "unSub"
  /\ word' = word - 1 /\ hold' = [hold EXCEPT ![t] = @ - 1]
  /\ IF word = 1 THEN Goto(t, "wakeAll") /\ UNCHANGED seen ELSE Return(t)

(* __crt_wake32_all                                                        *)
UnlockWake(t) ==
  /\ pc[t] = "wakeAll"
  /\ \E woken \in WakeAll(Asleep) :
       pc' = [s \in Threads |-> IF s = t THEN "idle"
                                ELSE IF s \in woken THEN Resume(s) ELSE pc[s]]
  /\ op' = [op EXCEPT ![t] = "none"]
  /\ UNCHANGED <<word, seen, hold>>

-----------------------------------------------------------------------------
ReadStep(t) == ReadLoad(t) \/ ReadExchange(t) \/ ReadWait(t)
WriteStep(t) == WriteExchange(t) \/ WriteLoad(t) \/ WriteWait(t)
UnlockStep(t) == UnlockLoad(t) \/ WriterLeaves(t) \/ ReaderLeaves(t) \/ UnlockWake(t)
Run(t) == ReadStep(t) \/ WriteStep(t) \/ UnlockStep(t)

Next == \E t \in Threads :
          (\E o \in Ops : Call(t, o)) \/ SpuriousReturn(t) \/ Run(t)

Spec == Init /\ [][Next]_vars

-----------------------------------------------------------------------------
TypeOK ==
  /\ word \in -1 .. MaxReads * Cardinality(Threads)
  /\ pc \in [Threads -> Steps] /\ op \in [Threads -> Ops \union {"none"}]
  /\ seen \in [Threads -> Int] /\ hold \in [Threads -> Int]

(* The read locks given out: the k-th of t for every k up to hold[t].      *)
ReadLocks == {r \in Threads \X (1 .. MaxReads) : r[2] <= hold[r[1]]}

(* The word is what its holders make it: -1 for one writer and no reader,  *)
(* otherwise exactly the read locks given out, so that the lock is neither *)
(* leaked nor given back twice by racing unlocks.                          *)
WordMatchesHolders ==
  \/ /\ word = WriterState
     /\ \E t \in Threads : hold[t] = -1 /\ \A s \in Threads \ {t} : hold[s] = 0
  \/ /\ \A t \in Threads : hold[t] >= 0
     /\ word = Cardinality(ReadLocks)

WakePending == \E t \in Threads : pc[t] = "wakeAll"

(* A reader sleeps only while a writer is in or its wake-all is coming.    *)
ReadersNotStranded ==
  \A t \in Threads : pc[t] = "rdAsleep" => word = WriterState \/ WakePending

(* A writer that went to sleep on a lock it saw taken sleeps only while    *)
(* the lock is taken or a wake-all is coming, although readers leave       *)
(* without a wake as long as others remain.                                *)
WritersNotStranded ==
  \A t \in Threads : pc[t] = "wrAsleep" /\ seen[t] # 0 => word # 0 \/ WakePending

(* pthread_rwlock_contention_test.c takes it for granted that a writer     *)
(* gets the lock once the readers are gone: no writer sleeps in            *)
(* pthread_rwlock_wrlock while the lock is free and every other thread is  *)
(* out of the lock's functions.                                            *)
WriterGetsFreeLock ==
  \A t \in Threads : pc[t] = "wrAsleep" /\ word = 0 =>
    \E s \in Threads \ {t} : pc[s] # "idle"

(* pthread_rwlock_* implements the abstract reader/writer lock: a reader   *)
(* never comes in beside a writer, a writer only when nobody is in.        *)
Abstract == INSTANCE RwlockSpec WITH Threads <- Threads, hold <- hold
ImplementsRwlockSpec == Abstract!Spec
=============================================================================
