----------------------------- MODULE PthreadCond -----------------------------
(***************************************************************************)
(* pthread_cond_* of libc/src/pthread.c: a sequence number that signal and *)
(* broadcast advance before they wake, and that a waiter reads before it   *)
(* unlocks the mutex and compares against while it waits.  The mutex is    *)
(* one word here, its owner; PthreadMutex models it in full.               *)
(***************************************************************************)
EXTENDS Naturals, CrtWait

CONSTANTS Threads,      (* threads using the condition variable            *)
          NoThread,
          MaxSignals    (* bound on the signals and broadcasts of a run, so*)
                        (*   that the sequence does not wrap               *)

ASSUME CondAssumption ==
  /\ IsFiniteSet(Threads) /\ NoThread \notin Threads
  /\ MaxSignals \in Nat

VARIABLES fifo,         (* the host wakes whoever has slept longest (futex)*)
                        (*   or, if FALSE, any of the sleepers             *)
          sequence,     (* CRT_COND_SEQUENCE_WORD                          *)
          waiters,      (* CRT_COND_WAITERS_WORD                           *)
          owner,        (* the owner of the mutex                          *)
          ahead,        (* pairs of sleepers, the first asleep longer      *)
          pc, op,       (* where each thread is, and in which call         *)
          seen,         (* the local `sequence' of a waiting call          *)
          promised,     (* promised[k]: the threads that were blocked when *)
                        (*   the sequence became k, until one has left     *)
          broadcast     (* the sequence of the last broadcast              *)

words == <<fifo, sequence, waiters>>
ghosts == <<promised, broadcast>>
vars == <<fifo, sequence, waiters, owner, ahead, pc, op, seen, promised, broadcast>>

WaitOps == {"wait", "timedwait"}
BlockedSteps == {"test", "clock", "wait", "asleep", "recheck"}
Steps == {"idle", "load", "enter", "unlock", "refused", "leave", "relock",
          "wakeOne", "wakeAll"} \union BlockedSteps

Blocked == {t \in Threads : pc[t] \in BlockedSteps}
Asleep == {t \in Threads : pc[t] = "asleep"}

Init ==
  /\ fifo \in BOOLEAN
  /\ sequence = 0 /\ waiters = 0 /\ owner = NoThread /\ ahead = {}
  /\ pc = [t \in Threads |-> "idle"]
  /\ op = [t \in Threads |-> "none"]
  /\ seen = [t \in Threads |-> 0]
  /\ promised = [k \in 1 .. MaxSignals |-> {}] /\ broadcast = 0

Goto(t, step) == pc' = [pc EXCEPT ![t] = step] /\ UNCHANGED op
Return(t) == /\ pc' = [pc EXCEPT ![t] = "idle"]
             /\ op' = [op EXCEPT ![t] = "none"]
             /\ seen' = [seen EXCEPT ![t] = 0]

-----------------------------------------------------------------------------
(* The program's own use of the mutex between two calls.                   *)

MutexLock(t) ==
  /\ pc[t] = "idle" /\ owner = NoThread /\ owner' = t
  /\ UNCHANGED <<words, ahead, pc, op, seen, ghosts>>

MutexUnlock(t) ==
  /\ pc[t] = "idle" /\ owner = t /\ owner' = NoThread
  /\ UNCHANGED <<words, ahead, pc, op, seen, ghosts>>

-----------------------------------------------------------------------------
(* pthread_cond_wait, pthread_cond_timedwait                               *)

WaitCall(t, o) ==
  /\ pc[t] = "idle"
  /\ pc' = [pc EXCEPT ![t] = "load"] /\ op' = [op EXCEPT ![t] = o]
  /\ UNCHANGED <<words, owner, ahead, seen, ghosts>>

(* The sequence is read while the mutex is still held...                   *)
LoadSequence(t) ==
  /\ pc[t] = "load" /\ seen' = [seen EXCEPT ![t] = sequence] /\ Goto(t, "enter")
  /\ UNCHANGED <<words, owner, ahead, ghosts>>

(* ... the waiter is counted, for pthread_cond_destroy's EBUSY...          *)
Enter(t) ==
  /\ pc[t] = "enter" /\ waiters' = waiters + 1 /\ Goto(t, "unlock")
  /\ UNCHANGED <<fifo, sequence, owner, ahead, seen, ghosts>>

(* ... and the mutex given back.  A caller that does not hold an           *)
(* owner-checked mutex is refused with EPERM.                              *)
Unlock(t) ==
  /\ pc[t] = "unlock"
  /\ \/ owner = t /\ owner' = NoThread /\ Goto(t, "test")
     \/ owner # t /\ Goto(t, "refused") /\ UNCHANGED owner
  /\ UNCHANGED <<words, ahead, seen, ghosts>>

Refused(t) ==
  /\ pc[t] = "refused" /\ waiters' = waiters - 1 /\ Return(t)
  /\ UNCHANGED <<fifo, sequence, owner, ahead, ghosts>>

(* The loop test: the wait is over once the sequence has moved on.         *)
Test(t) ==
  /\ pc[t] = "test"
  /\ Goto(t, IF sequence # seen[t] THEN "leave"
             ELSE IF op[t] = "timedwait" THEN "clock" ELSE "wait")
  /\ UNCHANGED <<words, owner, ahead, seen, ghosts>>

(* clock_until: the deadline is still ahead or has passed.                 *)
Clock(t) ==
  /\ pc[t] = "clock" /\ \E step \in {"wait", "leave"} : Goto(t, step)
  /\ UNCHANGED <<words, owner, ahead, seen, ghosts>>

(* Fault: the value waited on is loaded anew.                              *)
WaitReload(t) ==
  /\ pc[t] = "wait" /\ Goto(t, "asleep") /\ ahead' = ahead \union (Asleep \X {t})
  /\ UNCHANGED <<words, owner, seen, ghosts>>

(* __crt_wait32(&sequence, sequence seen)                                  *)
Wait(t) ==
  /\ pc[t] = "wait"
  /\ \/ /\ WaitSleeps(sequence, seen[t])
        /\ Goto(t, "asleep") /\ ahead' = ahead \union (Asleep \X {t})
     \/ ~ WaitSleeps(sequence, seen[t]) /\ Goto(t, "test") /\ UNCHANGED ahead
  /\ UNCHANGED <<words, owner, seen, ghosts>>

(* The threads in `woken' are no longer in line.                           *)
Without(woken) == {p \in ahead : p[1] \notin woken /\ p[2] \notin woken}

SpuriousReturn(t) ==
  /\ pc[t] = "asleep" /\ Goto(t, "test") /\ ahead' = Without({t})
  /\ UNCHANGED <<words, owner, seen, ghosts>>

WaitTimesOut(t) ==
  /\ pc[t] = "asleep" /\ op[t] = "timedwait" /\ Goto(t, "recheck") /\ ahead' = Without({t})
  /\ UNCHANGED <<words, owner, seen, ghosts>>

(* A timed out wait looks at the sequence once more before it gives up.    *)
Recheck(t) ==
  /\ pc[t] = "recheck" /\ Goto(t, IF sequence = seen[t] THEN "leave" ELSE "test")
  /\ UNCHANGED <<words, owner, ahead, seen, ghosts>>

(* Fault: the waiter is not counted out.                                   *)
LeaveCounted(t) ==
  /\ pc[t] = "leave" /\ Goto(t, "relock")
  /\ promised' = [k \in DOMAIN promised |-> IF t \in promised[k] THEN {} ELSE promised[k]]
  /\ UNCHANGED <<words, owner, ahead, seen, broadcast>>

(* The wait is over, one way or another: t has left the blocked threads.   *)
LeaveWait(t) ==
  /\ pc[t] = "leave" /\ waiters' = waiters - 1 /\ Goto(t, "relock")
  /\ promised' = [k \in DOMAIN promised |-> IF t \in promised[k] THEN {} ELSE promised[k]]
  /\ UNCHANGED <<fifo, sequence, owner, ahead, seen, broadcast>>

Relock(t) ==
  /\ pc[t] = "relock" /\ owner = NoThread /\ owner' = t /\ Return(t)
  /\ UNCHANGED <<words, ahead, ghosts>>

-----------------------------------------------------------------------------
(* pthread_cond_signal, pthread_cond_broadcast; the mutex may be held or   *)
(* not.                                                                    *)

Bump ==
  /\ sequence < MaxSignals /\ sequence' = sequence + 1
  /\ promised' = [promised EXCEPT ![sequence + 1] = Blocked]

Signal(t) ==
  /\ pc[t] = "idle" /\ Bump /\ Goto(t, "wakeOne")
  /\ UNCHANGED <<fifo, waiters, owner, ahead, seen, broadcast>>

Broadcast(t) ==
  /\ pc[t] = "idle" /\ Bump /\ Goto(t, "wakeAll") /\ broadcast' = sequence + 1
  /\ UNCHANGED <<fifo, waiters, owner, ahead, seen>>

(* The sleepers in `woken' resume their loop; t's call returns.            *)
Wake(t, woken) ==
  /\ pc' = [s \in Threads |-> IF s = t THEN "idle"
                              ELSE IF s \in woken THEN "test" ELSE pc[s]]
  /\ ahead' = Without(woken)
  /\ UNCHANGED <<words, owner, op, seen, ghosts>>

(* The thread that has slept longest.                                      *)
First == {s \in Asleep : \A u \in Asleep \ {s} : <<s, u>> \in ahead}

SignalWake(t) ==
  /\ pc[t] = "wakeOne"
  /\ \E woken \in WakeOne(IF fifo THEN First ELSE Asleep) : Wake(t, woken)

BroadcastWake(t) ==
  /\ pc[t] = "wakeAll" /\ \E woken \in WakeAll(Asleep) : Wake(t, woken)

-----------------------------------------------------------------------------
Run(t) == \/ LoadSequence(t) \/ Enter(t) \/ Unlock(t) \/ Refused(t)
          \/ Test(t) \/ Clock(t) \/ Wait(t) \/ Recheck(t) \/ LeaveWait(t)
          \/ Relock(t) \/ SignalWake(t) \/ BroadcastWake(t)

Next == \E t \in Threads :
          \/ MutexLock(t) \/ MutexUnlock(t) \/ (\E o \in WaitOps : WaitCall(t, o))
          \/ Signal(t) \/ Broadcast(t)
          \/ SpuriousReturn(t) \/ WaitTimesOut(t) \/ Run(t)

Spec == Init /\ [][Next]_vars

-----------------------------------------------------------------------------
TypeOK ==
  /\ fifo \in BOOLEAN
  /\ sequence \in 0 .. MaxSignals /\ waiters \in 0 .. Cardinality(Threads)
  /\ owner \in Threads \union {NoThread}
  /\ ahead \in SUBSET (Asleep \X Asleep)
  /\ pc \in [Threads -> Steps] /\ op \in [Threads -> WaitOps \union {"none"}]
  /\ seen \in [Threads -> 0 .. MaxSignals]
  /\ promised \in [1 .. MaxSignals -> SUBSET Threads] /\ broadcast \in 0 .. MaxSignals

(* pthread_cond_destroy's EBUSY is exact: the count is the number of       *)
(* threads inside a wait, on the timeout and refusal paths too.            *)
WaitersCounted ==
  waiters = Cardinality({t \in Threads :
              pc[t] \in {"unlock", "refused", "leave"} \union BlockedSteps})

(* A broadcast reaches everybody who was blocked before it: nobody sleeps  *)
(* through one unless its wake-all is still to come.                       *)
BroadcastReachesAll ==
  \A t \in Threads : pc[t] = "asleep" /\ seen[t] < broadcast =>
    \E s \in Threads : pc[s] = "wakeAll"

(* A signal is not lost: once every thread is asleep, between calls or in  *)
(* line for the mutex, one of the threads that were blocked when it came   *)
(* has ended its wait, whoever else started to wait in the meantime.  It   *)
(* holds where sleepers are woken in the order they came in: elsewhere a   *)
(* thread that starts to wait after the signal may take its wake.          *)
AtRest == \A t \in Threads : pc[t] \in {"idle", "asleep", "relock"}

SignalReleasesOne == fifo /\ AtRest => \A k \in 1 .. MaxSignals : promised[k] = {}
=============================================================================
