--------------------------- MODULE PthreadObjects ---------------------------
(***************************************************************************)
(* Four objects that threads use: a semaphore, a reader/writer lock, a     *)
(* barrier, and native threads with their creators.  They share nothing:   *)
(* the first state chooses one of them and the steps are that object's,    *)
(* the others staying as they were initialised.                            *)
(***************************************************************************)
EXTENDS PosixSemaphore

CONSTANTS MaxReads, MaxRounds, Counts,
          NativeThreads   (* the threads of NativePthreadLifecycle        *)

(* pthread_barrier_init refuses the count 0.                               *)
ASSUME ObjectsAssumption ==
  /\ Threads # {} /\ MaxReads \in Nat /\ MaxRounds \in Nat
  /\ Counts \subseteq Nat \ {0}

VARIABLES object,
          word, rwPc, rwOp, seen, hold,
          barrierCount, waiters, generation, barrierPc, genSeen, entered, left, serial,
          host, disciplined, ctl, refs, at

Rwlock == INSTANCE PthreadRwlock WITH pc <- rwPc, op <- rwOp
Barrier == INSTANCE PthreadBarrier WITH pc <- barrierPc, count <- barrierCount
Native == INSTANCE NativePthreadLifecycle WITH Threads <- NativeThreads

rwlockVars == <<word, rwPc, rwOp, seen, hold>>
barrierVars ==
  <<barrierCount, waiters, generation, barrierPc, genSeen, entered, left, serial>>
nativeVars == <<host, disciplined, ctl, refs, at>>
objectVars == <<object, vars, rwlockVars, barrierVars, nativeVars>>

ObjectsInit ==
  /\ object \in {"semaphore", "rwlock", "barrier", "native"}
  /\ Init /\ Rwlock!Init /\ Barrier!Init /\ Native!Init
  /\ object # "native" => host = "windows" /\ disciplined
  /\ object # "barrier" => \A n \in Counts : barrierCount <= n

SemaphoreNext ==
  /\ object = "semaphore" /\ Next
  /\ UNCHANGED <<object, rwlockVars, barrierVars, nativeVars>>

RwlockNext ==
  /\ object = "rwlock" /\ Rwlock!Next
  /\ UNCHANGED <<object, vars, barrierVars, nativeVars>>

BarrierNext ==
  /\ object = "barrier" /\ Barrier!Next
  /\ UNCHANGED <<object, vars, rwlockVars, nativeVars>>

NativeNext ==
  /\ object = "native" /\ Native!Next
  /\ UNCHANGED <<object, vars, rwlockVars, barrierVars>>

(* Threads of the native hosts end, or stop before their first stale use.  *)
NativeEnds ==
  /\ object = "native" /\ ~ ENABLED Native!Next /\ UNCHANGED objectVars

ObjectsNext == SemaphoreNext \/ RwlockNext \/ BarrierNext \/ NativeNext \/ NativeEnds

(* Each object under its own fairness.                                     *)
ObjectsSpec ==
  /\ ObjectsInit /\ [][ObjectsNext]_objectVars
  /\ \A t \in Threads :
       WF_vars(Run(t)) /\ WF_barrierVars(Barrier!Run(t))
  /\ \A a \in Native!Agents : WF_nativeVars(Native!DetachStep(a))
  /\ \A t \in NativeThreads :
       /\ WF_nativeVars(Native!CreateStep(t) \/ Native!JoinStep(t))
       /\ WF_nativeVars(Native!WorkerStep(t))

-----------------------------------------------------------------------------
(* PthreadRwlock: the word counts its holders under racing exchanges, so   *)
(* that no reader, and no writer that saw the lock taken, sleeps with      *)
(* nobody left to wake it.                                                 *)
SleepersNotStranded ==
  Rwlock!WordMatchesHolders /\ Rwlock!ReadersNotStranded /\ Rwlock!WritersNotStranded

(* PthreadRwlock implements the abstract reader/writer lock.               *)
ImplementsRwlockSpec == Rwlock!ImplementsRwlockSpec

(* PthreadBarrier: with no more threads than the barrier counts, nobody    *)
(* gets past the k-th round before all reached it, and one thread of every *)
(* round is told it is the serial one; with any number of them, no arrival *)
(* pays for two rounds and no round has two serial threads.                *)
RoundsAreExact ==
  /\ Barrier!NobodyPassesEarly /\ Barrier!OneSerialThreadPerRound
  /\ Barrier!OpeningsPaid

(* PthreadBarrier: once all have reached a round, all get past it; nobody  *)
(* sleeps through an opening.                                              *)
BarrierOpens == Barrier!BarrierOpens

(* NativePthreadLifecycle: no agent is about to touch a freed block or to  *)
(* give up the host's reference to a thread a second time, and a finished  *)
(* detached thread has freed its block; no id is handed out before the     *)
(* stack bounds.                                                           *)
FreedOnceAfterLastUse ==
  /\ Native!NoUseAfterFree /\ Native!ReferenceGivenUpOnce
  /\ Native!DetachedIsReleased /\ Native!BoundsBeforeId

(* NativePthreadLifecycle: both handshakes of creation come to an end.     *)
HandshakesEnd == Native!HandshakesEnd
=============================================================================
