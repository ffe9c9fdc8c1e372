------------------------ MODULE LinuxPthreadLifecycle ------------------------
(***************************************************************************)
(* Creation, exit, join, detach and reclamation of Linux pthreads in       *)
(* libc/src/pthread.c.  A worker runs on a stack that is mapped together   *)
(* with its control block; whoever finds the kernel-cleared tid word at 0  *)
(* may give both back: pthread_join, or for detached workers the permanent *)
(* reaper thread, which walks a list of queued control blocks under        *)
(* linux_reap_lock and sleeps on a tid word or on linux_reap_sequence.     *)
(*                                                                         *)
(* A step that touches a control block is disabled once the block is       *)
(* freed: a behaviour ends at its first stale access, and NoUseAfterFree   *)
(* says that none is ever about to happen.                                 *)
(***************************************************************************)
EXTENDS Integers, Sequences, CrtWait

CONSTANTS Threads,      (* the threads that are created, each at most once *)
          NoThread      (* the null control pointer                        *)

ASSUME LifecycleAssumption == NoThread \notin Threads

VARIABLES disciplined,(* TRUE: no thread ends while pthread_create or a    *)
                      (*   pthread_detach by another thread works on it;   *)
                      (*   FALSE: the program lets it end when it likes    *)
          ctl,        (* the control blocks                                *)
          at,         (* the step each agent is at                         *)
          list,       (* linux_reap_head and the reap_next links           *)
          sequence,   (* linux_reap_sequence                               *)
          started,    (* linux_reaper_started                              *)
          reaper      (* where the reaper is, and its locals               *)

reap == <<disciplined, list, sequence, started, reaper>>
vars == <<ctl, at, reap>>

(* Two agents work on a thread c: the one that creates it and later joins  *)
(* or detaches it, and c itself.                                           *)
Caller(c) == <<"caller", c>>
Worker(c) == <<"worker", c>>
Agents == {"caller", "worker"} \X Threads

(* What the program does with a thread.                                    *)
Roles == {"joined", "createdDetached", "detachedByOther", "detachedBySelf",
          "detachedInExit"}

CreateSteps == {"createEnsure", "createStart", "createPublish", "clone", "storeTid"}
DetachSteps == {"detachEnsure", "detachStart", "detachPublish", "detachCas", "detachLoad"}
EnqueueSteps == {"reapCas", "reapPush", "reapBump", "reapWake"}
JoinSteps == {"joinTest", "joinLoad", "joinWait", "joinAsleep", "joinDestroy"}
WorkerSteps == {"run", "exitAttached", "exitDetached", "exit", "kernelWake", "dead"}
Steps == {"none", "idle", "done"} \union CreateSteps \union DetachSteps
           \union EnqueueSteps \union JoinSteps \union WorkerSteps
ReaperSteps == {"none", "lock", "scan", "reload", "destroy", "relock",
                "tidWait", "tidAsleep", "seqWait", "seqAsleep"}

Init ==
  /\ disciplined \in BOOLEAN
  /\ ctl = [c \in Threads |-> [mem |-> "unborn", role |-> "joined", tid |-> 0,
                               detached |-> FALSE, queued |-> FALSE]]
  /\ at = [a \in Agents |-> "none"]
  /\ list = <<>> /\ sequence = 0 /\ started = 0
  /\ reaper = [at |-> "none", pos |-> 1, victim |-> NoThread,
               waitTid |-> NoThread, waitValue |-> 0, sequence |-> 0, reaped |-> FALSE]

Live(c) == ctl[c].mem = "live"
Free(c) == ctl' = [ctl EXCEPT ![c].mem = "freed"]
Goto(a, step) == at' = [at EXCEPT ![a] = step]

-----------------------------------------------------------------------------
(* pthread_create                                                          *)

Create(c, role) ==
  /\ at[Caller(c)] = "none"
  /\ ctl' = [ctl EXCEPT ![c].mem = "live", ![c].role = role,
                        ![c].detached = (role = "createdDetached")]
  /\ Goto(Caller(c), IF role = "createdDetached" THEN "createEnsure" ELSE "clone")
  /\ UNCHANGED reap

(* No memory for the stack, or no thread: the control block is freed.      *)
CloneFails(c) ==
  /\ at[Caller(c)] = "clone" /\ Goto(Caller(c), "done") /\ Free(c)
  /\ UNCHANGED reap

(* The kernel stores the tid into the tid word before either side runs on. *)
Clone(c) ==
  /\ at[Caller(c)] = "clone"
  /\ at' = [at EXCEPT ![Caller(c)] = "storeTid", ![Worker(c)] = "run"]
  /\ ctl' = [ctl EXCEPT ![c].tid = 1]
  /\ UNCHANGED reap

(* control->tid is assigned and tested in the creator, and *thread is set. *)
StoreTid(c) ==
  /\ at[Caller(c)] = "storeTid" /\ Live(c) /\ Goto(Caller(c), "idle")
  /\ UNCHANGED <<ctl, reap>>

-----------------------------------------------------------------------------
(* linux_reaper_ensure_started, in pthread_create and in pthread_detach    *)

Ensuring(a) == at[a] \in {"createEnsure", "detachEnsure"}
Starting(a) == at[a] \in {"createStart", "detachStart"}
Publishing(a) == at[a] \in {"createPublish", "detachPublish"}

(* Where a call returns to: to the program, in a thread's routine or in a  *)
(* destructor that pthread_exit runs, or on to the exit of the thread.     *)
Back(a) == IF a[1] = "caller" THEN "done"
           ELSE IF at[a] \notin DetachSteps THEN "exit"
           ELSE IF ctl[a[2]].role = "detachedInExit" THEN "exitAttached" ELSE "run"

(* Where an agent goes on with the reaper running, and without one: the    *)
(* calls return EAGAIN, and pthread_create frees the control block.        *)
WithReaper(a) == Goto(a, IF at[a] \in CreateSteps THEN "clone" ELSE "detachCas")
WithoutReaper(a) ==
  /\ Goto(a, Back(a))
  /\ IF at[a] \in CreateSteps THEN Free(a[2]) ELSE UNCHANGED ctl

(* The first caller starts the reaper; others wait until it is decided.    *)
EnsureStarted(a) ==
  /\ Ensuring(a)
  /\ \/ started = 2 /\ WithReaper(a) /\ UNCHANGED <<ctl, started>>
     \/ started = -1 /\ WithoutReaper(a) /\ UNCHANGED started
     \/ /\ started = 0 /\ started' = 1 /\ UNCHANGED ctl
        /\ Goto(a, IF at[a] \in CreateSteps THEN "createStart" ELSE "detachStart")
  /\ UNCHANGED <<disciplined, list, sequence, reaper>>

(* The reaper is cloned, or cannot be.                                     *)
StartReaper(a) ==
  /\ Starting(a)
  /\ \/ /\ reaper' = [reaper EXCEPT !.at = "lock"] /\ UNCHANGED <<ctl, started>>
        /\ Goto(a, IF at[a] \in CreateSteps THEN "createPublish" ELSE "detachPublish")
     \/ started' = -1 /\ WithoutReaper(a) /\ UNCHANGED reaper
  /\ UNCHANGED <<disciplined, list, sequence>>

PublishReaper(a) ==
  /\ Publishing(a) /\ started' = 2 /\ WithReaper(a)
  /\ UNCHANGED <<disciplined, ctl, list, sequence, reaper>>

-----------------------------------------------------------------------------
(* pthread_detach, by another thread or by the thread itself: while it     *)
(* runs, or in the destructor of a key that pthread_exit runs              *)

DetachCall(a) ==
  LET c == a[2]
  IN  /\ \/ /\ a[1] = "caller" /\ at[a] = "idle" /\ ctl[c].role = "detachedByOther"
            /\ disciplined => at[Worker(c)] \in {"run", "dead"}
         \/ a[1] = "worker" /\ at[a] = "run" /\ ctl[c].role = "detachedBySelf"
         \/ a[1] = "worker" /\ at[a] = "exitAttached" /\ ctl[c].role = "detachedInExit"
      /\ Goto(a, "detachEnsure")
      /\ UNCHANGED <<ctl, reap>>

DetachExchange(a) ==
  /\ at[a] = "detachCas" /\ Live(a[2])
  /\ \/ ctl[a[2]].detached /\ Goto(a, Back(a)) /\ UNCHANGED ctl
     \/ /\ ~ ctl[a[2]].detached /\ ctl' = [ctl EXCEPT ![a[2]].detached = TRUE]
        /\ Goto(a, "detachLoad")
  /\ UNCHANGED reap

(* Fault: a thread that is already gone is left as it is.                  *)
DetachOnlyMarks(a) ==
  /\ at[a] = "detachLoad" /\ Live(a[2]) /\ Goto(a, Back(a))
  /\ UNCHANGED <<ctl, reap>>

(* A thread that was gone when it was detached is queued by the detacher.  *)
DetachLoad(a) ==
  /\ at[a] = "detachLoad" /\ Live(a[2])
  /\ Goto(a, IF ctl[a[2]].tid = 0 THEN "reapCas" ELSE Back(a))
  /\ UNCHANGED <<ctl, reap>>

-----------------------------------------------------------------------------
(* linux_reap_enqueue                                                      *)

(* Fault: the block is queued without being claimed.                       *)
EnqueueUnclaimed(a) ==
  /\ at[a] = "reapCas" /\ Live(a[2])
  /\ ctl' = [ctl EXCEPT ![a[2]].queued = TRUE] /\ Goto(a, "reapPush")
  /\ UNCHANGED reap

(* Only one caller claims the block.                                       *)
EnqueueClaim(a) ==
  /\ at[a] = "reapCas" /\ Live(a[2])
  /\ \/ ctl[a[2]].queued /\ Goto(a, Back(a)) /\ UNCHANGED ctl
     \/ /\ ~ ctl[a[2]].queued /\ ctl' = [ctl EXCEPT ![a[2]].queued = TRUE]
        /\ Goto(a, "reapPush")
  /\ UNCHANGED reap

(* The reaper holds linux_reap_lock while it scans; what the pusher does   *)
(* under the lock is seen by nobody else before the lock is released.      *)
LockFree == reaper.at \notin {"scan", "reload"}

EnqueuePush(a) ==
  /\ at[a] = "reapPush" /\ Live(a[2]) /\ LockFree
  /\ list' = <<a[2]>> \o list /\ Goto(a, "reapBump")
  /\ UNCHANGED <<disciplined, ctl, sequence, started, reaper>>

EnqueueBump(a) ==
  /\ at[a] = "reapBump" /\ sequence' = sequence + 1 /\ Goto(a, "reapWake")
  /\ UNCHANGED <<disciplined, ctl, list, started, reaper>>

EnqueueWake(a) ==
  /\ at[a] = "reapWake" /\ Goto(a, Back(a))
  /\ reaper' = [reaper EXCEPT !.at = IF @ = "seqAsleep" THEN "lock" ELSE @]
  /\ UNCHANGED <<disciplined, ctl, list, sequence, started>>

-----------------------------------------------------------------------------
(* The worker: pthread_start, pthread_exit and the kernel's thread exit    *)

(* A thread's routine may end: with or without a caller at work on it.     *)
MayEnd(c) ==
  /\ at[Worker(c)] = "run" /\ Live(c)
  /\ disciplined => at[Caller(c)] \notin CreateSteps \union DetachSteps

(* The start routine has returned and the destructors of the keys have     *)
(* run; pthread_start loads control->detached, which decides whether the   *)
(* worker queues its own block.                                            *)
RoutineReturns(c) ==
  /\ MayEnd(c)
  /\ Goto(Worker(c), IF ctl[c].detached THEN "reapCas" ELSE "exit")
  /\ UNCHANGED <<ctl, reap>>

(* pthread_exit loads it before it runs the destructors...                 *)
RoutineExits(c) ==
  /\ MayEnd(c)
  /\ Goto(Worker(c), IF ctl[c].detached THEN "exitDetached" ELSE "exitAttached")
  /\ UNCHANGED <<ctl, reap>>

(* ... and decides by that value after them.                               *)
DestructorsEnd(c) ==
  /\ at[Worker(c)] \in {"exitAttached", "exitDetached"} /\ Live(c)
  /\ Goto(Worker(c), IF at[Worker(c)] = "exitDetached" THEN "reapCas" ELSE "exit")
  /\ UNCHANGED <<ctl, reap>>

(* The kernel has left the stack and clears the tid word...                *)
KernelClearsTid(c) ==
  /\ at[Worker(c)] = "exit" /\ Live(c)
  /\ ctl' = [ctl EXCEPT ![c].tid = 0] /\ Goto(Worker(c), "kernelWake")
  /\ UNCHANGED reap

TidSleepers(c) ==
  {w \in {"joiner", "reaper"} :
     \/ w = "joiner" /\ at[Caller(c)] = "joinAsleep"
     \/ w = "reaper" /\ reaper.at = "tidAsleep" /\ reaper.waitTid = c}

(* ... and wakes one thread that sleeps on it.                             *)
KernelWakes(c) ==
  /\ at[Worker(c)] = "kernelWake"
  /\ \E woken \in WakeOne(TidSleepers(c)) :
       /\ at' = [at EXCEPT ![Worker(c)] = "dead",
                           ![Caller(c)] = IF "joiner" \in woken THEN "joinLoad" ELSE @]
       /\ reaper' = [reaper EXCEPT !.at = IF "reaper" \in woken THEN "lock" ELSE @]
  /\ UNCHANGED <<disciplined, ctl, list, sequence, started>>

-----------------------------------------------------------------------------
(* pthread_join                                                            *)

JoinCall(c) ==
  /\ at[Caller(c)] = "idle" /\ ctl[c].role = "joined" /\ Goto(Caller(c), "joinTest")
  /\ UNCHANGED <<ctl, reap>>

(* The detached flag is tested first; a joined thread is never detached.   *)
JoinTest(c) ==
  /\ at[Caller(c)] = "joinTest" /\ Live(c) /\ ~ ctl[c].detached
  /\ Goto(Caller(c), "joinLoad")
  /\ UNCHANGED <<ctl, reap>>

JoinLoad(c) ==
  /\ at[Caller(c)] = "joinLoad" /\ Live(c)
  /\ Goto(Caller(c), IF ctl[c].tid = 0 THEN "joinDestroy" ELSE "joinWait")
  /\ UNCHANGED <<ctl, reap>>

(* Fault: the value to wait on is loaded a second time.                    *)
JoinWaitReload(c) ==
  /\ at[Caller(c)] = "joinWait" /\ Live(c)
  /\ Goto(Caller(c), IF WaitSleeps(ctl[c].tid, ctl[c].tid) THEN "joinAsleep" ELSE "joinLoad")
  /\ UNCHANGED <<ctl, reap>>

(* The futex wait on the tid that was loaded.                              *)
JoinWait(c) ==
  /\ at[Caller(c)] = "joinWait" /\ Live(c)
  /\ Goto(Caller(c), IF WaitSleeps(ctl[c].tid, 1) THEN "joinAsleep" ELSE "joinLoad")
  /\ UNCHANGED <<ctl, reap>>

JoinInterrupted(c) ==
  /\ at[Caller(c)] = "joinAsleep" /\ Goto(Caller(c), "joinLoad")
  /\ UNCHANGED <<ctl, reap>>

(* pthread_control_destroy: the stack mapping and the block go.            *)
JoinDestroy(c) ==
  /\ at[Caller(c)] = "joinDestroy" /\ Live(c) /\ Free(c) /\ Goto(Caller(c), "done")
  /\ UNCHANGED reap

-----------------------------------------------------------------------------
(* linux_reaper_start                                                      *)

(* The lock is taken and the walk begins: a new round, or the same round   *)
(* from the head again after a block was destroyed.                        *)
ReaperLocks ==
  /\ \/ /\ reaper.at = "lock"
        /\ reaper' = [reaper EXCEPT !.at = "scan", !.pos = 1, !.waitTid = NoThread,
                                    !.waitValue = 0, !.reaped = FALSE]
     \/ /\ reaper.at = "relock"
        /\ reaper' = [reaper EXCEPT !.at = "scan", !.pos = 1, !.reaped = TRUE]
  /\ UNCHANGED <<disciplined, ctl, at, list, sequence, started>>

Current == list[reaper.pos]
Scanning == reaper.at = "scan" /\ reaper.pos <= Len(list) /\ Live(Current)

(* The current block is unlinked and the lock released.                    *)
Unlink ==
  /\ list' = SubSeq(list, 1, reaper.pos - 1) \o SubSeq(list, reaper.pos + 1, Len(list))
  /\ reaper' = [reaper EXCEPT !.at = "destroy", !.victim = Current]

(* Fault: a worker that has queued itself is taken to be gone.             *)
ReaperTestsNothing ==
  /\ Scanning /\ Unlink
  /\ UNCHANGED <<disciplined, ctl, at, sequence, started>>

(* A block with tid word 0 is unlinked; of the others the first one is     *)
(* remembered, and its tid word loaded once more.                          *)
ReaperTests ==
  /\ Scanning
  /\ \/ ctl[Current].tid = 0 /\ Unlink
     \/ /\ ctl[Current].tid # 0
        /\ reaper' = IF reaper.waitTid = NoThread
                     THEN [reaper EXCEPT !.at = "reload", !.waitTid = Current]
                     ELSE [reaper EXCEPT !.pos = @ + 1]
        /\ UNCHANGED list
  /\ UNCHANGED <<disciplined, ctl, at, sequence, started>>

ReaperReloads ==
  /\ reaper.at = "reload" /\ Live(Current)
  /\ reaper' = [reaper EXCEPT !.at = "scan", !.waitValue = ctl[Current].tid,
                              !.pos = @ + 1]
  /\ UNCHANGED <<disciplined, ctl, at, list, sequence, started>>

ReaperDestroys ==
  /\ reaper.at = "destroy" /\ Live(reaper.victim) /\ Free(reaper.victim)
  /\ reaper' = [reaper EXCEPT !.at = "relock", !.victim = NoThread]
  /\ UNCHANGED <<disciplined, at, list, sequence, started>>

(* At the end of the list the sequence is loaded and the lock released;    *)
(* another round follows if anything was reaped, otherwise a wait.         *)
ReaperEndsScan ==
  /\ reaper.at = "scan" /\ reaper.pos > Len(list)
  /\ reaper' = [reaper EXCEPT !.sequence = sequence,
                  !.at = IF reaper.reaped THEN "lock"
                         ELSE IF reaper.waitTid # NoThread /\ reaper.waitValue # 0
                         THEN "tidWait" ELSE "seqWait"]
  /\ UNCHANGED <<disciplined, ctl, at, list, sequence, started>>

(* The futex waits on the remembered tid word, or on the sequence.         *)
ReaperWaits ==
  /\ \/ /\ reaper.at = "tidWait" /\ Live(reaper.waitTid)
        /\ reaper' = [reaper EXCEPT !.at =
             IF WaitSleeps(ctl[reaper.waitTid].tid, reaper.waitValue)
             THEN "tidAsleep" ELSE "lock"]
     \/ /\ reaper.at = "seqWait"
        /\ reaper' = [reaper EXCEPT !.at =
             IF WaitSleeps(sequence, reaper.sequence) THEN "seqAsleep" ELSE "lock"]
  /\ UNCHANGED <<disciplined, ctl, at, list, sequence, started>>

ReaperInterrupted ==
  /\ reaper.at \in {"tidAsleep", "seqAsleep"}
  /\ reaper' = [reaper EXCEPT !.at = "lock"]
  /\ UNCHANGED <<disciplined, ctl, at, list, sequence, started>>

-----------------------------------------------------------------------------
EnsureStep(a) == EnsureStarted(a) \/ StartReaper(a) \/ PublishReaper(a)
DetachStep(a) == DetachExchange(a) \/ DetachLoad(a)
EnqueueStep(a) == EnqueueClaim(a) \/ EnqueuePush(a) \/ EnqueueBump(a) \/ EnqueueWake(a)
CreateStep(c) == CloneFails(c) \/ Clone(c) \/ StoreTid(c)
JoinStep(c) == JoinTest(c) \/ JoinLoad(c) \/ JoinWait(c) \/ JoinDestroy(c)
ExitStep(c) == KernelClearsTid(c) \/ KernelWakes(c)
ReaperStep == \/ ReaperLocks \/ ReaperTests \/ ReaperReloads \/ ReaperDestroys
              \/ ReaperEndsScan \/ ReaperWaits

(* The steps of a call that has begun, of the exit of a thread and of the  *)
(* reaper; the rest is up to the program, or to a signal.                  *)
Agent(a) == EnsureStep(a) \/ DetachStep(a) \/ EnqueueStep(a)
Own(c) == CreateStep(c) \/ JoinStep(c)

Next ==
  \/ \E c \in Threads : \E role \in Roles : Create(c, role)
  \/ \E c \in Threads : JoinCall(c) \/ JoinInterrupted(c)
  \/ \E c \in Threads : RoutineReturns(c) \/ RoutineExits(c) \/ DestructorsEnd(c)
  \/ \E a \in Agents : DetachCall(a) \/ Agent(a)
  \/ \E c \in Threads : Own(c) \/ ExitStep(c)
  \/ ReaperStep \/ ReaperInterrupted

Spec == Init /\ [][Next]_vars

(* The scheduler runs every thread inside a call or an exit.               *)
FairSpec == /\ Spec
            /\ \A a \in Agents : WF_vars(Agent(a))
            /\ \A c \in Threads : WF_vars(Own(c)) /\ WF_vars(ExitStep(c))
            /\ WF_vars(ReaperStep)

-----------------------------------------------------------------------------
ControlBlocks == [mem : {"unborn", "live", "freed"}, role : Roles, tid : {0, 1},
                  detached : BOOLEAN, queued : BOOLEAN]
ReaperStates == [at : ReaperSteps, pos : Nat \ {0}, victim : Threads \union {NoThread},
                 waitTid : Threads \union {NoThread}, waitValue : {0, 1},
                 sequence : Nat, reaped : BOOLEAN]

TypeOK ==
  /\ disciplined \in BOOLEAN
  /\ ctl \in [Threads -> ControlBlocks] /\ at \in [Agents -> Steps]
  /\ list \in Seq(Threads) /\ Len(list) <= Cardinality(Threads)
  /\ sequence \in 0 .. Cardinality(Threads) /\ started \in {-1, 0, 1, 2}
  /\ reaper \in ReaperStates

Freed(c) == ctl[c].mem = "freed"
Queued(c) == \E i \in DOMAIN list : list[i] = c

(* Nobody is about to touch a control block that has been freed: not the   *)
(* creator or detacher, not the worker, not the reaper through its list or *)
(* the tid word it remembers.  The program's part is that a thread does    *)
(* not end while another one works on it in pthread_create or              *)
(* pthread_detach.                                                         *)
NoUseAfterFree ==
  disciplined => \A c \in Threads : Freed(c) =>
    /\ at[Caller(c)] \notin {"storeTid", "detachCas", "detachLoad", "reapCas", "reapPush"}
    /\ at[Caller(c)] \notin JoinSteps
    /\ at[Worker(c)] \notin {"detachCas", "detachLoad", "reapCas", "reapPush",
                             "exitAttached", "exitDetached", "exit"}
    /\ ~ Queued(c) /\ reaper.victim # c
    /\ reaper.at \in {"tidWait", "tidAsleep"} => reaper.waitTid # c

(* A stack is never unmapped under the thread that runs on it: the join    *)
(* and the reaper give it back only when the kernel has cleared the tid    *)
(* word (pthread_control_destroy and its callers).  However worker,        *)
(* detacher and reaper race, a control block is handed to the reaper once: *)
(* it is not in the list twice, nor there while the reaper destroys it.    *)
FreedOnceAfterExit ==
  /\ \A c \in Threads : Freed(c) => at[Worker(c)] \in {"none", "kernelWake", "dead"}
  /\ \A i, j \in DOMAIN list : list[i] = list[j] => i = j
  /\ ~ Queued(reaper.victim)

(* docs/design/linux_pthread_lifecycle.md, Detached Reaper: a detached     *)
(* worker queues its control block before it exits.  A detached thread     *)
(* that is gone, and that nobody is detaching any more, has been queued.   *)
Missed(c) ==
  /\ ctl[c].detached /\ at[Worker(c)] \in {"kernelWake", "dead"}
  /\ at[Caller(c)] \notin DetachSteps \union EnqueueSteps
  /\ ~ ctl[c].queued

EveryDetachedIsQueued == \A c \in Threads : ~ Missed(c)

(* It holds of a program whose threads do not end while they are being     *)
(* detached: pthread_detach queues those that had ended, and the others    *)
(* see that they are detached - unless the thread detaches itself in a     *)
(* destructor that pthread_exit runs, which has loaded the flag before.    *)
DetachedIsQueued ==
  disciplined => \A c \in Threads : Missed(c) => ctl[c].role = "detachedInExit"

(* The comment in pthread_start: a control block stays until pthread_create*)
(* has finished with it, although a detached routine may end immediately.  *)
CreatorFinishesFirst ==
  \A c \in Threads : at[Caller(c)] = "storeTid" => Live(c)

(* docs/design/linux_pthread_lifecycle.md, Detached Reaper: once the tid   *)
(* word is zero the reaper releases stack and control block.  It does not  *)
(* sleep on the sequence over a queued block whose tid word is 0 unless an *)
(* enqueue is under way that will wake it.                                 *)
ReaperNotStranded ==
  reaper.at = "seqAsleep" /\ (\E c \in Threads : Queued(c) /\ ctl[c].tid = 0) =>
    \E a \in Agents : at[a] \in {"reapBump", "reapWake"}

(* Joining a thread that has exited.                                       *)
JoiningDead(c) == at[Caller(c)] \in JoinSteps /\ at[Worker(c)] = "dead"

(* A join of a thread that has exited returns: the kernel's single wake on *)
(* the tid word is not lost between the joiner's load and its wait.        *)
JoinReturns ==
  (\E c \in Threads : JoiningDead(c)) ~> (\A c \in Threads : ~ JoiningDead(c))
=============================================================================
