----------------------- MODULE NativePthreadLifecycle -----------------------
(***************************************************************************)
(* Creation, exit, join and detach of pthreads in libc/src/pthread.c on    *)
(* the hosts with threads of their own, Windows and macOS.  The control    *)
(* block is shared by the creator, who waits in pthread_create until the   *)
(* new thread has recorded its stack bounds, and by the worker, who frees  *)
(* the block of a detached thread and therefore waits until the creator    *)
(* has published the thread.  The host keeps one reference to the thread   *)
(* that has to be given up once: the handle on Windows, the joinable state *)
(* of the hidden pthread on macOS.                                         *)
(*                                                                         *)
(* A step that touches a control block is disabled once the block is       *)
(* freed, and one that gives up a reference once it is gone: a behaviour   *)
(* ends at its first stale access, and the invariants say that none is     *)
(* about to happen.                                                        *)
(***************************************************************************)
EXTENDS Naturals, CrtWait

CONSTANT Threads        (* the threads that are created, each at most once *)

VARIABLES host,         (* the host the library is built for               *)
          disciplined,  (* TRUE: no thread is detached or calls            *)
                        (*   pthread_exit while pthread_create works on it *)
                        (*   if that would release it, or ends while       *)
                        (*   another thread detaches it                    *)
          ctl,          (* the control blocks                              *)
          refs,         (* the host's reference to each thread: 1 or 0     *)
          at            (* the step each agent is at                       *)

build == <<host, disciplined>>
vars == <<build, ctl, refs, at>>

Caller(c) == <<"caller", c>>
Worker(c) == <<"worker", c>>
Agents == {"caller", "worker"} \X Threads

Roles == {"joined", "createdDetached", "detachedByOther", "detachedBySelf",
          "detachedInDestructor"}

WaitSteps == {"boundsLoad", "boundsWait", "boundsAsleep"}
CreateSteps == {"hostCreate", "storeHandle", "testDetached", "closeNew", "publish"}
                 \union WaitSteps
DetachSteps == {"detachCas", "detachTest", "detachClose"}
JoinSteps == {"joinTest", "joinWait", "joinDestroy"}
WorkerSteps == {"boundsStore", "boundsWake", "run", "destructors", "loadDetached",
                "awaitCreator", "free", "end", "dead"}
Steps == {"none", "idle", "done"} \union CreateSteps \union DetachSteps
           \union JoinSteps \union WorkerSteps

(* handle is the field control->handle or control->native_thread: set or   *)
(* not.  ending and seen belong to the worker: how its routine has ended,  *)
(* and the local `detached' of pthread_start or pthread_exit.              *)
Init ==
  /\ host \in {"windows", "macos"} /\ disciplined \in BOOLEAN
  /\ ctl = [c \in Threads |-> [mem |-> "unborn", role |-> "joined", detached |-> 0,
                               handle |-> FALSE, bounds |-> 0, published |-> 0,
                               ending |-> "none", seen |-> 0]]
  /\ refs = [c \in Threads |-> 0]
  /\ at = [a \in Agents |-> "none"]

Live(c) == ctl[c].mem = "live"
Free(c) == ctl' = [ctl EXCEPT ![c].mem = "freed"]
Goto(a, step) == at' = [at EXCEPT ![a] = step]

(* CloseHandle, or the native pthread_detach.                              *)
GiveUpReference(c) == refs[c] = 1 /\ refs' = [refs EXCEPT ![c] = 0]

-----------------------------------------------------------------------------
(* pthread_create                                                          *)

Create(c, role) ==
  /\ at[Caller(c)] = "none"
  /\ ctl' = [ctl EXCEPT ![c].mem = "live", ![c].role = role,
                        ![c].detached = IF role = "createdDetached" THEN 1 ELSE 0]
  /\ Goto(Caller(c), "hostCreate")
  /\ UNCHANGED <<build, refs>>

HostCreateFails(c) ==
  /\ at[Caller(c)] = "hostCreate" /\ Free(c) /\ Goto(Caller(c), "done")
  /\ UNCHANGED <<build, refs>>

(* The thread runs from here on, before its handle is stored.              *)
HostCreate(c) ==
  /\ at[Caller(c)] = "hostCreate"
  /\ at' = [at EXCEPT ![Caller(c)] = "storeHandle", ![Worker(c)] = "boundsStore"]
  /\ refs' = [refs EXCEPT ![c] = 1]
  /\ UNCHANGED <<build, ctl>>

StoreHandle(c) ==
  /\ at[Caller(c)] = "storeHandle" /\ Live(c)
  /\ ctl' = [ctl EXCEPT ![c].handle = TRUE] /\ Goto(Caller(c), "boundsLoad")
  /\ UNCHANGED <<build, refs>>

(* The creator waits until the thread has recorded its stack bounds.       *)
BoundsLoad(c) ==
  /\ at[Caller(c)] = "boundsLoad" /\ Live(c)
  /\ Goto(Caller(c), IF ctl[c].bounds = 0 THEN "boundsWait" ELSE "testDetached")
  /\ UNCHANGED <<build, ctl, refs>>

BoundsWait(c) ==
  /\ at[Caller(c)] = "boundsWait" /\ Live(c)
  /\ Goto(Caller(c), IF WaitSleeps(ctl[c].bounds, 0) THEN "boundsAsleep" ELSE "boundsLoad")
  /\ UNCHANGED <<build, ctl, refs>>

SpuriousReturn(c) ==
  /\ at[Caller(c)] = "boundsAsleep" /\ Goto(Caller(c), "boundsLoad")
  /\ UNCHANGED <<build, ctl, refs>>

(* control->detached is read anew here: the thread may have set it.        *)
TestDetached(c) ==
  /\ at[Caller(c)] = "testDetached" /\ Live(c)
  /\ Goto(Caller(c), IF ctl[c].detached = 1 THEN "closeNew" ELSE "publish")
  /\ UNCHANGED <<build, ctl, refs>>

(* The reference to a detached thread is given up; the native detach may   *)
(* fail on macOS, and then pthread_create fails with the thread running.   *)
CloseNew(c) ==
  /\ at[Caller(c)] = "closeNew" /\ Live(c)
  /\ \/ /\ GiveUpReference(c) /\ Goto(Caller(c), "publish")
        /\ ctl' = [ctl EXCEPT ![c].handle = (host = "macos")]
     \/ /\ host = "macos" /\ Goto(Caller(c), "done")
        /\ ctl' = [ctl EXCEPT ![c].published = 1] /\ UNCHANGED refs
  /\ UNCHANGED build

Publish(c) ==
  /\ at[Caller(c)] = "publish" /\ Live(c)
  /\ ctl' = [ctl EXCEPT ![c].published = 1] /\ Goto(Caller(c), "idle")
  /\ UNCHANGED <<build, refs>>

-----------------------------------------------------------------------------
(* pthread_detach, by another thread or by the thread itself: in its       *)
(* routine or in the destructor of one of its keys                         *)

DetachCall(a) ==
  LET c == a[2]
  IN  /\ \/ /\ a[1] = "caller" /\ at[a] = "idle" /\ ctl[c].role = "detachedByOther"
            /\ disciplined => at[Worker(c)] \in {"run", "dead"}
         \/ /\ a[1] = "worker"
            /\ \/ at[a] = "run" /\ ctl[c].role \in {"createdDetached", "detachedBySelf"}
               \/ /\ at[a] = "destructors"
                  /\ ctl[c].role \in {"createdDetached", "detachedInDestructor"}
            /\ disciplined => at[Caller(c)] \notin CreateSteps
      /\ Goto(a, "detachCas")
      /\ UNCHANGED <<build, ctl, refs>>

Back(a) == IF a[1] = "caller" THEN "done"
           ELSE IF ctl[a[2]].ending = "none" THEN "run" ELSE "destructors"

DetachExchange(a) ==
  /\ at[a] = "detachCas" /\ Live(a[2])
  /\ \/ ctl[a[2]].detached = 1 /\ Goto(a, Back(a)) /\ UNCHANGED ctl
     \/ /\ ctl[a[2]].detached = 0 /\ ctl' = [ctl EXCEPT ![a[2]].detached = 1]
        /\ Goto(a, "detachTest")
  /\ UNCHANGED <<build, refs>>

(* Windows looks whether there is a handle to close.                       *)
DetachTest(a) ==
  /\ at[a] = "detachTest" /\ Live(a[2])
  /\ Goto(a, IF host = "windows" /\ ~ ctl[a[2]].handle THEN Back(a) ELSE "detachClose")
  /\ UNCHANGED <<build, ctl, refs>>

DetachClose(a) ==
  /\ at[a] = "detachClose" /\ Live(a[2])
  /\ GiveUpReference(a[2]) /\ Goto(a, Back(a))
  /\ ctl' = [ctl EXCEPT ![a[2]].handle = (host = "macos")]
  /\ UNCHANGED build

-----------------------------------------------------------------------------
(* The worker: pthread_windows_start or pthread_macos_start, pthread_start *)
(* and pthread_exit                                                        *)

BoundsStore(c) ==
  /\ at[Worker(c)] = "boundsStore" /\ Live(c)
  /\ ctl' = [ctl EXCEPT ![c].bounds = 1] /\ Goto(Worker(c), "boundsWake")
  /\ UNCHANGED <<build, refs>>

(* Fault: nobody is woken.                                                 *)
BoundsNoWake(c) ==
  /\ at[Worker(c)] = "boundsWake" /\ Goto(Worker(c), "run")
  /\ UNCHANGED <<build, ctl, refs>>

BoundsWake(c) ==
  /\ at[Worker(c)] = "boundsWake" /\ Live(c)
  /\ at' = [at EXCEPT ![Worker(c)] = "run",
                      ![Caller(c)] = IF @ = "boundsAsleep" THEN "boundsLoad" ELSE @]
  /\ UNCHANGED <<build, ctl, refs>>

(* The start routine returns, or calls pthread_exit.  The first runs the   *)
(* destructors of the keys before it looks whether the thread is detached, *)
(* the second after it.                                                    *)
RoutineEnds(c, ending) ==
  /\ at[Worker(c)] = "run"
  /\ disciplined =>
       /\ at[Caller(c)] \notin DetachSteps
       /\ ending = "exit" /\ ctl[c].detached = 1 => at[Caller(c)] \notin CreateSteps
  /\ ctl' = [ctl EXCEPT ![c].ending = ending]
  /\ Goto(Worker(c), IF ending = "return" THEN "destructors" ELSE "loadDetached")
  /\ UNCHANGED <<build, refs>>

(* Fault: a detached thread frees its block without regard to the creator. *)
LoadDetachedOnly(c) ==
  /\ at[Worker(c)] = "loadDetached" /\ Live(c)
  /\ ctl' = [ctl EXCEPT ![c].seen = ctl[c].detached]
  /\ Goto(Worker(c), IF ctl[c].ending = "exit" THEN "destructors"
                     ELSE IF ctl[c].detached = 1 THEN "free" ELSE "end")
  /\ UNCHANGED <<build, refs>>

(* After the routine has returned, a detached thread waits for the creator *)
(* before it frees its block; in pthread_exit the destructors come first.  *)
LoadDetached(c) ==
  /\ at[Worker(c)] = "loadDetached" /\ Live(c)
  /\ ctl' = [ctl EXCEPT ![c].seen = ctl[c].detached]
  /\ Goto(Worker(c), IF ctl[c].ending = "exit" THEN "destructors"
                     ELSE IF ctl[c].detached = 1 THEN "awaitCreator" ELSE "end")
  /\ UNCHANGED <<build, refs>>

(* The destructors have run, and the thread's context is cleared: after    *)
(* them pthread_exit acts on the flag as it was before them.               *)
DestructorsEnd(c) ==
  /\ at[Worker(c)] = "destructors" /\ Live(c)
  /\ Goto(Worker(c), IF ctl[c].ending = "return" THEN "loadDetached"
                     ELSE IF ctl[c].seen = 1 THEN "free" ELSE "end")
  /\ UNCHANGED <<build, ctl, refs>>

AwaitCreator(c) ==
  /\ at[Worker(c)] = "awaitCreator" /\ Live(c)
  /\ ctl[c].published = 1 /\ Goto(Worker(c), "free")
  /\ UNCHANGED <<build, ctl, refs>>

WorkerFrees(c) ==
  /\ at[Worker(c)] = "free" /\ Live(c) /\ Free(c) /\ Goto(Worker(c), "end")
  /\ UNCHANGED <<build, refs>>

ThreadEnds(c) ==
  /\ at[Worker(c)] = "end" /\ Goto(Worker(c), "dead")
  /\ UNCHANGED <<build, ctl, refs>>

-----------------------------------------------------------------------------
(* pthread_join                                                            *)

JoinCall(c) ==
  /\ at[Caller(c)] = "idle" /\ ctl[c].role = "joined" /\ Goto(Caller(c), "joinTest")
  /\ UNCHANGED <<build, ctl, refs>>

(* A joined thread is never detached; a detached one would mean EINVAL.    *)
JoinTest(c) ==
  /\ at[Caller(c)] = "joinTest" /\ Live(c) /\ ctl[c].detached = 0
  /\ Goto(Caller(c), "joinWait")
  /\ UNCHANGED <<build, ctl, refs>>

(* The host's wait for the end of the thread, which gives up the reference.*)
JoinWait(c) ==
  /\ at[Caller(c)] = "joinWait" /\ Live(c) /\ at[Worker(c)] = "dead"
  /\ GiveUpReference(c) /\ Goto(Caller(c), "joinDestroy")
  /\ UNCHANGED <<build, ctl>>

JoinDestroy(c) ==
  /\ at[Caller(c)] = "joinDestroy" /\ Live(c) /\ Free(c) /\ Goto(Caller(c), "done")
  /\ UNCHANGED <<build, refs>>

-----------------------------------------------------------------------------
CreateStep(c) == \/ HostCreateFails(c) \/ HostCreate(c) \/ StoreHandle(c)
                 \/ BoundsLoad(c) \/ BoundsWait(c) \/ TestDetached(c)
                 \/ CloseNew(c) \/ Publish(c)
DetachStep(a) == DetachExchange(a) \/ DetachTest(a) \/ DetachClose(a)
JoinStep(c) == JoinTest(c) \/ JoinWait(c) \/ JoinDestroy(c)
WorkerStep(c) == \/ BoundsStore(c) \/ BoundsWake(c) \/ LoadDetached(c)
                 \/ AwaitCreator(c) \/ WorkerFrees(c) \/ ThreadEnds(c)

Next ==
  \/ \E c \in Threads :
       \/ \E role \in Roles : Create(c, role)
       \/ \E ending \in {"return", "exit"} : RoutineEnds(c, ending)
       \/ DestructorsEnd(c)
       \/ CreateStep(c) \/ SpuriousReturn(c) \/ JoinCall(c) \/ JoinStep(c)
       \/ WorkerStep(c)
  \/ \E a \in Agents : DetachCall(a) \/ DetachStep(a)

Spec == Init /\ [][Next]_vars

(* The host runs every thread inside a call, a start or an end.            *)
FairSpec == /\ Spec
            /\ \A a \in Agents : WF_vars(DetachStep(a))
            /\ \A c \in Threads : /\ WF_vars(CreateStep(c) \/ JoinStep(c))
                                  /\ WF_vars(WorkerStep(c))

-----------------------------------------------------------------------------
ControlBlocks == [mem : {"unborn", "live", "freed"}, role : Roles, detached : {0, 1},
                  handle : BOOLEAN, bounds : {0, 1}, published : {0, 1},
                  ending : {"none", "return", "exit"}, seen : {0, 1}]

TypeOK ==
  /\ host \in {"windows", "macos"} /\ disciplined \in BOOLEAN
  /\ ctl \in [Threads -> ControlBlocks] /\ refs \in [Threads -> {0, 1}]
  /\ at \in [Agents -> Steps]

Freed(c) == ctl[c].mem = "freed"

(* The comment in pthread_start: the block of a detached thread stays      *)
(* until pthread_create has finished with it and returned the id.          *)
CreatorFinishesFirst == \A c \in Threads : Freed(c) => at[Caller(c)] \notin CreateSteps

(* Nobody is about to touch a control block that has been freed: neither   *)
(* the creator nor a detacher nor a joiner, nor the worker itself, though  *)
(* a detached routine may return before pthread_create does.               *)
NoUseAfterFree ==
  disciplined =>
    /\ CreatorFinishesFirst
    /\ \A c \in Threads : Freed(c) =>
         /\ at[Caller(c)] \notin DetachSteps \union JoinSteps
         /\ at[Worker(c)] \in {"none", "end", "dead"}

(* The host's reference is given up once: by the creator, the detacher or  *)
(* the joiner.  Nobody is about to give up one that is gone.               *)
ReferenceGivenUpOnce ==
  disciplined =>
    \A c \in Threads : refs[c] = 0 =>
      /\ at[Caller(c)] \notin {"closeNew", "detachClose", "joinWait"}
      /\ at[Worker(c)] # "detachClose"

(* docs/guides/import_bionic.md: detached creation releases the control    *)
(* block when the worker returns or calls pthread_exit; so does a thread   *)
(* that has detached itself, in its routine or, when the routine returns,  *)
(* in a destructor.  In a destructor that pthread_exit runs it is too late *)
(* for that: the flag has been read, and the block is never freed.         *)
DetachedIsReleased ==
  \A c \in Threads :
    /\ at[Worker(c)] = "dead" /\ ctl[c].detached = 1
    /\ ctl[c].role # "detachedByOther"
    /\ ctl[c].role = "detachedInDestructor" => ctl[c].ending = "return"
    => Freed(c)

(* The comment in pthread_create: the pthread_t is not handed out before   *)
(* the thread has recorded the bounds of its stack.                        *)
BoundsBeforeId ==
  \A c \in Threads :
    at[Caller(c)] \in {"publish", "idle"} \union DetachSteps \union JoinSteps
      => ctl[c].bounds = 1

(* Neither side of the two handshakes waits for ever: pthread_create       *)
(* returns, and a detached thread whose routine has returned is released.  *)
HandshakesEnd ==
  disciplined =>
    \A c \in Threads :
      /\ at[Caller(c)] \in CreateSteps ~> at[Caller(c)] \notin CreateSteps
      /\ at[Worker(c)] = "awaitCreator" ~> Freed(c)
=============================================================================
