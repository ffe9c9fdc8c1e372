---------------------------- MODULE ProcessFork ----------------------------
(***************************************************************************)
(* fork and posix_spawn of libc/src/process.c on the hosts whose kernel    *)
(* copies the process: the copy is one instant of all threads, but only    *)
(* the one that forks goes on in it.  fork runs the application's handlers *)
(* around the copy, posix_spawn does not.                                  *)
(*                                                                         *)
(* A thread is outside the runtime or inside one of its locks, in which    *)
(* case what the lock guards is half changed.  The copies have nothing to  *)
(* do with each other, so one is followed at a time.                       *)
(***************************************************************************)
CONSTANTS Threads, Nobody

VARIABLES at,         (* where each thread is                              *)
          lock,       (* who holds each lock                               *)
          child       (* the copy that is followed                         *)

vars == <<at, lock, child>>

(* malloc.c, tls.c, pthread.c twice, the FILE objects of stdio.c, and the  *)
(* destructors' table of cxa_atexit.c.                                     *)
Locks == {"heap", "registry", "keys", "reaper", "streams", "destructors"}

NoChild == [step |-> "none", thread |-> Nobody, lock |-> [l \in Locks |-> Nobody],
            listed |-> {}, heapWhole |-> TRUE]

Init ==
  /\ at = [t \in Threads |-> "outside"]
  /\ lock = [l \in Locks |-> Nobody]
  /\ child = NoChild

Goes(t, from, to) == at[t] = from /\ at' = [at EXCEPT ![t] = to]

-----------------------------------------------------------------------------
(* Any call that takes a lock of the runtime                               *)

Enter(t, l) ==
  /\ lock[l] = Nobody /\ Goes(t, "outside", l)
  /\ lock' = [lock EXCEPT ![l] = t] /\ UNCHANGED child

Leave(t, l) ==
  /\ Goes(t, l, "outside")
  /\ lock' = [lock EXCEPT ![l] = Nobody] /\ UNCHANGED child

-----------------------------------------------------------------------------
(* The process that forks                                                  *)

(* __crt_atfork_prepare: the handlers run before any lock is taken.        *)
Prepare(t) == Goes(t, "outside", "prepare handlers") /\ UNCHANGED <<lock, child>>

(* Fault: the copy is made whatever another thread does to the heap.       *)
BeforeForkUnlocked(t, from, to) == Goes(t, from, to) /\ UNCHANGED <<lock, child>>

(* __crt_malloc_before_fork                                                *)
BeforeFork(t, from, to) ==
  /\ lock["heap"] = Nobody /\ Goes(t, from, to)
  /\ lock' = [lock EXCEPT !["heap"] = t] /\ UNCHANGED child

Copy(t) ==
  [step |-> "reset threads", thread |-> t, lock |-> lock, listed |-> Threads,
   heapWhole |-> \A u \in Threads : at[u] # "heap"]

(* The system call, which may also fail                                    *)
SysFork(t, from, to) ==
  /\ Goes(t, from, to) /\ UNCHANGED lock
  /\ child' \in {child} \union (IF child = NoChild THEN {Copy(t)} ELSE {})

(* __crt_malloc_after_fork_parent, after success and error                 *)
AfterForkParent(t, from, to) ==
  /\ Goes(t, from, to)
  /\ lock' = [lock EXCEPT !["heap"] = Nobody] /\ UNCHANGED child

ParentHandlersEnd(t) == Goes(t, "parent handlers", "outside") /\ UNCHANGED <<lock, child>>

Fork(t) ==
  \/ Prepare(t)
  \/ BeforeFork(t, "prepare handlers", "fork")
  \/ SysFork(t, "fork", "forked")
  \/ AfterForkParent(t, "forked", "parent handlers")
  \/ ParentHandlersEnd(t)

(* __crt_sys_posix_spawn                                                   *)
Spawn(t) ==
  \/ BeforeFork(t, "outside", "spawn")
  \/ SysFork(t, "spawn", "spawned")
  \/ AfterForkParent(t, "spawned", "outside")

-----------------------------------------------------------------------------
(* The copy: crt_runtime_after_fork_child, hook after hook                 *)

ChildGoes(from, to, c) ==
  /\ child.step = from /\ child' = [c EXCEPT !.step = to] /\ UNCHANGED <<at, lock>>

Reset(c, ls) == [c EXCEPT !.lock = [l \in Locks |-> IF l \in ls THEN Nobody ELSE @[l]]]

(* __crt_thread_after_fork_child: the table is emptied and the thread      *)
(* enters itself.                                                          *)
ResetThreads(c) == [Reset(c, {"registry"}) EXCEPT !.listed = {c.thread}]

(* __crt_pthread_after_fork_child                                          *)
ResetPthread(c) == Reset(c, {"keys", "reaper"})

(* __crt_malloc_after_fork_child                                           *)
ResetMalloc(c) == Reset(c, {"heap"})

(* __crt_stdio_after_fork_child                                            *)
ResetStdio(c) == Reset(c, {"streams"})

(* After fork the child's handlers and the application run, after          *)
(* posix_spawn the file actions and the export of the descriptors; both    *)
(* allocate.                                                               *)
ChildRuns ==
  \/ ChildGoes("reset threads", "reset pthread", ResetThreads(child))
  \/ ChildGoes("reset pthread", "reset malloc", ResetPthread(child))
  \/ ChildGoes("reset malloc", "reset stdio", ResetMalloc(child))
  \/ ChildGoes("reset stdio", "runs", ResetStdio(child))
  \/ ChildGoes("runs", "none", NoChild)

Next ==
  \/ \E t \in Threads : Fork(t) \/ Spawn(t)
  \/ \E t \in Threads, l \in Locks : Enter(t, l) \/ Leave(t, l)
  \/ ChildRuns

Spec == Init /\ [][Next]_vars

-----------------------------------------------------------------------------
Handlers == {"prepare handlers", "parent handlers"}

(* docs/design/process_fork.md: the application's handlers can allocate:   *)
(* those of the parent run while their thread holds no lock, those of the  *)
(* child, like the rest of its code, on a heap that no other thread had    *)
(* half changed, with none of the locks the document names left to a       *)
(* thread that is gone and no such thread in the registry.  The lock of    *)
(* the destructors' table is not among them, nor reset.                    *)
EverybodyCanAllocate ==
  /\ \A t \in Threads : at[t] \in Handlers => \A l \in Locks : lock[l] # t
  /\ child.step = "runs" =>
       /\ child.heapWhole /\ child.listed = {child.thread}
       /\ \A l \in Locks \ {"destructors"} : child.lock[l] = Nobody
=============================================================================
