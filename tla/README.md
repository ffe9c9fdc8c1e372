# Formal models of the CRT runtime

CRT is a C runtime (libc, libm, libdl) with media, graphics, user interface and
web libraries on top, built with one source tree for Linux, macOS and Windows.
This directory holds TLA+ models of the parts of it that are hardest to test: the
threads layer every other library stands on, with the registry of threads, the heap
and fork, and the threaded HTTP transport of the media library. TLC checks the
models on small instances; TLAPS proves every safety property the runs check, and the
three refinements, for every instance. All paths below are relative to the repository's
root; `pthread.c` is `libc/src/pthread.c`, and the files of `libcrtmedia/src/` go by
their names.

## 1. Inventory

Modelled parts are in bold; `PROJECT.json` lists every part with its status.

| Part | State it keeps | Operations | Interacts through | What is hard | What makes it correct |
|---|---|---|---|---|---|
| **wait layer** `libc/src/wait.c` | none: words of its callers | wait on a word while it has a value, wake one, wake all | host futex, `ulock`, `WaitOnAddress` | a wait may return without cause or at its deadline | no sleep on a changed word; a wake reaches a sleeper |
| **mutex** `pthread.c:971-1140` | state, count, two owner words | lock, trylock, timedlock, unlock | wait layer | lost wakeups, the owner in two words, nesting | exclusion, exact owner test, exact count, progress |
| **rwlock** `pthread.c:1242-1361` | one word: -1 or readers | rdlock, wrlock, try forms, unlock | wait layer | racing exchanges, wake only at zero | the word is its holders; nobody sleeps on a free lock |
| **barrier** `pthread.c:672-733` | count, waiters, generation | wait | wait layer | reuse for the next round | nobody early, one serial thread, opens |
| **condition variable** `pthread.c:779-907` | sequence, waiters | wait, timedwait, signal, broadcast | mutex, wait layer | unlock-then-sleep, timeouts, newcomers | no lost signal, all reached by a broadcast |
| **semaphore** `libc/src/semaphore.c` | count | post, wait, trywait, timedwait | wait layer | exchange loops, the limit, timeouts | tokens conserved, sleepers served |
| **Linux thread lifecycle** `pthread.c:453-606, 1846-1973, 2074-2169, 2384-2401` | control blocks, tid words, reap list, reaper state | create, exit, join, detach, reap | kernel's clear-tid, futex | blocks freed under a late reader, blocks freed by nobody, waits for a wake that is past | each stack and block given back exactly once, after its last use |
| **native thread lifecycle** (Windows, macOS) `pthread.c:590-669, 1872-2144, 2384-2416` | control blocks, the host's reference to each thread | same calls | host threads, wait layer | the creator waits for the worker's stack bounds, a detached worker for the creator | freed once, after its last use; reference given up once |
| **thread-specific data** `pthread.c:376-378, 410-444, 1485-1534` | key table, per-thread values | create, delete, get, set, destructor passes | thread exit | reuse of a slot while another thread ends, destructors that set values, create and delete keys | a value is seen and destroyed under its own key only; an ended thread leaves none |
| once, spin locks `pthread.c`, `crt_atomic.h` | one word each | once, lock, unlock | none | a late caller must wait for the first | run once, exclusion |
| **thread registry** `libc/src/tls.c` (Linux) | open-addressed table of keys, control blocks, contexts | register, look up by id, scan for a block, leave | thread start and exit, signal handlers | readers without a lock beside a slot that is emptied and refilled | a thread finds its own context, a scan tells live from dead |
| **allocator** `libc/src/malloc.c` | mappings, blocks and their chain, free lists | malloc, free, realloc, over-aligned forms | one spin lock, `mmap` | splitting, merging, marks of blocks long merged | chain, lists and mappings agree; callers' blocks are their own |
| **fork and spawn** `libc/src/process.c` | handler list, locks of the runtime | fork, posix_spawn, reset in the child | everything that holds a lock | a copy taken while other threads are inside locks | handlers can allocate, the child starts on a whole heap |
| waiting for children, exit handlers `process.c`, `exit.c` | children, tables | wait, atexit, exit | host | registration beside a walk | each handler once |
| signals `libc/src/signal.c` | masks, handlers | sigaction, mask, wait, raise | host delivery | asynchronous delivery | no lost or double delivery |
| descriptors, sockets, poll, stdio | descriptor table, buffers | open, close, dup, read, ... | host | reuse of a number while in use | a number names one object |
| **media transport queue** `transport_queue.c` | ring, watermarks, end, failure and cancel flags, waiter count | write, write_eof, write_error, read, cancel, release | mutex, condition variables | backpressure, deadlines, teardown under sleepers | a byte stream with one end; nobody left asleep or on freed memory |
| **media HTTP upload** `http_upload.c` | worker thread inside curl, queue, result | open, write, finish, close | queue, thread, curl | join once, an early end of the worker, cancel against finish | no success after a failed call or a refusal; joined once, before the queue is freed |
| **media HTTP source** `http_transport.c`, `http_avio.c` | connection with worker and queue; position, validator, retries | open, read, resume, seek, close | queue, thread, curl | lost connections, servers that ignore ranges, replaced resources, retries | no gap, no splice, a loss is not an end, calls return |
| player, codecs, graphics, UI, web | host objects | thin wrappers | callbacks | ordering of host callbacks | -- |
| strings, locale, time, printf ... | none shared | pure functions | -- | -- | -- |
| vendored code (`third_party/`, `libm/`, `libstdc++/`, `shell/`) | -- | -- | -- | not this program's own core | -- |

Components interact in three ways: by shared words in the caller's memory (all
locks, the registry), by control blocks of threads and queues, which are memory with
a life of its own, and by calls under a lock. The first is why the lock models are at
the grain of single atomic accesses; the second is why the lifecycle models say of
every access whether the block is live, and the queue's whether its storage is. What
works under a lock for the length of a call (the heap, the queue between two waits)
is one step, since the lock is shown to exclude.

## 2. Modules

| Module | Models | Checked by |
|---|---|---|
| `CrtWait` | the compare-and-sleep test and the choice of sleepers a wake reaches | used by all locks |
| `MutexSpec` | abstract recursive lock: who holds it, how often | property of the mutex run |
| `PthreadMutex` | `pthread_mutex_*` | `MCPthreadMutex` |
| `PthreadMutexProofs` | proofs about `PthreadMutex` | TLAPS |
| `RwlockSpec` | abstract reader/writer lock | property of the objects run |
| `PthreadRwlock` | `pthread_rwlock_*` | `MCPthreadObjects`, `MCPthreadRwlock` |
| `PthreadBarrier` | `pthread_barrier_wait` | `MCPthreadObjects` |
| `PosixSemaphore` | `sem_*` | `MCPthreadObjects` |
| `PthreadObjects` | one of semaphore, rwlock, barrier, native lifecycle, chosen by the first state | `MCPthreadObjects` |
| `PthreadObjectsProofs` | proofs about semaphore, rwlock, barrier and native lifecycle | TLAPS |
| `PthreadCond` | `pthread_cond_*` | `MCRuntimeObjects` |
| `PthreadCondProofs` | proofs about `PthreadCond` | TLAPS |
| `LinuxPthreadLifecycle` | create, exit, join, detach, reaper on Linux | `MCLinuxPthreadLifecycle` |
| `LinuxLifecycleProofs` | proofs about `LinuxPthreadLifecycle` | TLAPS |
| `NativePthreadLifecycle` | create, exit, join, detach on Windows and macOS | `MCPthreadObjects`, `MCNativePthreadLifecycle` |
| `PthreadKeys` | `pthread_key_*`, values, destructors of an ending thread | `MCRuntimeObjects` |
| `ThreadRegistry` | the Linux registry of `tls.c` | `MCRuntimeObjects`, `MCThreadRegistry` |
| `ProcessFork` | fork, posix_spawn, the reset in the child | `MCRuntimeObjects` |
| `Allocator` | the heap of `malloc.c` | `MCRuntimeObjects` |
| `AllocatorProofs` | proofs about `Allocator` | TLAPS |
| `RuntimeObjects` | one of condition variable, registry, fork, keys, heap, chosen by the first state | `MCRuntimeObjects` |
| `RuntimeObjectsProofs` | proofs about registry, fork, keys and, by `PthreadCondProofs` and `AllocatorProofs`, condition variable and heap | TLAPS |
| `ByteStream` | abstract stream of bytes with one end | property of the queue run |
| `TransportQueue` | `crtmedia_transport_queue_*` | `MCTransportQueue` |
| `HttpUpload` | client and worker of an upload, over `TransportQueue` | `MCTransportQueue` |
| `TransportProofs` | proofs about `TransportQueue` and `HttpUpload` | TLAPS |
| `HttpSource` | request, worker, byte stream with resume and seek | `MCHttpSource` |
| `HttpSourceProofs` | proofs about `HttpSource` | TLAPS |

How state and actions correspond to the code:

* A thread runs one call at a time. `pc[t]` names its next shared access; an
  action is the code from one shared access up to the next, with every branch
  taken on the value read. A compare-and-exchange is one action with a success
  and a failure disjunct. The locals that live across accesses are variables
  (`seen`, `value`, `lowSeen`, ...), reset when the call returns.
* A wait is two steps, as in the kernel: the comparison that decides to sleep and
  the wake. A sleeper may also return without cause (`SpuriousReturn`), which the
  hosts allow and the code's loops expect; timed calls may time out.
* A wake of one picks any sleeper, except in `PthreadCond`, which looks at both
  kinds of host: those that wake in order of arrival and those that wake any. The order
  is the relation `ahead` between sleepers.
* Time is not modelled: a deadline is a choice, at each place where the code
  looks at the clock, between still ahead and passed.
* Ghost variables (`held`, `hold`, `posted`, `taken`, `entered`, `left`, `serial`,
  `promised`, `broadcast`) record what the callers know; no guard of a modelled
  step depends on them except where the *caller's* discipline is the guard (only a
  reader unlocks what it holds, a normal mutex is not relocked by its holder).
* `PthreadCond` has the mutex as one step: its own run shows it is one.
* In `LinuxPthreadLifecycle` a caller and a worker agent act per thread, and the
  reaper is one more process. A step that touches a freed block is disabled and
  `NoUseAfterFree` says that no agent is ever at such a step. The kernel's
  clearing of the tid word and the wake that follows it are two external steps.
* A thread ends in two ways, in both lifecycle modules. When its routine returns, the
  key destructors run and the detached flag is loaded after them; `pthread_exit` loads
  the flag, runs the destructors and then acts on the value it has loaded. A destructor
  may detach its own thread: the roles `detachedInExit` (Linux) and
  `detachedInDestructor` (native).
* The count of `PthreadBarrier` is the word `pthread_barrier_init` stores, chosen in the
  first state from `Counts`: fewer threads than it may use the barrier, as many, or more.
* `NativePthreadLifecycle` has the same two agents per thread and no reaper. The
  host is chosen in the initial state; what the host keeps for a thread, a handle
  or a joinable thread, is one reference that `refs` counts. Ending the thread and
  waiting for its end are external.
* `PthreadKeys` takes each look at a slot under the keys' spin lock as one step. Slots
  are used again, keys are numbered, and a value is the number of the key it was stored
  for. A destructor is a state of its thread in which it may make every call itself.
* `ThreadRegistry` takes writers and lock-free readers store by store and load by
  load; the writers' spin lock makes their calls exclude each other.
* `Allocator` counts memory in units of 16 bytes and keeps, beside the blocks, the
  one word of each unit that `free` looks at: old marks stay until something is
  written over them. A mapping may come to lie at any free place. Callers fill what
  they asked for; what else they write into it is theirs.
* `ProcessFork` takes a thread inside a lock as one state in which what the lock
  guards is half changed. A child is a record of what was copied, followed through
  the hooks of its reset; one child at a time is followed, as copies are independent.
* `TransportQueue` is a monitor: the code holds the lock from one wait to the next,
  so an action is a call, or what follows a wait, up to the next wait or the return.
  A wait may end by a signal, without cause, or by its deadline; `release` waits for
  the sleepers to leave. `ImplementsByteStream` maps it to `ByteStream`.
* `HttpUpload` extends the queue: a write of the client and a read by curl are the
  queue's own actions joined with those of client and worker. The server may answer at
  any time and with any status; `patient` is the habit of one that answers 2xx only after
  it has read the body to its end.
* `HttpSource` has two connections, the one in use and the one being opened, each
  with worker and queue, the latter at the level of `ByteStream`. Bytes are numbered
  and carry the version of the resource they come from, so that a gap or a splice is
  visible. curl and the server are external and do what the protocol allows; the
  variable `habit` says how much of that a server makes use of: it sends all that is asked
  for, or shorter ranges too, or answers with any 2xx status. What the properties promise
  of each is stated with it. Of a connection that has been closed only what its worker
  has still to do is kept.
* In both lifecycle modules the initial state also chooses whether the program is
  `disciplined`: then nothing ends a thread while `pthread_detach` by another
  thread, or `pthread_create`, works on it in a way the code does not guard.
  Properties that need the discipline say so; the others hold without it.

Each module keeps, beside an action, a faulty form of it (their comments start
with "Fault:"). They are not part of `Next`; each is what a plausible slip in that code
would be, and putting it in place of the action violates the property it is kept for
(`mutants` in `PROJECT.json`).

## 3. Runs

| Run | Instance | What it shows |
|---|---|---|
| `mutex` | 3 threads, nesting to 2, all three types | type, `MutualExclusion`, `OwnerTestExact`, `CountIsDepth`, `NoLostWakeup`, the refinement of `MutexSpec`, and `WaitersProgress` |
| `pthread_objects` | one of four objects, chosen in the first state: semaphore (3 threads, 3 posts, maximum 2), rwlock (3 threads), barrier (3 threads, 2 rounds, counts 2, 3 and 4), native lifecycle (1 thread and its creator, both hosts) | `TokensConserved`, the limit (in `TypeOK`), `NoTokenUnclaimed`, `SleepersServed`; the word and the sleepers of the rwlock (`SleepersNotStranded`) and the refinement of `RwlockSpec`; `RoundsAreExact`, `BarrierOpens`; `FreedOnceAfterLastUse`, `HandshakesEnd` |
| `runtime_objects` | one of five: condition variable (3 threads, 2 signals or broadcasts, both kinds of host), registry (3 threads, 3 slots, every hash function), fork (3 threads), keys (3 threads, 2 slots, 2 keys, 2 passes), heap (2 mappings, 2 allocations, 2 sizes) | `WaitersCounted`, `WakesReachWaiters` (no broadcast missed; in order of arrival no signal lost); `RegisteredFindsItself`, `ScanIsExact`; `EverybodyCanAllocate`; `ValuesMeetTheirDestructor`; `HeapIsWhole`, `CallersHaveTheirOwn` |
| `lifecycle` | 2 threads, disciplined or not | `NoUseAfterFree`, `DetachedIsQueued` (disciplined; without the detach in a destructor of `pthread_exit`); `FreedOnceAfterExit`, `JoinReturns` |
| `transport_queue` | ring of 3 bytes, 4 bytes to send, every pair of watermarks; queue alone or under an upload, to a patient server or not | `SleepersHaveCause`, `NobodyWaitsOnFreedQueue`, the refinement of `ByteStream`, `CancelReleasesEverybody`; `FinishIsHonest`, `JoinedOnceBeforeFree`, `UploadCallsReturn` |
| `http_source` | resource of 2 bytes in 2 versions, queues of 1 byte, the code's 3 retries, every habit of the server | `NoGapNoSplice`, `LossIsNotTheEnd`, `RetriesBounded`, `CallsReturn` |
| `rwlock_stranded` | 3 threads | counterexample, finding 1 |
| `lifecycle_leak`, `lifecycle_reaper` | 2 threads | counterexamples, findings 2 and 3 |
| `native_exit` | 2 threads, both hosts | counterexample, finding 4 |
| `source_close` | as `http_source` | counterexample, finding 5 |
| `registry_lookup` | 3 threads, 3 slots | counterexample, finding 6 |

Components that share no state share a run where their state spaces are small: the
first state chooses the object, and the steps are that object's own.

**Bounds.** `MaxDepth`, `MaxReads`, `MaxPosts`, `SemValueMax`, `MaxSignals` and
`MaxRounds` cap counters of the callers; each is large enough that the case it
bounds happens more than once (a nested lock inside a nested lock, a second
round while a slow thread is still in the first, a post at the limit, a second
signal while a thread still leaves after the first). Three threads are the least with which a waker, a sleeper
and a newcomer meet, which is the shape of every lost wakeup here, and in the
registry the least with which a leaver and a newcomer collide with a third. Two
threads with a reaper give the Linux lifecycle four agents on one list; on the
native hosts threads share nothing, so that one is enough. `Capacity` and `MaxBytes`
of the queue make chunks wrap around, be cut short and leave in other portions;
those of the source make connections break before and between bytes that are still
queued, let a range end before the resource does, and make a worker wait for room that
only the reader or a close gives it (reads of less than what is queued are the queue's
own runs' to check). Three threads under a barrier of count 2 bring a thread between
the reset and the advance of a round; under 3 a thread of the second round meets one that
still sleeps in the first; under 4 the barrier stays shut. `Chunk` gives a mapping room for two or three blocks, `Places`
lets two mappings touch in either order, `MaxLive` bounds the allocations held (a
move holds one more), and the sizes are such that an over-aligned pointer can come
to lie right behind the mark of a block that has been merged. With two keys (`MaxCreated`)
and two slots (`KeysMax`) a key that is created after one was deleted takes its slot for
the second time, before or behind the place where an ending thread looks; two
`Passes` (the code has four) make a pass that is
followed by another and a last one.

**Deadlock** is checked in `mutex`, `pthread_objects` and `runtime_objects`: there
always is a call to make or, in the barrier and the native lifecycle, an explicit
end. It is not checked for the Linux lifecycle, the queue and the source: the
program comes to its end there with every thread joined or reaped, the queue freed,
the stream closed.

**Symmetry** of the threads is used in `runtime_objects`, which asks only for safety
and whose threads are interchangeable (`hash` is a variable, not a constant).

**Fairness.** Only steps inside a call are fair (weakly, per thread or agent): the
host schedules a thread that can run. Nothing is assumed of callers (who may
keep a lock for ever), of timeouts, or of wake-ups without cause, so no liveness
property can be satisfied by a lucky timeout. The lifecycle modules are fair to the
steps of a call, of a thread's start and end, and of the reaper; a worker's routine
need not end, so a join of it need not return. In an upload curl is not fair to the
network's part: `UploadCallsReturn` speaks of calls whose worker has ended or is told
to. `HttpSource` states two specifications: `LocalSpec` is fair to the program's
threads, `FairSpec` also to a network in which a connection goes on until it ends or
breaks; `CallsReturn` needs the second, and finding 5 is what the first leaves. The
condition variable has no liveness run: `WakesReachWaiters` says in a state predicate
what must hold once no thread has a step left inside a call.

## 4. Findings

1. **A writer can sleep on a free rwlock** (`pthread.c:1318`). After a failed
   exchange `pthread_rwlock_wrlock` loads the word anew and waits on what it reads.
   If the holder has left in between, that is 0, and the writer waits for 0 to
   change although no wake is left. `rwlock_stranded` shows the state.
   `WritersNotStranded` shows that a writer that read a nonzero word is safe.
2. **A detach can leave a thread to nobody** (`pthread.c:605, 2390, 2111`). The
   worker looks at its detached flag, a detach sets the flag and sees a live tid,
   the worker exits: neither queues the block. `lifecycle_leak`. No second thread is
   needed: see the second of the limits below.
3. **The reaper can sleep on finished work** (`pthread.c:523`). It reads the tid
   word twice. If the kernel clears it between, the reaper waits on the queue's
   sequence and the block stays on the list until the next detached thread ends.
   `lifecycle_reaper`.
4. **On Windows and macOS `pthread_exit` skips the handshake**
   (`pthread.c:2399`). A detached routine that returns waits for
   `creation_published`; one that calls `pthread_exit` frees its control block at
   once, with `pthread_create` still using it. `native_exit`.
5. **Closing a source can wait for the server** (`http_transport.c:381`). Only a
   worker inside the write callback learns of the cancellation; one that waits in
   curl for a silent server does not, and the close joins it. The upload has a
   progress callback for this. `source_close`.
6. **An old key can be paired with a new context** (`libc/src/tls.c:113`). The order
   of the stores that a comment says prevents it cannot: the reader loads the key
   first. Only a thread that has left the registry can see it. `registry_lookup`.

Limits the models show beside these:

* A barrier that more threads use than its count lets one of them pass early: it loads
  the generation and arrives between the reset and the advance (`pthread.c:711-715`),
  passes as the generation changes, and leaves its arrival counted for the next round,
  which then opens with an arrival less. `NotOverused` marks what holds only without
  such threads; `OpeningsPaid`, at most one serial return a round, and that nobody sleeps
  through an opening hold with them.
* A key destructor that `pthread_exit` runs may detach its own thread, but the flag has
  been read before (`pthread.c:2390`, acted on at 2399): on Windows and macOS the control
  block is never freed, on Linux never queued for the reaper. When the routine returns
  instead, the flag is read after the destructors and the block is given back.
  `DetachedIsReleased` and `DetachedIsQueued` except this case and nothing else of it.
* A server that answers an upload with 2xx before it has read the body ends the transfer
  well: `finish` looks at curl's result and the status, not at whether the read callback
  has reached the end (`http_upload.c:85, 228-234`), and reports success for a body cut
  short. The worker cancels the queue only if it has not succeeded (85-88), so that a
  write that is blocked on the full queue (195) then stays blocked. `FinishIsHonest` and
  `UploadCallsReturn` say what a patient server rules out.
* Without a validator a seek is content with every 2xx status but 200 and 206
  (`http_transport.c:162`): a 203 to a request at an offset delivers the bytes from the
  start, as if they were those at the offset. `http_transport.h:30` calls any such status
  an error. `NoGapNoSplice` promises no order of bytes there; with a validator it does.
* The end of a range, which a truthful 206 may put before the end of the resource, is not
  read (`http_transport.c:118-124`), nor is the position compared with the size when the
  body ends (`http_avio.c:114`): a short 206, or an empty 204, reads as a clean end of the
  stream. `LossIsNotTheEnd` promises the end of the resource only of a server that sends
  what is asked for, and of every other that all the response carries has been read.
* A child of fork resets the locks that `docs/design/process_fork.md` names, and no
  others: those of the destructors' table (`libc/src/arch/linux/common/cxa_atexit.c:72`),
  of the thread-local storage layout (`thread_tls.c:105`) and of gdtoa
  (`gdtoa_support.c:28`) may stay with a thread that is gone. `EverybodyCanAllocate`
  leaves `"destructors"`, which stands for them, out; with it, it fails.
* A worker created detached can be freed under its creator on Linux
  (`pthread.c:1956`): the handshake described at `pthread.c:608` is compiled for
  Windows and macOS only.
* On Linux a detach that races the worker's exit may read a freed block
  (`pthread.c:2111`); on Windows and macOS it may read and write one. This is the
  race the `disciplined` programs do not have.
* On Windows and macOS a thread that is detached after it has ended, or while it
  ends, is never freed: only the worker frees a detached block, and it looks at the
  flag once. `DetachedIsReleased` therefore speaks of threads created detached or
  detached by themselves.
* On Windows and macOS a thread that detaches itself while `pthread_create` is
  still at work can make the creator give up the reference a second time.
* On hosts that wake sleepers in any order a signal can be taken by a thread that
  started to wait after it (`SignalReleasesOne` without its `fifo` guard fails).
* `pthread_key_delete` clears the value of the calling thread only (`pthread.c:1513`): a
  value of another thread stays in its slot, is found there under the next key and goes
  to that key's destructor. POSIX leaves such values to the program, and `MayDelete`
  therefore takes programs that delete a key when no other thread has a value.
* A resumed or sought connection of a source whose server gives no validator may go
  on in another version (`NoGapNoSplice` excepts it), and a response that does not
  tell where it ends cannot be told from a lost one (`LossIsNotTheEnd` excepts it).
* An informational response (1xx) is taken as the final one (`http_transport.c:130`).
* `release` of the queue waits for threads inside the queue's waits. One that has yet
  to take the lock for the first time is the caller's to exclude.
* A wait that returns without cause starts its full timeout anew
  (`transport_queue.c:78-94` is called again with the same limit).

## 5. Proofs

Every theorem is about a specification that a run checks, for every value of its
constants that the assumptions allow; a run checks the same definition on a small
instance. The theorem's property is in the column after its name.

**Mutex** (`PthreadMutexProofs`)

| Theorem | States |
|---|---|
| `MutexTyped`, `MutexExcludes`, `OwnerTestIsExact`, `CountIsCallersDepth`, `WakeupsAreNotLost` | `TypeOK`, `MutualExclusion`, `OwnerTestExact`, `CountIsDepth`, `NoLostWakeup` |
| `Implements` | `Spec => ImplementsMutexSpec` |

`OwnerHalves`: the low halves of two thread ids differ and are not zero. The code needs
it: the owner is read in two loads and a mixture of two ids must not be a third.
`DepthBound` names the bound on nesting. None of the properties is inductive. `IInv`
adds: which steps belong to the holder (`HolderSteps`), what the two owner words hold at
each of the holder's steps (`OwnerWords`), that a thread that has read its own low half
is the owner or will read a high half that is not its own (`LowHalfSeen`), that the count
matches the depth away from the two places that change it (`CountMatches`), and that only
lock calls sleep (`WaitersOp`). The refinement maps `held` to itself: the successful
exchange is `Acquire`, the owner test that counts up is `Reacquire`, the unlock that
counts down or begins to give back is `Release`, and every other step is a stutter.

**Semaphore** (`PthreadObjectsProofs`; `SemaphoreInside` says that the composition's
semaphore satisfies the specification the theorems are about)

| Theorem | States |
|---|---|
| `CountWithinLimits`, `TokensAreConserved`, `EveryTokenHasAnAgent` | `TypeOK`, `TokensConserved`, `NoTokenUnclaimed` |

`SemaphoreAssumption`: finitely many threads, a positive maximum and an initial value
within it, which `sem_init` checks. The bounds and the conservation need two more facts:
a thread that tries to take a token has seen a positive count (`TakersSawToken`, or the
exchange could store -1), and only waiting calls are at the steps of a waiting call
(`WaitersOp`). `NoTokenUnclaimed` is inductive given these: a post adds a token and an
agent at once, a wake replaces the agent by the thread it woke, a taker leaves with its
token, and a thread lies down or gives up only on the count 0.

**Rwlock, barrier, native lifecycle** (`PthreadObjectsProofs`, of `PthreadObjects`)

| Theorem | States |
|---|---|
| `NobodyStranded` | `SleepersNotStranded` |
| `RwlockRefines` | `ObjectsSpec => ImplementsRwlockSpec` |
| `RoundsExact` | `RoundsAreExact` |
| `NativeFreedOnce` | `FreedOnceAfterLastUse` |

`ObjectsAssumption` asks for a thread and for bounds that are numbers, and
`SemaphoreAssumption` for finitely many threads. A step of one object leaves the variables
of the others alone, so each object has an invariant of its own:

* `RwlockInv`: the word is the number of readers or -1 for a writer, and each call knows
  of its own locks what the step it is at supposes (`CallWell`: an unlock that stores has
  the write lock, one that subtracts a read lock, an exchange to read has seen no writer).
  The arithmetic of readers is that of the set of read locks (`ReadLockTaken`, `ReadLocksFinite`).
  Successful exchanges are the abstract lock's `Read` and `Write`, the store and the
  subtraction its `Release`.
* `BarrierInv` has a part for any number of threads and one for as many as the count or
  fewer. `AnyThreads`: the arrivals that have been counted pay for the rounds that were
  opened and for those in the word (`ResetsPaid`), only one thread can have made the word
  reach the count (`OneResets`), and each generation has one serial return, given or to
  come (`SerialsCounted`). `Exact`: `Place` relates the round a thread is in to the
  generation it has read; while one thread closes a round all the others wait in it
  (`OneCloses`), so that between the reset of the word and the new generation nobody
  can arrive; the word counts the arrivals of the open round (`ArrivalsCounted`).
* `NativeInv`: `RolesKept` on every schedule, `LifeKept` on those whose program is
  `disciplined`: for each step of the creator's side and of the thread, who may still find
  the block there and who may still give up the host's reference. What the thread has seen
  of its flag, and whether its routine returned, decides who frees the block.

**Condition variable** (`PthreadCondProofs`; `WaitersCountedExactly` and `WakesArrive` in
`RuntimeObjectsProofs` carry it over to the composition)

| Theorem | States |
|---|---|
| `WaitersCountedExactly` | `WaitersCounted` |
| `NoWakeIsLost`, `WakesArrive` | `BroadcastReachesAll`, `SignalReleasesOne`; together `WakesReachWaiters` |

`CondAssumption`: finitely many threads. In `CondInv` the sleepers form a total order in
which those further back have seen no smaller sequence (`Line`); a thread that a signal
was meant for stays among the blocked ones, and whoever lies down later has seen that
signal (`Promises`); and where the order is kept the wake is still to come or has
reached one of those it was meant for (`WakeIsDue`). That the line has a first sleeper
(`LineHasFirst`) is where finiteness is needed: the wake takes a first one, and by `Line`
that is one the signal was meant for, if any of those is still asleep.

**Registry, fork, keys** (`RuntimeObjectsProofs`, of `RuntimeObjects`)

| Theorem | States |
|---|---|
| `RegisteredFind`, `ScansAreExact` | `RegisteredFindsItself`, `ScanIsExact` |
| `EverybodyAllocates` | `EverybodyCanAllocate` |
| `ValuesAreDestroyed` | `ValuesMeetTheirDestructor` |

`ObjectsAssumption`: the table has a slot for every thread (a thread that finds none
ends the program, `tls.c:109`), and the sizes are numbers.

* `RegistryInv` says of the table that a context lies in one slot, with its own key and
  block (`ContextsHaveKeys`), that the slot being filled is free and on the way of the one
  thread that fills it (`FillingWell`), and that a registered thread's slot is the first on
  its way to stop a search (`RegisteredSits`): leaving keeps the key in the slot, so no
  search is cut short. `LookUpInv` and `ScanInv` say of a reader between two loads
  that it has not passed the slot it looks for.
* `ForkInv`: a lock has a holder exactly if that thread is inside it (`LockedInside`), and
  the child's hooks have put in order what their order promises so far (`ChildReset`).
* `KeysInv`: a value lies in a slot only with the slot's present key (`ValuesHaveKeys`); a
  pass that has called no destructor has found nothing up to the place it looks at
  (`PassesFindNothing`), so that a thread that ends before the limit of passes leaves nothing.

**Heap** (`AllocatorProofs`; `HeapWhole` and `CallersOwn` in `RuntimeObjectsProofs` carry
it over to the composition)

| Theorem | States |
|---|---|
| `HeapIsFine` | `HeapSpec => []AllocatorInv` |
| `HeapStaysWhole`, `HeapWhole` | `HeapIsWhole` |
| `CallersKeepTheirOwn`, `CallersOwn` | `CallersHaveTheirOwn` |

`AllocatorAssumption`: sizes are numbers, and a mapping has room for the header and every
request, padded for the alignment; how many mappings there may be, and where, is free.
`AllocatorInv` has four parts.

* `Sound` says of a heap, field by field, that chain and back links agree with one head
  and one tail (`Chained`), that blocks do not overlap and fill the mappings (`Tiled`), and
  that the lists hold each free block once, under its size (`Listed`). It is stated but for
  a set `U` of free blocks that are in no list: in the middle of a call the block at hand
  is one.
* `Whole` adds that no two free blocks lie side by side. This is what makes merging
  finite without an induction: `Coalesce` repeats its round as often as there are blocks, but
  the block that the first round takes in has no free block behind it, so that a second
  round finds nothing to do (`CoalesceOnce`). The lemmas on a round, a cut and a new mapping
  (`AbsorbWell`, `CutWell`, `AppendedWell`) therefore say both that a heap stays sound and
  where a mergeable pair may be left (`MergedBut`): at the block at hand or right before
  it, and nowhere else.
* `MagicAt`: each header has its magic number. Old numbers may stand anywhere, so
  `Labelled` says of a pointer that it is its block's own, or lies behind an
  aligned_header whose last word is no magic number; either leads `free` to the block
  (`LabelLeads`). A call writes magic numbers into new headers and links into free blocks
  only, and callers write from their pointers on: what stands between a block in use
  and the pointer into it stays (`WordsWell`).
* `Assigned`: pointers and blocks in use are matched one to one. That the two sets have
  the same cardinality follows (`OwnBlocks`).

`malloc` and the forms of `realloc` are then compositions: `AllocationsWell` for the block
taken, `FreedWell` for the one given back, `OneMore`, `OneLess` and `OneResized` for the
callers' side.

**Linux lifecycle** (`LinuxLifecycleProofs`)

| Theorem | States |
|---|---|
| `StackFreedOnceAfterExit` | `FreedOnceAfterExit` |
| `NobodyTouchesFreed`, `DetachedReachReaper` | `NoUseAfterFree`, `DetachedIsQueued` |

`LifecycleAssumption`: no thread is the null pointer. `LifecycleInv` says of each block,
as a function of the two steps its agents are at, what its tid word means (`LifeOK`), who
detaches and who joins it (`RoleOK`), that it is claimed by one compare-and-exchange before
it is put into the list (`ClaimOK`), and what holds if the program is `disciplined`
(`DisciplineOK`). `ReaperOK` adds that the list has no block twice and that a tid word the
reaper waits on is that of a block in the list, unless the round will be repeated;
`StartOK` that one agent starts the reaper. `BlockChanges` and
`AgentMoves` are the lemmas for steps that change one block; pushing to the list and
taking out of it are lemmas about sequences.

**Queue and upload** (`TransportProofs`)

| Theorem | States |
|---|---|
| `SleepersAreRight`, `FreedWhenLeft` | `SleepersHaveCause`, `NobodyWaitsOnFreedQueue` |
| `QueueIsAStream` | `Spec => ImplementsByteStream` |
| `FinishTellsTheTruth`, `WorkerIsJoinedOnce` | `FinishIsHonest`, `JoinedOnceBeforeFree` |
| `UploadQueueIsSound` | the first three, of the queue inside an upload |

`QueueAssumption`: a ring with room for a byte. `QueueInv`: what was accepted is what was
delivered followed by the ring from its head (`Content`), the waiters are counted and
`release` passes them only when there is none (`WaitersWell`), and nobody sleeps without
cause. It is proved of `QueueNext`, any steps of a producer, a consumer and an owner, of
which the queue's own specification and the upload's steps are both cases; `RingPosition`
is the arithmetic of positions modulo the capacity. The refinement maps the bytes
accepted and delivered to themselves; a copy into the ring is the stream's write, a copy
out of it its read. `UploadInv` adds how much of a write is left (`WriteOK`), who has
joined (`JoinsOK`), and what the worker's end, the cancellation and the client's step say
of the verdict (`VerdictOK`): that a 2xx answer implies a body read to its end is there
for a patient server only.

**Source** (`HttpSourceProofs`)

| Theorem | States |
|---|---|
| `NeverASplice`, `LossNeverLooksLikeEnd`, `RetriesStop` | `NoGapNoSplice`, `LossIsNotTheEnd`, `RetriesBounded` |

The theorems are of `LocalSpec`, so they hold whatever the network does; `FairSpec`, which
the run checks, implies it. `SourceAssumption`: sizes are numbers. `SourceInv` says of any
connection that its queue holds consecutive bytes of one body, and when its end is that of
the response (`ConnectionOK`); of the one in use that it goes on at the reader's position under
the reader's validator and, with a server that sends all it is asked for, to the end of the
resource (`CurrentOK`); of the one being opened that it answers what was
asked (`FreshOK`), and that this is what the reader needs (`AskedFor`). Without the last two
the exchange of the connections is not inductive. The places are those asked for where a
validator was required, at offset 0, or where the server answers 200, 206 or an error: a
206 is compared with the request, a 200 refused behind the start, and nothing else is.

**Only model-checked.** All liveness (`WaitersProgress`, `BarrierOpens`, `SleepersServed`,
`JoinReturns`, `HandshakesEnd`, `CancelReleasesEverybody`, `UploadCallsReturn`,
`CallsReturn`): fairness and `ENABLED` are out of the proof system's reach. The six
findings are counterexamples of TLC.

## 6. What is not modelled, and why

* Weak memory: the lock words are accessed with acquire, release or stronger
  operations, so interleaving of single accesses is taken as the semantics. The
  owner and count words of the mutex are plain accesses, modelled one by one.
* 32-bit wrap of the condition variable's sequence, the barrier's generation and
  the reader count: see the notes of the hazards.
* The memory of a lock itself: a lock destroyed while its last unlocker is still
  inside the wake (`pthread.c:1138`). The queue's own lock is destroyed by `release`,
  whose last step the model takes as one.
* In the heap: calls that fail (they change nothing), requests beyond one mapping's
  size, and the canaries of diagnostic builds. In fork: the memory copy of Windows,
  macOS's lock of framed descriptors, and registration of handlers.
* Of curl and the server only what the callbacks see: status, ranges, validators,
  bytes, the result code. The server describes truly what it sends, and two versions of a
  resource have different dates.
* Robust and priority-inheriting mutexes do not exist in the code. Process-shared
  forms use the same words through another wait call.
* Everything listed as not modelled in section 1.

## 7. Plan

In order of importance; each item is a module with its properties and, where
marked (P), proofs.

1. Once and the spin locks; exit handlers and the registration of fork handlers; (P)
   each runs once.
2. Descriptor table, signals, the graphics fence.
