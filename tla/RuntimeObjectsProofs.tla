------------------------ MODULE RuntimeObjectsProofs ------------------------
(***************************************************************************)
(* Proofs about the objects of RuntimeObjects for any set of threads, any  *)
(* number of keys and passes and any table with a slot for every thread.   *)
(* PthreadCondProofs has the invariant of the condition variable, and      *)
(* AllocatorProofs that of the heap; here are those of fork, of thread-    *)
(* specific data and of the registry of threads, and the theorems about    *)
(* the composition.  A step of one object leaves the variables of the      *)
(* others alone, so that each invariant is kept by the steps of its own    *)
(* object and by UNCHANGED.                                                *)
(***************************************************************************)
EXTENDS RuntimeObjects, PthreadCondProofs, AllocatorProofs

-----------------------------------------------------------------------------
(* fork and posix_spawn                                                    *)

HeapHeld == {"heap", "fork", "forked", "spawn", "spawned"}
Elsewhere == {"outside", "prepare handlers", "parent handlers"}
ChildSteps ==
  {"none", "reset threads", "reset pthread", "reset malloc", "reset stdio", "runs"}

Children == [step : ChildSteps, thread : Threads \union {NoThread},
             lock : [Process!Locks -> Threads \union {NoThread}],
             listed : SUBSET Threads, heapWhole : BOOLEAN]

(* The types of the variables.                                             *)
ForkTypeOK ==
  /\ at \in [Threads -> Process!Locks \union HeapHeld \union Elsewhere]
  /\ lock \in [Process!Locks -> Threads \union {NoThread}]
  /\ child \in Children

(* Who holds a lock is inside it, and conversely.                          *)
Holding(t, l) == at[t] = l \/ (l = "heap" /\ at[t] \in HeapHeld)

LockedInside == \A t \in Threads, l \in Process!Locks : lock[l] = t <=> Holding(t, l)

(* What the hooks have put in order in the child so far.                   *)
ChildReset ==
  /\ child.step # "none" => child.heapWhole /\ child.thread \in Threads
  /\ child.step \in ChildSteps \ {"none", "reset threads"} =>
       child.listed = {child.thread} /\ child.lock["registry"] = NoThread
  /\ child.step \in {"reset malloc", "reset stdio", "runs"} =>
       child.lock["keys"] = NoThread /\ child.lock["reaper"] = NoThread
  /\ child.step \in {"reset stdio", "runs"} => child.lock["heap"] = NoThread
  /\ child.step = "runs" => child.lock["streams"] = NoThread

(* The inductive invariant of fork.                                        *)
ForkInv == ForkTypeOK /\ LockedInside /\ ChildReset

(* The invariant holds before anybody forks.                               *)
LEMMA ForkInitInv == ObjectsInit => ForkInv
<1> SUFFICES ASSUME Process!Init PROVE ForkInv
  BY DEF ObjectsInit
<1>1. ForkTypeOK
  BY DEF Process!Init, Process!NoChild, ForkTypeOK, Elsewhere, Children,
     ChildSteps
<1>2. LockedInside
  BY CondAssumption DEF Process!Init, LockedInside, Holding, Process!Locks,
     HeapHeld
<1>3. ChildReset
  BY DEF Process!Init, Process!NoChild, ChildReset, ChildSteps
<1> QED
  BY <1>1, <1>2, <1>3 DEF ForkInv

(* The invariant implies the property.                                     *)
LEMMA ForkSafe == ForkInv => EverybodyCanAllocate
<1> SUFFICES ASSUME ForkInv PROVE EverybodyCanAllocate
  OBVIOUS
<1>1. ASSUME NEW t \in Threads, at[t] \in Process!Handlers, NEW l \in Process!Locks
      PROVE  lock[l] # t
  BY <1>1 DEF ForkInv, LockedInside, Holding, HeapHeld, Process!Handlers,
     Process!Locks
<1>2. child.step = "runs" =>
        /\ child.heapWhole /\ child.listed = {child.thread}
        /\ \A l \in Process!Locks \ {"destructors"} : child.lock[l] = NoThread
  BY DEF ForkInv, ChildReset, ChildSteps, Process!Locks
<1> QED
  BY <1>1, <1>2 DEF EverybodyCanAllocate, Process!EverybodyCanAllocate

(* A copy is made while the forking thread holds the heap's lock: nobody   *)
(* is inside the heap.                                                     *)
LEMMA CopyWhole ==
  ASSUME ForkInv, NEW t \in Threads, at[t] \in {"fork", "spawn"}
  PROVE  /\ Process!Copy(t).heapWhole
         /\ Process!Copy(t) \in Children
         /\ Process!Copy(t).step = "reset threads" /\ Process!Copy(t).thread = t
<1>1. \A u \in Threads : at[u] # "heap"
  BY DEF ForkInv, LockedInside, Holding, HeapHeld, Process!Locks
<1> QED
  BY <1>1 DEF Process!Copy, ForkInv, ForkTypeOK, Children, ChildSteps

(* Entering and leaving a lock of the runtime.                             *)
LEMMA LockSteps ==
  ASSUME ForkInv, NEW t \in Threads, NEW l \in Process!Locks,
         Process!Enter(t, l) \/ Process!Leave(t, l)
  PROVE  ForkInv'
<1>1. ForkTypeOK'
  BY DEF Process!Enter, Process!Leave, Process!Goes, ForkInv, ForkTypeOK,
     Elsewhere
<1>2. ASSUME NEW u \in Threads, NEW k \in Process!Locks
      PROVE  (lock[k] = u <=> Holding(u, k))'
  <2>1. t # NoThread /\ u # NoThread
    BY CondAssumption
  <2>2. lock[k] = u <=> Holding(u, k)
    BY DEF ForkInv, LockedInside
  <2>3. lock[l] = t <=> Holding(t, l)
    BY DEF ForkInv, LockedInside
  <2>4. lock[k] = t <=> Holding(t, k)
    BY DEF ForkInv, LockedInside
  <2> QED
    BY <2>1, <2>2, <2>3, <2>4 DEF Process!Enter, Process!Leave, Process!Goes,
       Process!Locks, ForkInv, ForkTypeOK, Holding, HeapHeld
<1>3. ChildReset'
  BY DEF Process!Enter, Process!Leave, ForkInv, ChildReset
<1> QED
  BY <1>1, <1>2, <1>3 DEF ForkInv, LockedInside

(* The steps of fork in the parent and of posix_spawn in its caller.       *)
LEMMA ParentSteps ==
  ASSUME ForkInv, NEW t \in Threads, Process!Fork(t) \/ Process!Spawn(t)
  PROVE  ForkInv'
<1> DEFINE Takes == \/ Process!BeforeFork(t, "prepare handlers", "fork")
                    \/ Process!BeforeFork(t, "outside", "spawn")
           Gives == \/ Process!AfterForkParent(t, "forked", "parent handlers")
                    \/ Process!AfterForkParent(t, "spawned", "outside")
           Copies == \/ Process!SysFork(t, "fork", "forked")
                     \/ Process!SysFork(t, "spawn", "spawned")
           Silent == Process!Prepare(t) \/ Process!ParentHandlersEnd(t)
<1>0. Takes \/ Gives \/ Copies \/ Silent
  BY DEF Process!Fork, Process!Spawn
<1>1. child' = child \/ (at[t] \in {"fork", "spawn"} /\ child' = Process!Copy(t))
  <2>1. CASE Copies
    BY <2>1 DEF Process!SysFork, Process!Goes
  <2>2. CASE Takes \/ Gives \/ Silent
    BY <2>2 DEF Process!Prepare, Process!ParentHandlersEnd, Process!BeforeFork,
       Process!AfterForkParent
  <2> QED
    BY <1>0, <2>1, <2>2
<1>2. ForkTypeOK'
  <2>0. ForkTypeOK
    BY DEF ForkInv
  <2>1. \E to \in HeapHeld \union Elsewhere : at' = [at EXCEPT ![t] = to]
    BY <1>0 DEF Process!Prepare, Process!ParentHandlersEnd, Process!BeforeFork,
       Process!AfterForkParent, Process!SysFork, Process!Goes, Elsewhere, HeapHeld
  <2>2. at' \in [Threads -> Process!Locks \union HeapHeld \union Elsewhere]
    BY <2>0, <2>1 DEF ForkTypeOK
  <2>3. \/ lock' = lock
        \/ \E x \in Threads \union {NoThread} : lock' = [lock EXCEPT !["heap"] = x]
    BY <1>0 DEF Process!Prepare, Process!ParentHandlersEnd, Process!BeforeFork,
       Process!AfterForkParent, Process!SysFork
  <2>4. lock' \in [Process!Locks -> Threads \union {NoThread}]
    BY <2>0, <2>3 DEF ForkTypeOK
  <2>5. child' \in Children
    BY <1>1, <2>0, CopyWhole DEF ForkTypeOK
  <2> QED
    BY <2>2, <2>4, <2>5 DEF ForkTypeOK
<1>3. ASSUME NEW u \in Threads, NEW k \in Process!Locks
      PROVE  (lock[k] = u <=> Holding(u, k))'
  <2>1. t # NoThread /\ u # NoThread
    BY CondAssumption
  <2>2. lock[k] = u <=> Holding(u, k)
    BY DEF ForkInv, LockedInside
  <2>3. lock[k] = t <=> Holding(t, k)
    BY DEF ForkInv, LockedInside
  <2>4. lock["heap"] = t <=> Holding(t, "heap")
    BY DEF ForkInv, LockedInside, Process!Locks
  <2>5. CASE Takes
    BY <2>1, <2>2, <2>3, <2>4, <2>5 DEF Process!BeforeFork, Process!Goes,
       Process!Locks, ForkInv, ForkTypeOK, Holding, HeapHeld
  <2>6. CASE Gives
    BY <2>1, <2>2, <2>3, <2>4, <2>6 DEF Process!AfterForkParent, Process!Goes,
       Process!Locks, ForkInv, ForkTypeOK, Holding, HeapHeld
  <2>7. CASE Copies \/ Silent
    BY <2>2, <2>3, <2>7 DEF Process!SysFork, Process!Prepare,
       Process!ParentHandlersEnd, Process!Goes, Process!Locks, ForkInv,
       ForkTypeOK, Holding, HeapHeld
  <2> QED
    BY <1>0, <2>5, <2>6, <2>7
<1>4. ChildReset'
  <2>1. CASE child' = child
    BY <2>1 DEF ForkInv, ChildReset
  <2>2. CASE at[t] \in {"fork", "spawn"} /\ child' = Process!Copy(t)
    BY <2>2, CopyWhole DEF ChildReset
  <2> QED
    BY <1>1, <2>1, <2>2
<1> QED
  BY <1>2, <1>3, <1>4 DEF ForkInv, LockedInside

(* The hooks of the child, and the end of what runs after them.            *)
LEMMA HookSteps ==
  ASSUME ForkInv, Process!ChildRuns
  PROVE  ForkInv'
<1> DEFINE After(ls, to, listed) ==
             /\ child' \in Children /\ child'.step = to /\ child'.thread = child.thread
             /\ child'.listed = listed /\ child'.heapWhole = child.heapWhole
             /\ child'.lock = [l \in Process!Locks |->
                                IF l \in ls THEN NoThread ELSE child.lock[l]]
<1>0. child \in Children /\ at' = at /\ lock' = lock
  BY DEF ForkInv, ForkTypeOK, Process!ChildRuns, Process!ChildGoes
<1>1. child' \in Children /\ ChildReset'
  <2> USE <1>0 DEF Process!ChildGoes, Process!Locks, ForkInv, ChildReset
  <2>1. CASE Process!ChildGoes("reset threads", "reset pthread", Process!ResetThreads(child))
    <3>1. child.step = "reset threads" /\ After({"registry"}, "reset pthread", {child.thread})
      <4>1. /\ child.step = "reset threads"
            /\ child' = [[Process!Reset(child, {"registry"}) EXCEPT !.listed = {child.thread}]
                           EXCEPT !.step = "reset pthread"]
        BY <2>1 DEF Process!ResetThreads
      <4>2. child.thread \in Threads
        BY <4>1
      <4> QED
        BY <4>1, <4>2 DEF Process!Reset, Children, ChildSteps
    <3> QED
      BY <3>1 DEF ChildSteps
  <2>2. CASE Process!ChildGoes("reset pthread", "reset malloc", Process!ResetPthread(child))
    <3>1. child.step = "reset pthread" /\ After({"keys", "reaper"}, "reset malloc", child.listed)
      <4>1. /\ child.step = "reset pthread"
            /\ child' = [Process!Reset(child, {"keys", "reaper"}) EXCEPT !.step = "reset malloc"]
        BY <2>2 DEF Process!ResetPthread
      <4> QED
        BY <4>1 DEF Process!Reset, Children, ChildSteps
    <3> QED
      BY <3>1 DEF ChildSteps
  <2>3. CASE Process!ChildGoes("reset malloc", "reset stdio", Process!ResetMalloc(child))
    <3>1. child.step = "reset malloc" /\ After({"heap"}, "reset stdio", child.listed)
      <4>1. /\ child.step = "reset malloc"
            /\ child' = [Process!Reset(child, {"heap"}) EXCEPT !.step = "reset stdio"]
        BY <2>3 DEF Process!ResetMalloc
      <4> QED
        BY <4>1 DEF Process!Reset, Children, ChildSteps
    <3> QED
      BY <3>1 DEF ChildSteps
  <2>4. CASE Process!ChildGoes("reset stdio", "runs", Process!ResetStdio(child))
    <3>1. child.step = "reset stdio" /\ After({"streams"}, "runs", child.listed)
      <4>1. /\ child.step = "reset stdio"
            /\ child' = [Process!Reset(child, {"streams"}) EXCEPT !.step = "runs"]
        BY <2>4 DEF Process!ResetStdio
      <4> QED
        BY <4>1 DEF Process!Reset, Children, ChildSteps
    <3> QED
      BY <3>1 DEF ChildSteps
  <2>5. CASE Process!ChildGoes("runs", "none", Process!NoChild)
    BY <2>5 DEF Process!NoChild, Children, ChildSteps
  <2> QED
    BY <2>1, <2>2, <2>3, <2>4, <2>5 DEF Process!ChildRuns
<1> QED
  BY <1>0, <1>1 DEF ForkInv, ForkTypeOK, LockedInside, Holding

(* Every step keeps the invariant, those of the other objects too.         *)
LEMMA ForkStepInv == ForkInv /\ [ObjectsNext]_objectVars => ForkInv'
<1> SUFFICES ASSUME ForkInv, [ObjectsNext]_objectVars PROVE ForkInv'
  OBVIOUS
<1>1. CASE Process!Next
  BY <1>1, LockSteps, ParentSteps, HookSteps DEF Process!Next
<1>2. CASE UNCHANGED processVars
  BY <1>2 DEF processVars, ForkInv, ForkTypeOK, LockedInside, ChildReset,
     Holding
<1> QED
  BY <1>1, <1>2 DEF ObjectsNext, CondNext, RegistryNext, ForkNext, KeysNext,
     AllocatorNext, objectVars, processVars

(* fork and posix_spawn never leave the child a lock that its hooks name,  *)
(* a heap caught half changed, or a thread that is gone.                   *)
THEOREM EverybodyAllocates == ObjectsSpec => []EverybodyCanAllocate
BY ForkInitInv, ForkStepInv, ForkSafe, PTL DEF ObjectsSpec

-----------------------------------------------------------------------------
(* Thread-specific data                                                    *)

KeySlots == 1 .. KeysMax
ThreadStates == [at : {"running", "scanning", "destructor", "ended"}, slot : Nat, pass : Nat,
                 called : BOOLEAN, argument : Nat, destructorOf : Nat]

(* The types of the variables.                                             *)
KeysTypeOK ==
  /\ key \in [KeySlots -> [number : Nat, destructor : BOOLEAN]]
  /\ value \in [Threads -> [KeySlots -> Nat]]
  /\ thread \in [Threads -> ThreadStates]
  /\ created \in Nat

(* A value lies in a slot only with its key, and a free slot is clean.     *)
ValuesHaveKeys ==
  \A k \in KeySlots :
    /\ \A t \in Threads : value[t][k] \in {0, key[k].number}
    /\ key[k].number = 0 => ~ key[k].destructor

(* A pass in which no destructor was called has found nothing so far, and  *)
(* the last pass before the limit nothing at all.                          *)
PassesFindNothing ==
  \A t \in Threads, k \in KeySlots :
    \/ thread[t].at = "scanning" /\ ~ thread[t].called /\ k < thread[t].slot
    \/ thread[t].at = "ended" /\ thread[t].pass < Passes
    => (key[k].destructor => value[t][k] = 0)

(* A destructor is run on a value of its own key, and its pass has called  *)
(* one.                                                                    *)
DestructorRuns(state) ==
  /\ state.argument = state.destructorOf
  /\ state.at = "destructor" => state.called

ArgumentsMatch == \A t \in Threads : DestructorRuns(thread[t])

(* The inductive invariant of thread-specific data.                        *)
KeysInv == KeysTypeOK /\ ValuesHaveKeys /\ PassesFindNothing /\ ArgumentsMatch

(* The invariant holds before a key is created.                            *)
LEMMA KeysInitInv == ObjectsInit => KeysInv
<1> SUFFICES ASSUME Keys!Init PROVE KeysInv
  BY DEF ObjectsInit
<1> QED
  BY ObjectsAssumption DEF Keys!Init, Keys!NoKey, Keys!NoValues, Keys!Running,
     KeysInv, KeysTypeOK, KeySlots, ThreadStates, ValuesHaveKeys,
     PassesFindNothing, ArgumentsMatch, DestructorRuns

(* The invariant implies the property.                                     *)
LEMMA KeysSafe == KeysInv => ValuesMeetTheirDestructor
BY DEF KeysInv, KeysTypeOK, KeySlots, ValuesHaveKeys, PassesFindNothing,
   ArgumentsMatch, DestructorRuns, ValuesMeetTheirDestructor,
   Keys!ValuesMeetTheirDestructor, Keys!Valid

(* Creation, deletion and storing a value.                                 *)
LEMMA KeyCallsInv ==
  ASSUME KeysInv, NEW t \in Threads,
         \/ \E d \in BOOLEAN : Keys!Create(t, d)
         \/ \E k \in KeySlots : Keys!Delete(t, k) \/ Keys!SetSpecific(t, k)
  PROVE  KeysInv'
<1>0. thread' = thread /\ thread[t].at \in {"running", "destructor"}
  BY DEF Keys!Create, Keys!Delete, Keys!SetSpecific, Keys!Calls
<1>1. ASSUME NEW d \in BOOLEAN, Keys!Create(t, d) PROVE KeysInv'
  <2>1. PICK k \in KeySlots :
          /\ key[k].number = 0
          /\ key' = [key EXCEPT ![k] = [number |-> created + 1, destructor |-> d]]
    BY <1>1 DEF Keys!Create, Keys!Valid, KeySlots
  <2>2. value' = value /\ created' = created + 1
    BY <1>1 DEF Keys!Create
  <2>3. \A u \in Threads : value[u][k] = 0
    BY <2>1 DEF KeysInv, ValuesHaveKeys
  <2> QED
    BY <1>0, <2>1, <2>2, <2>3 DEF KeysInv, KeysTypeOK, ValuesHaveKeys,
       PassesFindNothing, ArgumentsMatch
<1>2. ASSUME NEW k \in KeySlots, Keys!Delete(t, k) PROVE KeysInv'
  <2>1. /\ value' = [value EXCEPT ![t][k] = 0] /\ key' = [key EXCEPT ![k] = Keys!NoKey]
        /\ created' = created /\ \A u \in Threads \ {t} : value[u][k] = 0
    BY <1>2 DEF Keys!Delete, Keys!MayDelete
  <2> QED
    BY <1>0, <2>1 DEF KeysInv, KeysTypeOK, ValuesHaveKeys, PassesFindNothing,
       ArgumentsMatch, Keys!NoKey
<1>3. ASSUME NEW k \in KeySlots, Keys!SetSpecific(t, k) PROVE KeysInv'
  <2>1. PICK v \in {0, key[k].number} : value' = [value EXCEPT ![t][k] = v]
    BY <1>3 DEF Keys!SetSpecific
  <2>2. key' = key /\ created' = created
    BY <1>3 DEF Keys!SetSpecific
  <2> QED
    BY <1>0, <2>1, <2>2 DEF KeysInv, KeysTypeOK, ValuesHaveKeys,
       PassesFindNothing, ArgumentsMatch
<1> QED
  BY <1>1, <1>2, <1>3

(* An ending thread t goes to the state `to': what it must not have        *)
(* overlooked until then.                                                  *)
Overlooks(t, to) ==
  \E k \in KeySlots :
    /\ \/ to.at = "scanning" /\ ~ to.called /\ k < to.slot
       \/ to.at = "ended" /\ to.pass < Passes
    /\ key[k].destructor /\ value'[t][k] # 0

(* A step of an ending thread that overlooks nothing keeps the invariant.  *)
LEMMA GoesInv ==
  ASSUME KeysInv, NEW t \in Threads, NEW to \in ThreadStates,
         Keys!Goes(t, to), DestructorRuns(to),
         \/ value' = value
         \/ \E k \in KeySlots : value' = [value EXCEPT ![t][k] = 0]
         \/ value' = [value EXCEPT ![t] = [k \in KeySlots |-> 0]],
         ~ Overlooks(t, to)
  PROVE  KeysInv'
<1>0. value \in [Threads -> [KeySlots -> Nat]]
  BY DEF KeysInv, KeysTypeOK
<1>1. /\ value' \in [Threads -> [KeySlots -> Nat]]
      /\ \A u \in Threads, k \in KeySlots : value'[u][k] \in {0, value[u][k]}
  <2>1. CASE value' = value
    BY <1>0, <2>1
  <2>2. ASSUME NEW k \in KeySlots, value' = [value EXCEPT ![t][k] = 0]
        PROVE  <1>1!1 /\ <1>1!2
    BY <1>0, <2>2
  <2>3. CASE value' = [value EXCEPT ![t] = [k \in KeySlots |-> 0]]
    BY <1>0, <2>3
  <2> QED
    BY <2>1, <2>2, <2>3
<1>2. /\ key' = key /\ created' = created /\ thread' \in [Threads -> ThreadStates]
      /\ thread'[t] = to /\ \A u \in Threads \ {t} : thread'[u] = thread[u]
  BY DEF Keys!Goes, KeysInv, KeysTypeOK
<1>3. KeysTypeOK' /\ ValuesHaveKeys' /\ ArgumentsMatch'
  <2>1. KeysTypeOK'
    BY <1>1, <1>2 DEF KeysInv, KeysTypeOK
  <2>2. ValuesHaveKeys'
    BY <1>0, <1>1, <1>2 DEF KeysInv, ValuesHaveKeys
  <2>3. ArgumentsMatch'
    BY <1>2 DEF KeysInv, ArgumentsMatch
  <2> QED
    BY <2>1, <2>2, <2>3
<1>4. PassesFindNothing'
  BY <1>1, <1>2 DEF Overlooks, KeysInv, PassesFindNothing
<1> QED
  BY <1>3, <1>4 DEF KeysInv

(* The end of a thread, and the start of another.                          *)
LEMMA KeyEndInv ==
  ASSUME KeysInv, NEW t \in Threads,
         \/ Keys!Exit(t) \/ Keys!Destroy(t) \/ Keys!DestructorReturns(t) \/ Keys!PassOver(t)
         \/ Keys!AnotherPass(t) \/ Keys!Ends(t) \/ Keys!Starts(t)
  PROVE  KeysInv'
<1>0. /\ thread[t] \in ThreadStates /\ DestructorRuns(thread[t])
      /\ key \in [KeySlots -> [number : Nat, destructor : BOOLEAN]]
      /\ value \in [Threads -> [KeySlots -> Nat]]
      /\ \A k \in KeySlots : value[t][k] \in {0, key[k].number}
  BY DEF KeysInv, KeysTypeOK, ValuesHaveKeys, ArgumentsMatch
<1>n. thread[t].slot + 1 \in Nat /\ thread[t].pass + 1 \in Nat
  BY <1>0 DEF ThreadStates
<1>x. \A k \in KeySlots :
        \/ thread[t].at = "scanning" /\ ~ thread[t].called /\ k < thread[t].slot
        \/ thread[t].at = "ended" /\ thread[t].pass < Passes
        => (key[k].destructor => value[t][k] = 0)
  BY DEF KeysInv, PassesFindNothing
<1>1. CASE Keys!Exit(t)
  <2> DEFINE to == [Keys!Running EXCEPT !.at = "scanning", !.slot = 1, !.pass = 1]
  <2>1. Keys!Goes(t, to) /\ value' = value
    BY <1>1 DEF Keys!Exit, Keys!NoValues, KeySlots
  <2>2. to \in ThreadStates /\ DestructorRuns(to)
        /\ to.at = "scanning" /\ to.slot = 1
    BY DEF Keys!Running, ThreadStates, DestructorRuns
  <2> HIDE DEF to
  <2>3. ~ Overlooks(t, to)
    BY <2>2 DEF Overlooks, KeySlots
  <2> QED
    BY <2>1, <2>2, <2>3, GoesInv
<1>2. CASE Keys!Destroy(t)
  <2> DEFINE to == [thread[t] EXCEPT !.at = "destructor", !.called = TRUE,
                 !.argument = value[t][thread[t].slot],
                 !.destructorOf = key[thread[t].slot].number]
  <2>0. /\ value[t][thread[t].slot] \in Nat
        /\ value[t][thread[t].slot] = key[thread[t].slot].number
    BY <1>0, <1>2 DEF Keys!Destroy, KeySlots
  <2>1. Keys!Goes(t, to) /\ \E k \in KeySlots : value' = [value EXCEPT ![t][k] = 0]
    BY <1>2 DEF Keys!Destroy, Keys!NoValues, KeySlots
  <2>2. to \in ThreadStates /\ DestructorRuns(to)
        /\ to.at = "destructor"
    BY <1>0, <2>0 DEF ThreadStates, DestructorRuns
  <2> HIDE DEF to
  <2>3. ~ Overlooks(t, to)
    BY <2>2 DEF Overlooks
  <2> QED
    BY <2>1, <2>2, <2>3, GoesInv
<1>3. CASE Keys!DestructorReturns(t)
  <2> DEFINE to == [thread[t] EXCEPT !.at = "scanning", !.slot = @ + 1,
                                 !.argument = 0, !.destructorOf = 0]
  <2>1. Keys!Goes(t, to) /\ value' = value
    BY <1>3 DEF Keys!DestructorReturns, Keys!NoValues, KeySlots
  <2>2. to \in ThreadStates /\ DestructorRuns(to)
        /\ to.at = "scanning" /\ to.called
    BY <1>0, <1>n, <1>3 DEF Keys!DestructorReturns, ThreadStates, DestructorRuns
  <2> HIDE DEF to
  <2>3. ~ Overlooks(t, to)
    BY <2>2 DEF Overlooks
  <2> QED
    BY <2>1, <2>2, <2>3, GoesInv
<1>4. CASE Keys!PassOver(t)
  <2> DEFINE to == [thread[t] EXCEPT !.slot = @ + 1]
  <2>1. Keys!Goes(t, to) /\ value' = value
    BY <1>4 DEF Keys!PassOver, Keys!NoValues, KeySlots
  <2>2. to \in ThreadStates /\ DestructorRuns(to)
        /\ to.at = thread[t].at /\ to.called = thread[t].called /\ to.slot = thread[t].slot + 1
    BY <1>0, <1>n DEF ThreadStates, DestructorRuns
  <2> HIDE DEF to
  <2>3. ~ Overlooks(t, to)
    BY <1>0, <1>x, <1>4, <2>1, <2>2 DEF Overlooks, Keys!PassOver, Keys!Valid,
       KeySlots
  <2> QED
    BY <2>1, <2>2, <2>3, GoesInv
<1>5. CASE Keys!AnotherPass(t)
  <2> DEFINE to == [thread[t] EXCEPT !.slot = 1, !.pass = @ + 1, !.called = FALSE]
  <2>1. Keys!Goes(t, to) /\ value' = value
    BY <1>5 DEF Keys!AnotherPass, Keys!NoValues, KeySlots
  <2>2. to \in ThreadStates /\ DestructorRuns(to)
        /\ to.at = thread[t].at /\ to.slot = 1
    BY <1>0, <1>n, <1>5 DEF Keys!AnotherPass, ThreadStates, DestructorRuns
  <2> HIDE DEF to
  <2>3. ~ Overlooks(t, to)
    BY <1>5, <2>2 DEF Overlooks, Keys!AnotherPass, KeySlots
  <2> QED
    BY <2>1, <2>2, <2>3, GoesInv
<1>6. CASE Keys!Ends(t)
  <2> DEFINE to == [thread[t] EXCEPT !.at = "ended"]
  <2>1. Keys!Goes(t, to) /\ value' = value
    BY <1>6 DEF Keys!Ends, Keys!NoValues, KeySlots
  <2>2. to \in ThreadStates /\ DestructorRuns(to)
        /\ to.at = "ended" /\ to.pass = thread[t].pass
    BY <1>0, <1>n DEF ThreadStates, DestructorRuns
  <2> HIDE DEF to
  <2>3. ~ Overlooks(t, to)
    BY <1>0, <1>x, <1>6, <2>1, <2>2, ObjectsAssumption
       DEF Overlooks, Keys!Ends, KeySlots, ThreadStates
  <2> QED
    BY <2>1, <2>2, <2>3, GoesInv
<1>7. CASE Keys!Starts(t)
  <2> DEFINE to == Keys!Running
  <2>1. Keys!Goes(t, to) /\ value' = [value EXCEPT ![t] = [k \in KeySlots |-> 0]]
    BY <1>7 DEF Keys!Starts, Keys!NoValues, KeySlots
  <2>2. to \in ThreadStates /\ DestructorRuns(to)
        /\ to.at = "running"
    BY DEF Keys!Running, ThreadStates, DestructorRuns
  <2> HIDE DEF to
  <2>3. ~ Overlooks(t, to)
    BY <2>2 DEF Overlooks
  <2> QED
    BY <2>1, <2>2, <2>3, GoesInv
<1> QED
  BY <1>1, <1>2, <1>3, <1>4, <1>5, <1>6, <1>7

(* Every step keeps the invariant, those of the other objects too.         *)
LEMMA KeysStepInv == KeysInv /\ [ObjectsNext]_objectVars => KeysInv'
<1> SUFFICES ASSUME KeysInv, [ObjectsNext]_objectVars PROVE KeysInv'
  OBVIOUS
<1>1. CASE Keys!Next
  BY <1>1, KeyCallsInv, KeyEndInv DEF Keys!Next, KeySlots
<1>2. CASE UNCHANGED keysVars
  BY <1>2 DEF keysVars, KeysInv, KeysTypeOK, ValuesHaveKeys, PassesFindNothing,
     ArgumentsMatch
<1> QED
  BY <1>1, <1>2 DEF ObjectsNext, CondNext, RegistryNext, ForkNext, KeysNext,
     AllocatorNext, objectVars, keysVars

(* A destructor is called with a value of its own key, and no value is     *)
(* forgotten while passes remain.                                          *)
THEOREM ValuesAreDestroyed == ObjectsSpec => []ValuesMeetTheirDestructor
BY KeysInitInv, KeysStepInv, KeysSafe, PTL DEF ObjectsSpec

-----------------------------------------------------------------------------
(* The registry of threads                                                 *)

Nobodies == Threads \union {NoThread}
Filling == {"control", "tid", "context"}
SlotRecords == [tid : Nobodies, control : Nobodies, context : Nobodies]
Readers == [by : Nobodies, of : Nobodies, probes : Registry!Slots, found : Nobodies,
            at : {"none", "key", "context", "found", "first", "second", "live", "dead"},
            ever : BOOLEAN, always : BOOLEAN]

(* The types of the variables.                                             *)
RegistryTypeOK ==
  /\ table \in [Registry!Slots -> SlotRecords]
  /\ hash \in [Threads -> Registry!Slots]
  /\ regPc \in [Threads -> {"out", "in"} \union Filling]
  /\ filled \in Registry!Slots
  /\ reader \in Readers

(* A probe stays in the table and meets no slot twice.                     *)
LEMMA Probes ==
  ASSUME NEW t \in Threads, hash[t] \in Registry!Slots
  PROVE  /\ \A k \in Registry!Slots : Registry!Probe(t, k) \in Registry!Slots
         /\ \A j, k \in Registry!Slots : Registry!Probe(t, j) = Registry!Probe(t, k) => j = k
<1>1. TableSize \in Nat /\ TableSize > 0
  BY ObjectsAssumption
<1>2. ASSUME NEW k \in Registry!Slots
      PROVE  Registry!Probe(t, k) =
               IF hash[t] + k < TableSize THEN hash[t] + k ELSE hash[t] + k - TableSize
  BY <1>1 DEF Registry!Probe, Registry!Slots
<1> QED
  BY <1>1, <1>2 DEF Registry!Slots

(* What the table says of a thread: a context lies in a slot with its own  *)
(* key and block, in no second one, and only while its thread is in.       *)
ContextsHaveKeys ==
  \A s \in Registry!Slots : table[s].context # NoThread =>
    /\ regPc[table[s].context] = "in"
    /\ table[s].tid = table[s].context /\ table[s].control = table[s].context
    /\ \A r \in Registry!Slots : table[r].context = table[s].context => r = s

(* Slot k on t's way is the first that ends its search.                    *)
Reaches(t, k) ==
  k \in Registry!Slots /\ \A j \in 0 .. k - 1 : ~ Registry!Stops(t, j)

(* ... and has t's context.                                                *)
Sits(t, k) == Reaches(t, k) /\ table[Registry!Probe(t, k)].context = t

(* The slot being filled is free, on the way of the one thread that fills  *)
(* it, and filled as far as that thread's step says.                       *)
FillingWell ==
  \A t \in Threads : regPc[t] \in Filling =>
    /\ \A u \in Threads : regPc[u] \in Filling => u = t
    /\ table[filled].context = NoThread
    /\ \E k \in Registry!Slots : Reaches(t, k) /\ Registry!Probe(t, k) = filled
    /\ regPc[t] \in {"tid", "context"} => table[filled].control = t
    /\ regPc[t] = "context" => table[filled].tid = t

(* A registered thread is found by its search.                             *)
RegisteredSits == \A t \in Threads : regPc[t] = "in" => \E k \in Registry!Slots : Sits(t, k)

TableWell == RegistryTypeOK /\ ContextsHaveKeys /\ FillingWell /\ RegisteredSits

(* A registered thread that looks itself up has not passed its slot...     *)
LookUpInv ==
  reader.at \in {"key", "context", "found"} =>
    /\ reader.by \in Threads
    /\ regPc[reader.by] = "in" =>
         /\ reader.at \in {"key", "context"} =>
              \E k \in Registry!Slots : Sits(reader.by, k) /\ reader.probes <= k
         /\ reader.at = "context" => Sits(reader.by, reader.probes)
         /\ reader.at = "found" => reader.found = reader.by

(* ... and a scan has not passed the slot of a block that was registered   *)
(* all the time, and has the block of its second load before it only if    *)
(* that was registered or about to be.                                     *)
ScanInv ==
  /\ reader.at \in {"first", "second"} =>
       /\ reader.of \in Threads
       /\ regPc[reader.of] # "out" => reader.ever
       /\ reader.always =>
            /\ regPc[reader.of] = "in"
            /\ \E s \in Registry!Slots : table[s].context = reader.of /\ reader.probes <= s
  /\ reader.at = "second" /\ table[reader.probes].control = reader.of => reader.ever
  /\ reader.at = "live" => reader.ever
  /\ reader.at = "dead" => ~ reader.always

(* The inductive invariant of the registry.                                *)
RegistryInv == TableWell /\ LookUpInv /\ ScanInv

(* The invariant holds of an empty table.                                  *)
LEMMA RegistryInitInv == ObjectsInit => RegistryInv
<1> SUFFICES ASSUME Registry!Init, \A t \in Threads : hash[t] \in Registry!Slots,
                    hash \in [Threads -> Registry!Slots]
             PROVE  RegistryInv
  BY DEF ObjectsInit, Registry!Init
<1>1. 0 \in Registry!Slots
  BY ObjectsAssumption DEF Registry!Slots
<1> QED
  BY <1>1 DEF Registry!Init, Registry!Nobody, RegistryInv, TableWell,
     RegistryTypeOK, SlotRecords, Readers, Nobodies, Filling, ContextsHaveKeys,
     FillingWell, RegisteredSits, LookUpInv, ScanInv

(* The invariant implies the properties.                                   *)
LEMMA RegistrySafe == RegistryInv => RegisteredFindsItself /\ ScanIsExact
BY DEF RegistryInv, LookUpInv, ScanInv, RegisteredFindsItself,
   Registry!RegisteredFindsItself, ScanIsExact, Registry!ScanIsExact

-----------------------------------------------------------------------------
(* The slot that a registration takes                                      *)

(* A set of slots has a first one.                                         *)
LEMMA FirstOf ==
  ASSUME NEW T, T \subseteq Registry!Slots, T # {}
  PROVE  \E k \in T : \A j \in T : k <= j
<1> DEFINE UpTo(k) == 0 .. k
           Initial == {UpTo(k) : k \in T}
<1>1. /\ IsFiniteSet(Registry!Slots)
      /\ \A k \in Registry!Slots : k \in Nat /\ UpTo(k) \subseteq Registry!Slots
  BY ObjectsAssumption, FS_Interval DEF Registry!Slots
<1>2. Initial \subseteq SUBSET Registry!Slots /\ Initial # {}
  BY <1>1
<1>3. \A j, k \in T : j < k => UpTo(j) \subseteq UpTo(k) /\ UpTo(j) # UpTo(k)
  BY <1>1
<1>4. PICK x \in Initial : \A y \in Initial : y \subseteq x => y = x
  <2> HIDE DEF Initial
  <2> QED
    BY <1>1, <1>2, SmallestSet
<1>5. PICK k \in T : \A j \in T : UpTo(j) \subseteq UpTo(k) => UpTo(j) = UpTo(k)
  <2> HIDE DEF UpTo
  <2> QED
    BY <1>4
<1> HIDE DEF UpTo, Initial
<1>6. \A j \in T : k <= j
  BY <1>1, <1>3, <1>5
<1> QED
  BY <1>6

(* There are no more threads than slots: while a thread is out, some slot  *)
(* has no context.                                                         *)
LEMMA SlotIsFree ==
  ASSUME TableWell, NEW t \in Threads, regPc[t] = "out"
  PROVE  \E k \in Registry!Slots : table[Registry!Probe(t, k)].context = NoThread
<1> SUFFICES ASSUME \A k \in Registry!Slots : table[Registry!Probe(t, k)].context # NoThread
             PROVE  FALSE
  OBVIOUS
<1> DEFINE f == [k \in Registry!Slots |-> table[Registry!Probe(t, k)].context]
<1>1. f \in [Registry!Slots -> Threads \ {t}]
  BY Probes DEF TableWell, RegistryTypeOK, SlotRecords, Nobodies,
     ContextsHaveKeys
<1>2. IsFiniteSet(Registry!Slots) /\ Cardinality(Registry!Slots) = TableSize
  BY ObjectsAssumption, FS_Interval DEF Registry!Slots
<1>3. IsFiniteSet(Threads \ {t}) /\ Cardinality(Threads \ {t}) = Cardinality(Threads) - 1
  BY CondAssumption, FS_RemoveElement
<1>4. Cardinality(Threads) \in Nat
  BY CondAssumption, FS_CardinalityType
<1>5. Cardinality(Threads \ {t}) < Cardinality(Registry!Slots)
  BY <1>2, <1>3, <1>4, ObjectsAssumption
<1> HIDE DEF f
<1>6. PICK j, k \in Registry!Slots : j # k /\ f[j] = f[k]
  BY <1>1, <1>2, <1>3, <1>5, FS_PigeonHole
<1>7. Registry!Probe(t, j) = Registry!Probe(t, k)
  BY <1>6, Probes DEF f, TableWell, RegistryTypeOK, ContextsHaveKeys
<1> QED
  BY <1>6, <1>7, Probes DEF TableWell, RegistryTypeOK

(* SlotFor: a slot without a context that t's search reaches.              *)
LEMMA SlotIsFound ==
  ASSUME TableWell, NEW t \in Threads, regPc[t] = "out"
  PROVE  /\ table[Registry!SlotFor(t)].context = NoThread
         /\ \E k \in Registry!Slots : Reaches(t, k) /\ Registry!Probe(t, k) = Registry!SlotFor(t)
<1> DEFINE own == {k \in Registry!OnTheWay(t) : table[Registry!Probe(t, k)].tid = t}
           open == {k \in Registry!OnTheWay(t) : table[Registry!Probe(t, k)].context = NoThread}
           best == IF own # {} THEN own ELSE open
           first == CHOOSE k \in best : \A j \in best : k <= j
<1>1. best \subseteq Registry!OnTheWay(t) /\ Registry!OnTheWay(t) \subseteq Registry!Slots
  BY DEF Registry!OnTheWay
<1>2. \A k \in best : table[Registry!Probe(t, k)].context = NoThread
  BY Probes DEF Registry!OnTheWay, TableWell, RegistryTypeOK, ContextsHaveKeys
<1>3. best # {}
  <2> SUFFICES ASSUME own = {} PROVE open # {}
    OBVIOUS
  <2> DEFINE stops == {k \in Registry!Slots : Registry!Stops(t, k)}
  <2>1. CASE stops = {}
    BY <2>1, SlotIsFree, ObjectsAssumption DEF Registry!OnTheWay, Registry!Slots
  <2>2. CASE stops # {}
    <3>1. PICK k \in stops : \A j \in stops : k <= j
      BY <2>2, FirstOf
    <3>2. k \in Registry!OnTheWay(t)
      BY <3>1, ObjectsAssumption DEF Registry!OnTheWay, Registry!Slots
    <3>3. table[Registry!Probe(t, k)].tid = NoThread
      BY <3>1, <3>2 DEF Registry!Stops
    <3>4. table[Registry!Probe(t, k)].context = NoThread
      BY <3>1, <3>3, Probes, CondAssumption DEF TableWell, RegistryTypeOK,
         SlotRecords, Nobodies, ContextsHaveKeys
    <3> QED
      BY <3>2, <3>4
  <2> QED
    BY <2>1, <2>2
<1> HIDE DEF best
<1>4. first \in best
  BY <1>1, <1>3, FirstOf
<1>5. Registry!SlotFor(t) = Registry!Probe(t, first)
  BY DEF Registry!SlotFor, best
<1> QED
  BY <1>1, <1>2, <1>4, <1>5 DEF Registry!OnTheWay, Reaches

-----------------------------------------------------------------------------
(* The steps of the registry                                               *)

(* The steps of t that write to the table.                                 *)
RegistrySteps(t) ==
  \/ Registry!ClearSlot(t) \/ Registry!StoreControl(t) \/ Registry!StoreTid(t)
  \/ Registry!StoreContext(t) \/ Registry!Unregister(t)

(* The step of t writes only where no context lies, or takes out its own;  *)
(* keys are only added, and only its own.                                  *)
OwnWrites(t) ==
  /\ hash' = hash
  /\ \A s \in Registry!Slots :
       /\ table[s].context \notin {NoThread, t} => table'[s] = table[s]
       /\ table'[s].tid \in {table[s].tid, t}
       /\ table'[s].context \in {table[s].context, NoThread, t}
  /\ \A u \in Threads \ {t} : regPc'[u] = regPc[u]

(* So do all steps that write.                                             *)
LEMMA StepType ==
  ASSUME TableWell, reader \in Readers, NEW t \in Threads, RegistrySteps(t)
  PROVE  RegistryTypeOK' /\ OwnWrites(t)
<1>0. RegistryTypeOK
  BY DEF TableWell
<1>1. reader' \in Readers /\ hash' = hash
  <2>1. reader' = Registry!Witnessed /\ hash' = hash
    BY DEF RegistrySteps, Registry!ClearSlot, Registry!StoreControl,
       Registry!StoreTid, Registry!StoreContext, Registry!Unregister, Registry!Fill
  <2>2. Registry!Witnessed \in Readers
    BY DEF Registry!Witnessed, Readers
  <2> QED
    BY <2>1, <2>2
<1>2. CASE Registry!ClearSlot(t)
  <2>1. /\ filled' \in Registry!Slots /\ table[filled'].context = NoThread
        /\ table' = [table EXCEPT ![filled'].context = NoThread]
        /\ regPc' = [regPc EXCEPT ![t] = "control"]
    BY <1>0, <1>2, SlotIsFound, Probes DEF Registry!ClearSlot, RegistryTypeOK
  <2> QED
    BY <1>0, <1>1, <2>1 DEF RegistryTypeOK, SlotRecords, Nobodies, Filling,
       OwnWrites
<1>3. CASE Registry!StoreControl(t) \/ Registry!StoreTid(t) \/ Registry!StoreContext(t)
  <2>1. table[filled].context = NoThread /\ filled' = filled
    BY <1>3 DEF Registry!StoreControl, Registry!StoreTid,
       Registry!StoreContext, Registry!Fill, TableWell, FillingWell, Filling
  <2> QED
    BY <1>0, <1>1, <1>3, <2>1, SMTT(30) DEF Registry!StoreControl, Registry!StoreTid,
       Registry!StoreContext, Registry!Fill, RegistryTypeOK, SlotRecords, Nobodies,
       Filling, OwnWrites
<1>4. CASE Registry!Unregister(t)
  BY <1>0, <1>1, <1>4 DEF Registry!Unregister, RegistryTypeOK, SlotRecords,
     Nobodies, Filling, OwnWrites
<1> QED
  BY <1>2, <1>3, <1>4 DEF RegistrySteps

(* What another thread's search reaches, it still reaches.                 *)
LEMMA StillReaches ==
  ASSUME TableWell, NEW t \in Threads, OwnWrites(t), NEW u \in Threads \ {t}, NEW k
  PROVE  /\ Reaches(u, k) => Reaches(u, k)'
         /\ Sits(u, k) => Sits(u, k)'
<1>1. ASSUME Reaches(u, k) PROVE Reaches(u, k)'
  <2>1. \A j \in 0 .. k - 1 : j \in Registry!Slots
    BY <1>1, ObjectsAssumption DEF Reaches, Registry!Slots
  <2>2. \A j \in Registry!Slots : Registry!Probe(u, j)' = Registry!Probe(u, j)
    BY DEF OwnWrites, Registry!Probe
  <2> QED
    BY <1>1, <2>1, <2>2, Probes, CondAssumption
       DEF Reaches, Registry!Stops, OwnWrites, TableWell, RegistryTypeOK
<1>2. ASSUME Sits(u, k) PROVE Sits(u, k)'
  <2>1. Registry!Probe(u, k)' = Registry!Probe(u, k)
    BY DEF OwnWrites, Registry!Probe
  <2> QED
    BY <1>1, <1>2, <2>1, Probes, CondAssumption
       DEF Sits, Reaches, OwnWrites, TableWell, RegistryTypeOK
<1> QED
  BY <1>1, <1>2

(* t's own search is not cut short by what t writes: it writes its key at  *)
(* the end of it.                                                          *)
LEMMA OwnReaches ==
  ASSUME TableWell, NEW t \in Threads, hash' = hash,
         NEW k, Reaches(t, k),
         \A s \in Registry!Slots \ {Registry!Probe(t, k)} : table'[s].tid = table[s].tid
  PROVE  Reaches(t, k)' /\ Registry!Probe(t, k)' = Registry!Probe(t, k)
<1>1. k \in Registry!Slots /\ \A j \in 0 .. k - 1 : j \in Registry!Slots /\ j # k
  BY ObjectsAssumption DEF Reaches, Registry!Slots
<1>2. \A j \in Registry!Slots : Registry!Probe(t, j)' = Registry!Probe(t, j)
  BY DEF Registry!Probe
<1>3. \A j \in 0 .. k - 1 : Registry!Probe(t, j) \in Registry!Slots \ {Registry!Probe(t, k)}
  BY <1>1, Probes DEF TableWell, RegistryTypeOK
<1> QED
  BY <1>1, <1>2, <1>3 DEF Reaches, Registry!Stops

(* Registering and leaving keep the table in order.                        *)
LEMMA TableStep ==
  ASSUME TableWell, reader \in Readers, NEW t \in Threads, RegistrySteps(t)
  PROVE  TableWell'
<1>0. /\ RegistryTypeOK /\ ContextsHaveKeys /\ FillingWell /\ RegisteredSits
      /\ RegistryTypeOK' /\ OwnWrites(t) /\ t # NoThread
  BY StepType, CondAssumption DEF TableWell
<1>1. \A u \in Threads \ {t} : regPc'[u] = "in" => \E k \in Registry!Slots : Sits(u, k)'
  BY <1>0, StillReaches DEF RegisteredSits, OwnWrites
<1>2. CASE Registry!ClearSlot(t)
  <2>1. /\ table[filled'].context = NoThread /\ regPc[t] = "out"
        /\ table' = [table EXCEPT ![filled'].context = NoThread]
        /\ regPc' = [regPc EXCEPT ![t] = "control"]
        /\ \E k \in Registry!Slots : Reaches(t, k) /\ Registry!Probe(t, k) = filled'
    BY <1>2, SlotIsFound DEF Registry!ClearSlot
  <2>2. /\ \A s \in Registry!Slots : /\ table'[s].tid = table[s].tid
                                     /\ table'[s].control = table[s].control
                                     /\ table'[s].context = table[s].context
        /\ table'[filled'].context = NoThread
    BY <1>0, <2>1 DEF RegistryTypeOK, SlotRecords
  <2>3. ContextsHaveKeys'
    BY <1>0, <2>1, <2>2 DEF ContextsHaveKeys, RegistryTypeOK, SlotRecords,
       Nobodies
  <2>4. FillingWell'
    <3>1. \E k \in Registry!Slots : Reaches(t, k)' /\ Registry!Probe(t, k)' = filled'
      BY <1>0, <2>1, <2>2, OwnReaches DEF OwnWrites
    <3>2. \A u \in Threads : regPc'[u] \in Filling => u = t
      BY <1>0, <1>2 DEF Registry!ClearSlot, Registry!LockFree, Filling,
         OwnWrites
    <3> QED
      BY <1>0, <2>1, <2>2, <3>1, <3>2 DEF FillingWell, RegistryTypeOK
  <2>5. RegisteredSits'
    BY <1>0, <1>1, <2>1 DEF RegisteredSits, RegistryTypeOK
  <2> QED
    BY <1>0, <2>3, <2>4, <2>5 DEF TableWell
<1>3. CASE Registry!StoreControl(t) \/ Registry!StoreTid(t)
  <2>1. PICK k \in Registry!Slots : Reaches(t, k) /\ Registry!Probe(t, k) = filled
    BY <1>0, <1>3 DEF FillingWell, Registry!StoreControl, Registry!StoreTid,
       Registry!Fill, Filling
  <2>2. /\ filled' = filled /\ table[filled].context = NoThread
        /\ regPc[t] \in Filling /\ regPc'[t] \in {"tid", "context"}
        /\ \A s \in Registry!Slots \ {filled} : table'[s] = table[s]
        /\ table'[filled].context = NoThread
        /\ \/ table'[filled].control = t /\ regPc'[t] = "tid"
           \/ /\ table'[filled].control = table[filled].control
              /\ regPc[t] = "tid" /\ table'[filled].tid = t
    BY <1>0, <1>3 DEF FillingWell, Registry!StoreControl, Registry!StoreTid,
       Registry!Fill, Filling, RegistryTypeOK, SlotRecords
  <2>3. ContextsHaveKeys'
    BY <1>0, <2>2 DEF ContextsHaveKeys, OwnWrites, RegistryTypeOK, SlotRecords,
       Nobodies, Filling
  <2>4. FillingWell'
    <3>1. Reaches(t, k)' /\ Registry!Probe(t, k)' = filled'
      BY <1>0, <2>1, <2>2, OwnReaches DEF OwnWrites
    <3>2. \A u \in Threads : regPc'[u] \in Filling => u = t
      BY <1>0, <2>2 DEF FillingWell, OwnWrites
    <3> QED
      BY <1>0, <2>2, <3>1, <3>2 DEF FillingWell, Filling
  <2>5. RegisteredSits'
    BY <1>0, <1>1, <2>2 DEF RegisteredSits
  <2> QED
    BY <1>0, <2>3, <2>4, <2>5 DEF TableWell
<1>4. CASE Registry!StoreContext(t)
  <2>1. PICK k \in Registry!Slots : Reaches(t, k) /\ Registry!Probe(t, k) = filled
    BY <1>0, <1>4 DEF FillingWell, Registry!StoreContext, Registry!Fill, Filling
  <2>2. /\ regPc[t] = "context" /\ regPc'[t] = "in" /\ filled' = filled
        /\ table[filled].tid = t /\ table[filled].control = t
        /\ \A s \in Registry!Slots \ {filled} : table'[s] = table[s]
        /\ table'[filled].context = t /\ table'[filled].tid = t /\ table'[filled].control = t
    BY <1>0, <1>4 DEF FillingWell, Registry!StoreContext, Registry!Fill,
       Filling, RegistryTypeOK, SlotRecords
  <2>3. ContextsHaveKeys'
    BY <1>0, <2>2 DEF ContextsHaveKeys, OwnWrites, RegistryTypeOK, SlotRecords,
       Nobodies
  <2>4. FillingWell'
    BY <1>0, <2>2 DEF FillingWell, OwnWrites, Filling
  <2>5. Sits(t, k)'
    BY <1>0, <2>1, <2>2, OwnReaches DEF OwnWrites, Sits
  <2>6. RegisteredSits'
    BY <1>0, <1>1, <2>5 DEF RegisteredSits
  <2> QED
    BY <1>0, <2>3, <2>4, <2>6 DEF TableWell
<1>5. CASE Registry!Unregister(t)
  <2>1. /\ regPc'[t] = "out" /\ \A u \in Threads : regPc[u] \notin Filling
        /\ \A s \in Registry!Slots : 
             IF table[s].context = t THEN table'[s].context = NoThread ELSE table'[s] = table[s]
    BY <1>0, <1>5 DEF Registry!Unregister, Registry!LockFree, Filling,
       RegistryTypeOK, SlotRecords
  <2>2. ContextsHaveKeys'
    BY <1>0, <2>1 DEF ContextsHaveKeys, OwnWrites, RegistryTypeOK, SlotRecords,
       Nobodies
  <2>3. FillingWell' /\ RegisteredSits'
    BY <1>0, <1>1, <2>1 DEF FillingWell, RegisteredSits, OwnWrites, Filling
  <2> QED
    BY <1>0, <2>2, <2>3 DEF TableWell
<1> QED
  BY <1>2, <1>3, <1>4, <1>5 DEF RegistrySteps

(* While t registers or leaves, what a reader has still to come to stays.  *)
LEMMA ReaderWaits ==
  ASSUME RegistryInv, NEW t \in Threads, RegistrySteps(t)
  PROVE  LookUpInv' /\ ScanInv'
<1>0. /\ TableWell /\ RegistryTypeOK /\ LookUpInv /\ ScanInv /\ ContextsHaveKeys
      /\ OwnWrites(t) /\ RegistryTypeOK' /\ reader \in Readers /\ t # NoThread
  BY StepType, CondAssumption DEF RegistryInv, TableWell, RegistryTypeOK
<1>1. reader.by # t /\ reader' = Registry!Witnessed
  BY DEF RegistrySteps, Registry!ClearSlot, Registry!StoreControl,
     Registry!StoreTid, Registry!StoreContext, Registry!Unregister,
     Registry!Fill, Registry!Runs
<1>2. /\ reader'.by = reader.by /\ reader'.at = reader.at /\ reader'.of = reader.of
      /\ reader'.probes = reader.probes /\ reader'.found = reader.found
      /\ reader.at \in {"first", "second"} =>
           /\ reader'.ever <=> reader.ever \/ regPc'[reader.of] # "out"
           /\ reader'.always <=> reader.always /\ regPc'[reader.of] = "in"
      /\ reader.at \notin {"first", "second"} =>
           reader'.ever = reader.ever /\ reader'.always = reader.always
  BY <1>0, <1>1 DEF Registry!Witnessed, Readers
<1>3. LookUpInv'
  <2>1. CASE reader.at \in {"key", "context", "found"}
    <3>1. reader.by \in Threads \ {t} /\ regPc'[reader.by] = regPc[reader.by]
      BY <1>0, <1>1, <2>1 DEF LookUpInv, OwnWrites
    <3>2. \A k : Sits(reader.by, k) => Sits(reader.by, k)'
      <4>1. ASSUME NEW u \in Threads \ {t}, NEW k, Sits(u, k) PROVE Sits(u, k)'
        BY <1>0, <4>1, StillReaches
      <4> QED
        BY <1>2, <3>1, <4>1 DEF Sits, Reaches, Registry!Stops, Registry!Probe
    <3> QED
      BY <1>0, <1>2, <3>1, <3>2 DEF LookUpInv
  <2> QED
    BY <1>2, <2>1 DEF LookUpInv
<1>4. ASSUME reader.at \in {"first", "second"}, reader'.always
      PROVE  \E s \in Registry!Slots : table'[s].context = reader.of /\ reader.probes <= s
  <2>1. PICK s \in Registry!Slots : table[s].context = reader.of /\ reader.probes <= s
    BY <1>0, <1>2, <1>4 DEF ScanInv
  <2>2. CASE reader.of # t
    BY <1>0, <1>4, <2>1, <2>2, CondAssumption DEF OwnWrites, ScanInv
  <2>3. CASE reader.of = t
    <3>1. regPc[t] = "in" /\ regPc'[t] = "in"
      BY <1>0, <1>2, <1>4, <2>3 DEF ScanInv
    <3> QED
      BY <1>0, <3>1 DEF RegistrySteps, Registry!ClearSlot,
         Registry!StoreControl, Registry!StoreTid, Registry!StoreContext,
         Registry!Unregister, Registry!Fill, RegistryTypeOK
  <2> QED
    BY <2>2, <2>3
<1>5. ASSUME reader.at = "second", table'[reader.probes].control = reader.of
      PROVE  reader'.ever
  <2>1. CASE table[reader.probes].control = reader.of
    BY <1>0, <1>2, <1>5, <2>1 DEF ScanInv
  <2>2. CASE table[reader.probes].control # reader.of
    <3>1. reader.of = t /\ regPc'[t] # "out"
      BY <1>0, <1>5, <2>2 DEF RegistrySteps, Registry!ClearSlot,
         Registry!StoreControl, Registry!StoreTid, Registry!StoreContext,
         Registry!Unregister, Registry!Fill, RegistryTypeOK, SlotRecords,
         Readers
    <3> QED
      BY <1>2, <1>5, <3>1
  <2> QED
    BY <2>1, <2>2
<1>6. ScanInv'
  BY <1>0, <1>2, <1>4, <1>5 DEF ScanInv
<1> QED
  BY <1>3, <1>6

(* A lookup or a scan begins.                                              *)
Begins == \E t \in Threads : Registry!LookUp(t) \/ Registry!Scan(t)

(* A reader that begins has everything still to come.                      *)
LEMMA ReaderBegins ==
  ASSUME RegistryInv, Begins \/ Registry!ReadEnds
  PROVE  RegistryInv'
<1>0. TableWell /\ RegistryTypeOK
  BY DEF RegistryInv, TableWell
<1>1. 0 \in Registry!Slots /\ \A s \in Registry!Slots : 0 <= s
  BY ObjectsAssumption DEF Registry!Slots
<1>2. /\ table' = table /\ hash' = hash /\ regPc' = regPc /\ filled' = filled
  BY DEF Begins, Registry!LookUp, Registry!Scan, Registry!ReadEnds,
     Registry!Reads
<1>3. reader' \in Readers /\ LookUpInv' /\ ScanInv'
  <2>1. ASSUME NEW t \in Threads, Registry!LookUp(t)
        PROVE  reader' \in Readers /\ LookUpInv' /\ ScanInv'
    <3>1. reader' = [Registry!Nobody EXCEPT !.by = t, !.at = "key"]
      BY <2>1 DEF Registry!LookUp, Registry!Reads
    <3>2. regPc[t] = "in" => \E k \in Registry!Slots : Sits(t, k) /\ 0 <= k
      BY <1>0, <1>1 DEF TableWell, RegisteredSits
    <3>3. \A k : Sits(t, k)' <=> Sits(t, k)
      BY <1>2 DEF Sits, Reaches, Registry!Stops, Registry!Probe
    <3> QED
      BY <1>1, <1>2, <3>1, <3>2, <3>3 DEF Registry!Nobody, Readers, Nobodies,
         LookUpInv, ScanInv
  <2>2. ASSUME NEW t \in Threads, Registry!Scan(t)
        PROVE  reader' \in Readers /\ LookUpInv' /\ ScanInv'
    <3>1. reader' = [Registry!Nobody EXCEPT !.at = "first", !.of = t,
                       !.ever = (regPc[t] # "out"), !.always = (regPc[t] = "in")]
      BY <2>2 DEF Registry!Scan, Registry!Reads
    <3>2. regPc[t] = "in" => \E s \in Registry!Slots : table[s].context = t /\ 0 <= s
      BY <1>0, <1>1, Probes DEF TableWell, RegisteredSits, Sits, RegistryTypeOK
    <3> QED
      BY <1>1, <1>2, <3>1, <3>2 DEF Registry!Nobody, Readers, Nobodies,
         LookUpInv, ScanInv
  <2>3. CASE Registry!ReadEnds
    BY <1>1, <2>3 DEF Registry!ReadEnds, Registry!Reads, Registry!Nobody,
       Readers, Nobodies, LookUpInv, ScanInv
  <2> QED
    BY <2>1, <2>2, <2>3 DEF Begins
<1> QED
  BY <1>0, <1>2, <1>3 DEF RegistryInv, TableWell, RegistryTypeOK,
     ContextsHaveKeys, FillingWell, RegisteredSits, Sits, Reaches,
     Registry!Stops, Registry!Probe

(* linux_find_context: a reader that has not passed its slot stops there.  *)
LEMMA ReaderLooks ==
  ASSUME RegistryInv, Registry!LoadKey \/ Registry!LoadContext
  PROVE  reader' \in Readers /\ LookUpInv' /\ ScanInv'
<1>0. /\ TableWell /\ RegistryTypeOK /\ LookUpInv /\ ContextsHaveKeys /\ reader \in Readers
      /\ reader.at \in {"key", "context"} /\ reader.by \in Threads
      /\ TableSize \in Nat /\ reader.probes \in Nat /\ reader.probes < TableSize
  BY ObjectsAssumption DEF RegistryInv, TableWell, RegistryTypeOK, LookUpInv,
     Registry!LoadKey, Registry!LoadContext, Readers, Registry!Slots
<1>1. /\ table' = table /\ hash' = hash /\ regPc' = regPc
  BY DEF Registry!LoadKey, Registry!LoadContext, Registry!Reads
<1>2. \A t, k : Sits(t, k) <=> Sits(t, k)'
  BY <1>1 DEF Sits, Reaches, Registry!Stops, Registry!Probe
<1> DEFINE slot == table[Registry!Probe(reader.by, reader.probes)]
<1>3. slot \in SlotRecords
  BY <1>0, Probes DEF RegistryTypeOK, Readers
<1>4. ASSUME NEW k \in Registry!Slots, Sits(reader.by, k), reader.probes <= k
      PROVE  /\ slot.tid = reader.by => reader.probes = k
             /\ slot.tid = NoThread => FALSE
             /\ reader.probes = k => slot.tid = reader.by /\ slot.context = reader.by
  <2>1. k \in Nat /\ (reader.probes # k => reader.probes \in 0 .. k - 1)
    BY <1>0, <1>4 DEF Registry!Slots
  <2>2. table[Registry!Probe(reader.by, k)].tid = reader.by
    BY <1>0, <1>4, Probes, CondAssumption DEF Sits, ContextsHaveKeys,
       RegistryTypeOK
  <2> QED
    BY <1>0, <1>4, <2>1, <2>2, CondAssumption DEF Sits, Reaches, Registry!Stops
<1>5. /\ reader'.by = reader.by /\ reader' \in Readers
      /\ reader'.at \in {"found", "key", "context"}
  <2>1. reader.probes + 1 = TableSize \/ reader.probes + 1 \in Registry!Slots
    BY <1>0 DEF Registry!Slots
  <2>2. Registry!NextProbe \in Readers /\ Registry!NextProbe.by = reader.by
        /\ Registry!NextProbe.at \in {"found", "key"}
    BY <1>0, <2>1 DEF Registry!NextProbe, Readers
  <2>3. slot.context \in Nobodies
    BY <1>3 DEF SlotRecords
  <2>4. CASE Registry!LoadKey
    BY <1>0, <2>2, <2>4 DEF Registry!LoadKey, Registry!Reads, Readers
  <2>5. CASE Registry!LoadContext
    BY <1>0, <2>2, <2>3, <2>5 DEF Registry!LoadContext, Registry!Reads, Readers
  <2> QED
    BY <2>4, <2>5
<1>6. ASSUME NEW k \in Registry!Slots, Sits(reader.by, k), reader.probes <= k,
             reader.at = "context" => Sits(reader.by, reader.probes)
      PROVE  /\ reader'.at \in {"key", "context"} => reader'.probes <= k
             /\ reader'.at = "context" => reader'.probes = k
             /\ reader'.at = "found" => reader'.found = reader.by
  <2>1. k \in Nat /\ k < TableSize
    BY <1>0 DEF Registry!Slots
  <2>2. CASE Registry!LoadKey
    BY <1>0, <1>4, <1>6, <2>1, <2>2 DEF Registry!LoadKey, Registry!Reads,
       Registry!NextProbe, Readers
  <2>3. CASE Registry!LoadContext
    BY <1>0, <1>4, <1>6, <2>1, <2>3, CondAssumption DEF Registry!LoadContext,
       Registry!Reads, Readers, Sits
  <2> QED
    BY <2>2, <2>3
<1>7. LookUpInv'
  BY <1>0, <1>1, <1>2, <1>5, <1>6 DEF LookUpInv
<1>8. ScanInv'
  BY <1>5 DEF ScanInv
<1> QED
  BY <1>5, <1>7, <1>8

(* __crt_thread_control_is_live: two loads from every slot.                *)
LEMMA ReaderScans ==
  ASSUME RegistryInv, Registry!ScanFirst \/ Registry!ScanSecond
  PROVE  reader' \in Readers /\ LookUpInv' /\ ScanInv'
<1>0. /\ TableWell /\ RegistryTypeOK /\ ScanInv /\ ContextsHaveKeys /\ reader \in Readers
      /\ reader.at \in {"first", "second"} /\ reader.of \in Threads
      /\ TableSize \in Nat /\ reader.probes \in Nat /\ reader.probes < TableSize
      /\ reader.probes \in Registry!Slots
  BY ObjectsAssumption DEF RegistryInv, TableWell, RegistryTypeOK, ScanInv,
     Registry!ScanFirst, Registry!ScanSecond, Readers, Registry!Slots
<1>1. /\ table' = table /\ hash' = hash /\ regPc' = regPc
  BY DEF Registry!ScanFirst, Registry!ScanSecond, Registry!Reads
<1>2. /\ reader'.of = reader.of /\ reader' \in Readers
      /\ reader'.ever = reader.ever /\ reader'.always = reader.always
      /\ reader'.at \in {"first", "second", "live", "dead"}
  <2>1. reader.probes + 1 = TableSize \/ reader.probes + 1 \in Registry!Slots
    BY <1>0 DEF Registry!Slots
  <2> QED
    BY <1>0, <2>1 DEF Registry!ScanFirst, Registry!ScanSecond, Registry!Reads,
       Registry!NextSlot, Readers
<1> DEFINE slot == table[reader.probes]
<1>3. slot \in SlotRecords
  BY <1>0 DEF RegistryTypeOK
<1>4. \/ /\ Registry!ScanFirst /\ slot.context # NoThread
         /\ reader'.at = "second" /\ reader'.probes = reader.probes
      \/ /\ Registry!ScanSecond /\ slot.control = reader.of
         /\ reader'.at = "live" /\ reader.at = "second"
      \/ /\ slot.context = NoThread \/ slot.control # reader.of
         /\ reader' = Registry!NextSlot
  BY <1>0 DEF Registry!ScanFirst, Registry!ScanSecond, Registry!Reads,
     Registry!Matches, Registry!Loads, Readers
<1>5. CASE /\ slot.context # NoThread /\ reader'.at = "second" /\ reader'.probes = reader.probes
  <2>1. slot.control = reader.of => reader.ever
    BY <1>0, <1>5, <1>3 DEF ContextsHaveKeys, ScanInv, SlotRecords
  <2> QED
    BY <1>0, <1>1, <1>2, <1>5, <2>1 DEF LookUpInv, ScanInv
<1>6. CASE slot.control = reader.of /\ reader'.at = "live" /\ reader.at = "second"
  BY <1>0, <1>1, <1>2, <1>6 DEF LookUpInv, ScanInv
<1>7. CASE /\ slot.context = NoThread \/ slot.control # reader.of
           /\ reader' = Registry!NextSlot
  <2>1. ASSUME NEW s \in Registry!Slots, table[s].context = reader.of, reader.probes <= s
        PROVE  reader.probes + 1 <= s /\ s < TableSize
    <3>1. s # reader.probes /\ s \in Nat /\ s < TableSize
      BY <1>0, <1>7, <2>1, CondAssumption DEF ContextsHaveKeys, Registry!Slots
    <3> QED
      BY <1>0, <2>1, <3>1
  <2>2. IF reader.probes + 1 = TableSize THEN reader'.at = "dead"
        ELSE reader'.at = "first" /\ reader'.probes = reader.probes + 1
    BY <1>0, <1>7 DEF Registry!NextSlot, Readers
  <2>3. reader.always =>
          \E s \in Registry!Slots : table[s].context = reader.of /\ reader.probes <= s
    BY <1>0 DEF ScanInv
  <2>4. LookUpInv'
    BY <1>2 DEF LookUpInv
  <2>5. ASSUME reader.always
        PROVE  /\ reader'.at = "first"
               /\ \E s \in Registry!Slots : table[s].context = reader.of /\ reader'.probes <= s
    <3>1. PICK s \in Registry!Slots : table[s].context = reader.of /\ reader.probes <= s
      BY <2>3, <2>5
    <3>2. reader.probes + 1 <= s /\ reader.probes + 1 # TableSize
      BY <1>0, <2>1, <3>1 DEF Registry!Slots
    <3> QED
      BY <2>2, <3>1, <3>2
  <2>6. reader'.at \in {"first", "dead"}
    BY <2>2
  <2>7. (regPc[reader.of] # "out" => reader.ever) /\ (reader.always => regPc[reader.of] = "in")
    BY <1>0 DEF ScanInv
  <2>8. ScanInv'
    BY <1>0, <1>1, <1>2, <2>5, <2>6, <2>7 DEF ScanInv
  <2> QED
    BY <1>2, <2>4, <2>8
<1> QED
  BY <1>2, <1>4, <1>5, <1>6, <1>7

(* Every step of the registry keeps the invariant.                         *)
LEMMA RegistryStepInv == RegistryInv /\ [ObjectsNext]_objectVars => RegistryInv'
<1> SUFFICES ASSUME RegistryInv, [ObjectsNext]_objectVars PROVE RegistryInv'
  OBVIOUS
<1>1. CASE UNCHANGED registryVars
  <2>0. /\ table' = table /\ hash' = hash /\ regPc' = regPc
        /\ filled' = filled /\ reader' = reader
    BY <1>1 DEF registryVars
  <2>1. RegistryTypeOK' /\ ContextsHaveKeys'
    BY <2>0 DEF RegistryInv, TableWell, RegistryTypeOK, ContextsHaveKeys
  <2>2. FillingWell'
    BY <2>0 DEF RegistryInv, TableWell, FillingWell, Reaches, Registry!Stops, Registry!Probe
  <2>3. RegisteredSits'
    BY <2>0 DEF RegistryInv, TableWell, RegisteredSits, Sits, Reaches, Registry!Stops,
       Registry!Probe
  <2>4. LookUpInv'
    BY <2>0 DEF RegistryInv, LookUpInv, Sits, Reaches, Registry!Stops, Registry!Probe
  <2>5. ScanInv'
    BY <2>0 DEF RegistryInv, ScanInv
  <2> QED
    BY <2>1, <2>2, <2>3, <2>4, <2>5 DEF RegistryInv, TableWell
<1>2. ASSUME NEW t \in Threads, RegistrySteps(t) PROVE RegistryInv'
  BY <1>2, TableStep, ReaderWaits DEF RegistryInv, TableWell, RegistryTypeOK
<1>3. CASE Registry!LoadKey \/ Registry!LoadContext \/ Registry!ScanFirst \/ Registry!ScanSecond
  <2>1. reader' \in Readers /\ LookUpInv' /\ ScanInv'
    BY <1>3, ReaderLooks, ReaderScans
  <2>2. table' = table /\ hash' = hash /\ regPc' = regPc /\ filled' = filled
    BY <1>3 DEF Registry!LoadKey, Registry!LoadContext, Registry!ScanFirst,
       Registry!ScanSecond, Registry!Reads
  <2> QED
    BY <2>1, <2>2 DEF RegistryInv, TableWell, RegistryTypeOK, ContextsHaveKeys,
       FillingWell, RegisteredSits, Sits, Reaches, Registry!Stops,
       Registry!Probe
<1>4. CASE Registry!Next
  BY <1>2, <1>3, <1>4, ReaderBegins DEF Registry!Next, RegistrySteps, Begins
<1> QED
  BY <1>1, <1>4 DEF ObjectsNext, CondNext, RegistryNext, ForkNext, KeysNext,
     AllocatorNext, objectVars, registryVars

(* linux_find_context: a registered thread finds its own context, whatever *)
(* slots on its way others take and leave meanwhile.                       *)
THEOREM RegisteredFind == ObjectsSpec => []RegisteredFindsItself
<1>1. RegistryInv => RegisteredFindsItself
  BY RegistrySafe
<1> QED
  BY <1>1, RegistryInitInv, RegistryStepInv, PTL DEF ObjectsSpec

(* __crt_thread_control_is_live: a block that was registered all through   *)
(* the scan is found live, and one that never was is not.                  *)
THEOREM ScansAreExact == ObjectsSpec => []ScanIsExact
<1>1. RegistryInv => ScanIsExact
  BY RegistrySafe
<1> QED
  BY <1>1, RegistryInitInv, RegistryStepInv, PTL DEF ObjectsSpec

-----------------------------------------------------------------------------
(* The condition variable in the composition                               *)

(* The composition keeps the invariant of the condition variable.          *)
LEMMA ObjectsCondInv == ObjectsSpec => []CondInv
<1>1. ObjectsInit => Init
  BY DEF ObjectsInit
<1>2. [ObjectsNext]_objectVars => [Next]_vars
  BY DEF ObjectsNext, CondNext, RegistryNext, ForkNext, KeysNext, AllocatorNext,
     objectVars
<1> QED
  BY <1>1, <1>2, CondInitInv, CondStepInv, PTL DEF ObjectsSpec

(* pthread_cond_destroy's EBUSY is exact on every path out of a wait:      *)
(* timeout, refusal and spurious return included.                          *)
THEOREM WaitersCountedExactly == ObjectsSpec => []WaitersCounted
<1>1. CondInv => WaitersCounted
  BY DEF CondInv
<1> QED
  BY <1>1, ObjectsCondInv, PTL

(* No wake is lost: a broadcast leaves nobody asleep who waited before it, *)
(* and a signal ends the wait of one of the threads it was meant for.      *)
THEOREM WakesArrive == ObjectsSpec => []WakesReachWaiters
<1>1. CondInv => WakesReachWaiters
  BY CondSafe DEF WakesReachWaiters
<1> QED
  BY <1>1, ObjectsCondInv, PTL

-----------------------------------------------------------------------------
(* The heap in the composition                                             *)

(* The composition's heap is one of module Allocator.                      *)
LEMMA HeapInside == ObjectsSpec => HeapSpec
<1>1. ObjectsInit => HeapInit
  BY DEF ObjectsInit
<1>2. [ObjectsNext]_objectVars => [HeapNext]_heapVars
  BY DEF ObjectsNext, CondNext, RegistryNext, ForkNext, KeysNext, AllocatorNext,
     objectVars
<1> QED
  BY <1>1, <1>2, PTL DEF ObjectsSpec, HeapSpec

(* malloc.c: splitting, merging and new mappings keep the chain, the lists *)
(* of free blocks and the mappings in agreement.                           *)
THEOREM HeapWhole == ObjectsSpec => []HeapIsWhole
BY HeapInside, HeapStaysWhole, PTL

(* malloc.c: a caller has what was asked for in a block of its own, which  *)
(* free finds again, however calls free and move other blocks.             *)
THEOREM CallersOwn == ObjectsSpec => []CallersHaveTheirOwn
BY HeapInside, CallersKeepTheirOwn, PTL
=============================================================================
