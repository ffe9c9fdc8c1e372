--------------------------- MODULE RuntimeObjects ---------------------------
(***************************************************************************)
(* Five objects of the runtime that share nothing but the threads that use *)
(* them, and of which only safety is asked: a condition variable, the      *)
(* registry of threads, the locks around fork, thread-specific data and    *)
(* the heap.  The first state chooses one, and the others stay as they     *)
(* were initialised.                                                       *)
(***************************************************************************)
EXTENDS PthreadCond, Allocator

CONSTANTS TableSize, KeysMax, Passes, MaxCreated

ASSUME ObjectsAssumption ==
  /\ TableSize \in Nat \ {0} /\ Cardinality(Threads) <= TableSize
  /\ KeysMax \in Nat /\ Passes \in Nat

VARIABLES object, table, hash, regPc, filled, reader,
          at, lock, child, key, value, thread, created

Registry == INSTANCE ThreadRegistry WITH pc <- regPc
Process == INSTANCE ProcessFork WITH Nobody <- NoThread
Keys == INSTANCE PthreadKeys

registryVars == <<table, hash, regPc, filled, reader>>
processVars == <<at, lock, child>>
keysVars == <<key, value, thread, created>>
objectVars == <<object, vars, registryVars, processVars, keysVars, heapVars>>

ObjectsInit ==
  /\ object \in {"cond", "registry", "fork", "keys", "heap"}
  /\ Init /\ Registry!Init /\ Process!Init /\ Keys!Init /\ HeapInit
  /\ object # "cond" => fifo
  /\ object # "registry" => hash = [t \in Threads |-> 0]

CondNext ==
  /\ object = "cond" /\ Next
  /\ UNCHANGED <<object, registryVars, processVars, keysVars, heapVars>>

RegistryNext ==
  /\ object = "registry" /\ Registry!Next
  /\ UNCHANGED <<object, vars, processVars, keysVars, heapVars>>

ForkNext ==
  /\ object = "fork" /\ Process!Next
  /\ UNCHANGED <<object, vars, registryVars, keysVars, heapVars>>

KeysNext ==
  /\ object = "keys" /\ Keys!Next
  /\ UNCHANGED <<object, vars, registryVars, processVars, heapVars>>

AllocatorNext ==
  /\ object = "heap" /\ HeapNext
  /\ UNCHANGED <<object, vars, registryVars, processVars, keysVars>>

ObjectsNext == CondNext \/ RegistryNext \/ ForkNext \/ KeysNext \/ AllocatorNext

ObjectsSpec == ObjectsInit /\ [][ObjectsNext]_objectVars

-----------------------------------------------------------------------------
(* PthreadCond: a broadcast leaves nobody asleep who waited before it, and *)
(* a signal ends the wait of a thread that waited when it was sent.        *)
WakesReachWaiters == BroadcastReachesAll /\ SignalReleasesOne

(* ThreadRegistry: a registered thread finds its own context.              *)
RegisteredFindsItself == Registry!RegisteredFindsItself

(* ThreadRegistry: a block is found live when it was so all through the    *)
(* scan, and not when it never was.                                        *)
ScanIsExact == Registry!ScanIsExact

(* ProcessFork: handlers run with no lock held, and a child's code starts  *)
(* on a whole heap without the locks of the threads that are gone.         *)
EverybodyCanAllocate == Process!EverybodyCanAllocate

(* PthreadKeys: a value is seen and destroyed only under its own key, and  *)
(* an ended thread has left none behind.                                   *)
ValuesMeetTheirDestructor == Keys!ValuesMeetTheirDestructor
=============================================================================
