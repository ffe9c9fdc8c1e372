------------------------------ MODULE MutexSpec ------------------------------
(***************************************************************************)
(* What pthread_mutex_* promises its callers, independently of how the     *)
(* mutex words are updated: who has the mutex locked, and how many times.  *)
(* Every operation is one step, taken when the call decides its outcome;   *)
(* a call that is refused changes nothing.                                 *)
(***************************************************************************)
EXTENDS Naturals

CONSTANTS Threads   (* the threads that share the mutex *)

VARIABLES type,     (* "normal", "recursive" or "errorcheck", fixed *)
          held      (* held[t]: how many times t has the mutex locked *)

vars == <<type, held>>

MutexTypes == {"normal", "recursive", "errorcheck"}

Init ==
  /\ type \in MutexTypes
  /\ held = [t \in Threads |-> 0]

(* A mutex that nobody holds is taken.                                     *)
Acquire(t) ==
  /\ \A s \in Threads : held[s] = 0
  /\ held' = [held EXCEPT ![t] = 1]
  /\ UNCHANGED type

(* The holder of a recursive mutex locks it once more.                     *)
Reacquire(t) ==
  /\ type = "recursive" /\ held[t] > 0
  /\ held' = [held EXCEPT ![t] = @ + 1]
  /\ UNCHANGED type

(* The holder gives back one level.                                        *)
Release(t) ==
  /\ held[t] > 0
  /\ held' = [held EXCEPT ![t] = @ - 1]
  /\ UNCHANGED type

Next == \E t \in Threads : Acquire(t) \/ Reacquire(t) \/ Release(t)

Spec == Init /\ [][Next]_vars
=============================================================================
