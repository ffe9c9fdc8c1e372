----------------------------- MODULE RwlockSpec -----------------------------
(***************************************************************************)
(* What pthread_rwlock_* promises: any number of readers or one writer.    *)
(***************************************************************************)
EXTENDS Integers

CONSTANTS Threads

VARIABLE hold    (* hold[t]: read locks of t, or -1 when t is the writer *)

Init == hold = [t \in Threads |-> 0]

(* A read lock is granted while nobody writes.                             *)
Read(t) ==
  /\ \A s \in Threads : hold[s] >= 0
  /\ hold' = [hold EXCEPT ![t] = @ + 1]

(* The write lock is granted while nobody reads or writes.                 *)
Write(t) ==
  /\ \A s \in Threads : hold[s] = 0
  /\ hold' = [hold EXCEPT ![t] = -1]

(* One lock of t is given back.                                            *)
Release(t) ==
  /\ hold[t] # 0
  /\ hold' = [hold EXCEPT ![t] = IF @ > 0 THEN @ - 1 ELSE 0]

Next == \E t \in Threads : Read(t) \/ Write(t) \/ Release(t)

Spec == Init /\ [][Next]_hold
=============================================================================
