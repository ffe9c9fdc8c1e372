---------------------------- MODULE PthreadKeys ----------------------------
(***************************************************************************)
(* pthread_key_* and thread-specific values of libc/src/pthread.c.         *)
(* Creation, deletion and each look of an ending thread at a slot are      *)
(* steps under pthread_key_lock; the values are the thread's own.          *)
(*                                                                         *)
(* A slot is used again by later keys.  Keys are told apart by a number,   *)
(* and of a value only the key that it was stored under is of interest.    *)
(***************************************************************************)
EXTENDS Integers

CONSTANTS Threads,
          KeysMax,    (* CRT_PTHREAD_KEYS_MAX: slots 1 .. KeysMax          *)
          Passes,     (* CRT_PTHREAD_DESTRUCTOR_ITERATIONS                 *)
          MaxCreated  (* bound on the keys created                         *)

VARIABLES key,        (* the slots                                         *)
          value,      (* value[t][k]: the key of the value, or 0           *)
          thread,     (* what each thread does                             *)
          created     (* history: the keys so far                          *)

vars == <<key, value, thread, created>>

NoKey == [number |-> 0, destructor |-> FALSE]
NoValues == [k \in 1 .. KeysMax |-> 0]
Running == [at |-> "running", slot |-> 0, pass |-> 0, called |-> FALSE,
            argument |-> 0, destructorOf |-> 0]

Init ==
  /\ key = [k \in 1 .. KeysMax |-> NoKey]
  /\ value = [t \in Threads |-> NoValues]
  /\ thread = [t \in Threads |-> Running]
  /\ created = 0

Valid(k) == key[k].number # 0

-----------------------------------------------------------------------------
(* Calls, which destructors may make too                                   *)

Calls(t) == thread[t].at \in {"running", "destructor"} /\ UNCHANGED thread

(* The first slot that is free.                                            *)
Create(t, destructor) ==
  /\ Calls(t) /\ created < MaxCreated
  /\ \E k \in 1 .. KeysMax :
       /\ ~ Valid(k) /\ \A j \in 1 .. k - 1 : Valid(j)
       /\ key' = [key EXCEPT ![k] = [number |-> created + 1, destructor |-> destructor]]
  /\ created' = created + 1 /\ UNCHANGED value

(* The program deletes a key of which no other thread has a value.         *)
MayDelete(t, k) == Valid(k) /\ \A u \in Threads \ {t} : value[u][k] = 0

(* Fault: the value of the thread that deletes the key stays.              *)
DeleteKeepsValue(t, k) ==
  /\ Calls(t) /\ MayDelete(t, k)
  /\ key' = [key EXCEPT ![k] = NoKey] /\ UNCHANGED <<value, created>>

Delete(t, k) ==
  /\ Calls(t) /\ MayDelete(t, k)
  /\ value' = [value EXCEPT ![t][k] = 0]
  /\ key' = [key EXCEPT ![k] = NoKey] /\ UNCHANGED created

SetSpecific(t, k) ==
  /\ Calls(t) /\ Valid(k)
  /\ \E v \in {0, key[k].number} : value' = [value EXCEPT ![t][k] = v]
  /\ UNCHANGED <<key, created>>

-----------------------------------------------------------------------------
(* pthread_run_key_destructors, at the end of a thread                     *)

Goes(t, to) == thread' = [thread EXCEPT ![t] = to] /\ UNCHANGED <<key, created>>

Exit(t) ==
  /\ thread[t].at = "running" /\ UNCHANGED value
  /\ Goes(t, [Running EXCEPT !.at = "scanning", !.slot = 1, !.pass = 1])

(* The value is taken out under the lock, before its destructor runs...    *)
Destroy(t) ==
  LET k == thread[t].slot
  IN  /\ thread[t].at = "scanning" /\ k \in 1 .. KeysMax
      /\ Valid(k) /\ key[k].destructor /\ value[t][k] # 0
      /\ value' = [value EXCEPT ![t][k] = 0]
      /\ Goes(t, [thread[t] EXCEPT !.at = "destructor", !.called = TRUE,
                                   !.argument = value[t][k], !.destructorOf = key[k].number])

(* ... without the lock, and perhaps with calls of its own.                *)
DestructorReturns(t) ==
  /\ thread[t].at = "destructor" /\ UNCHANGED value
  /\ Goes(t, [thread[t] EXCEPT !.at = "scanning", !.slot = @ + 1,
                               !.argument = 0, !.destructorOf = 0])

PassOver(t) ==
  LET k == thread[t].slot
  IN  /\ thread[t].at = "scanning" /\ k \in 1 .. KeysMax /\ UNCHANGED value
      /\ ~ (Valid(k) /\ key[k].destructor /\ value[t][k] # 0)
      /\ Goes(t, [thread[t] EXCEPT !.slot = @ + 1])

(* A pass that called a destructor is followed by another.                 *)
AnotherPass(t) ==
  /\ thread[t].at = "scanning" /\ thread[t].slot > KeysMax /\ UNCHANGED value
  /\ thread[t].called /\ thread[t].pass < Passes
  /\ Goes(t, [thread[t] EXCEPT !.slot = 1, !.pass = @ + 1, !.called = FALSE])

Ends(t) ==
  /\ thread[t].at = "scanning" /\ thread[t].slot > KeysMax /\ UNCHANGED value
  /\ ~ (thread[t].called /\ thread[t].pass < Passes)
  /\ Goes(t, [thread[t] EXCEPT !.at = "ended"])

(* A new thread, with a context of its own.                                *)
Starts(t) ==
  /\ thread[t].at = "ended" /\ Goes(t, Running)
  /\ value' = [value EXCEPT ![t] = NoValues]

Next ==
  \E t \in Threads :
    \/ \E d \in BOOLEAN : Create(t, d)
    \/ \E k \in 1 .. KeysMax : Delete(t, k) \/ SetSpecific(t, k)
    \/ Exit(t) \/ Destroy(t) \/ DestructorReturns(t) \/ PassOver(t)
    \/ AnotherPass(t) \/ Ends(t) \/ Starts(t)

Spec == Init /\ [][Next]_vars

-----------------------------------------------------------------------------
(* Whatever keys come and go while threads end: a value is seen and        *)
(* destroyed only under the key it was stored for, and a thread that ends  *)
(* leaves no value whose destructor was not called, unless its destructors *)
(* went on storing some through every pass (docs/design/pthread_policy.md, *)
(* four-pass destructor execution).                                        *)
ValuesMeetTheirDestructor ==
  \A t \in Threads :
    /\ thread[t].argument = thread[t].destructorOf
    /\ \A k \in 1 .. KeysMax : Valid(k) /\ value[t][k] # 0 => value[t][k] = key[k].number
    /\ thread[t].at = "ended" /\ thread[t].pass < Passes =>
         \A k \in 1 .. KeysMax : key[k].destructor => value[t][k] = 0
=============================================================================
