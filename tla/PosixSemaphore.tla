--------------------------- MODULE PosixSemaphore ---------------------------
(***************************************************************************)
(* The unnamed semaphores of libc/src/semaphore.c: a count changed by      *)
(* compare-exchange loops, and threads asleep on the value 0.              *)
(***************************************************************************)
EXTENDS Naturals, CrtWait

CONSTANTS Threads,        (* threads using the semaphore                   *)
          InitialValue,   (* the value given to sem_init                   *)
          SemValueMax,    (* SEM_VALUE_MAX, small here                     *)
          MaxPosts        (* bound on the posts of the whole run           *)

ASSUME SemaphoreAssumption ==
  /\ IsFiniteSet(Threads)
  /\ SemValueMax \in Nat \ {0} /\ MaxPosts \in Nat
  /\ InitialValue \in 0 .. SemValueMax

VARIABLES count,          (* sem->__private[0]                             *)
          pc, op,         (* where each thread is, and in which call       *)
          value,          (* the local `value' of the call                 *)
          posted, taken   (* successful posts and waits so far             *)

vars == <<count, pc, op, value, posted, taken>>

WaitOps == {"wait", "timedwait", "trywait"}
Steps == {"idle", "postLoad", "postCas", "wake", "load", "take", "deadline",
          "wait", "asleep", "recheck"}

Asleep == {t \in Threads : pc[t] = "asleep"}

Init ==
  /\ count = InitialValue
  /\ pc = [t \in Threads |-> "idle"]
  /\ op = [t \in Threads |-> "none"]
  /\ value = [t \in Threads |-> 0]
  /\ posted = 0 /\ taken = 0

Goto(t, step) == pc' = [pc EXCEPT ![t] = step] /\ UNCHANGED op

(* The call returns; its locals are forgotten.                             *)
Return(t) ==
  /\ pc' = [pc EXCEPT ![t] = "idle"]
  /\ op' = [op EXCEPT ![t] = "none"]
  /\ value' = [value EXCEPT ![t] = 0]

(* The count is loaded (or handed back by a failed exchange).              *)
See(t) == value' = [value EXCEPT ![t] = count]

-----------------------------------------------------------------------------
(* sem_post                                                                *)

PostCall(t) ==
  /\ pc[t] = "idle" /\ posted < MaxPosts
  /\ Goto(t, "postLoad")
  /\ UNCHANGED <<count, value, posted, taken>>

PostLoad(t) ==
  /\ pc[t] = "postLoad" /\ See(t) /\ Goto(t, "postCas")
  /\ UNCHANGED <<count, posted, taken>>

(* Fault: the incremented value is stored, not exchanged.                  *)
PostStore(t) ==
  /\ pc[t] = "postCas" /\ value[t] < SemValueMax
  /\ count' = value[t] + 1 /\ posted' = posted + 1
  /\ Goto(t, "wake") /\ UNCHANGED <<value, taken>>

(* Fault: the limit is not tested.                                         *)
PostUnlimited(t) ==
  /\ pc[t] = "postCas"
  /\ \/ /\ count = value[t] /\ count' = count + 1 /\ posted' = posted + 1
        /\ Goto(t, "wake") /\ UNCHANGED value
     \/ /\ count # value[t]
        /\ See(t) /\ Goto(t, "postCas") /\ UNCHANGED <<count, posted>>
  /\ UNCHANGED taken

(* EOVERFLOW at the limit; otherwise one up, trying until it succeeds.     *)
PostExchange(t) ==
  /\ pc[t] = "postCas"
  /\ \/ value[t] >= SemValueMax /\ Return(t) /\ UNCHANGED <<count, posted>>
     \/ /\ value[t] < SemValueMax /\ count = value[t]
        /\ count' = count + 1 /\ posted' = posted + 1
        /\ Goto(t, "wake") /\ UNCHANGED value
     \/ /\ value[t] < SemValueMax /\ count # value[t]
        /\ See(t) /\ Goto(t, "postCas") /\ UNCHANGED <<count, posted>>
  /\ UNCHANGED taken

(* Fault: only the post that finds the semaphore empty wakes a sleeper.    *)
PostWakeIfEmpty(t) ==
  /\ pc[t] = "wake"
  /\ \E woken \in IF value[t] = 0 THEN WakeOne(Asleep) ELSE {{}} :
       pc' = [s \in Threads |-> IF s = t THEN "idle"
                                ELSE IF s \in woken THEN "load" ELSE pc[s]]
  /\ value' = [value EXCEPT ![t] = 0]
  /\ UNCHANGED <<count, op, posted, taken>>

(* __crt_wake32_one, after every post, whatever the count was.             *)
PostWake(t) ==
  /\ pc[t] = "wake"
  /\ \E woken \in WakeOne(Asleep) :
       pc' = [s \in Threads |-> IF s = t THEN "idle"
                                ELSE IF s \in woken THEN "load" ELSE pc[s]]
  /\ value' = [value EXCEPT ![t] = 0]
  /\ UNCHANGED <<count, op, posted, taken>>

-----------------------------------------------------------------------------
(* sem_wait, sem_timedwait, sem_trywait                                    *)

WaitCall(t, o) ==
  /\ pc[t] = "idle"
  /\ op' = [op EXCEPT ![t] = o] /\ pc' = [pc EXCEPT ![t] = "load"]
  /\ UNCHANGED <<count, value, posted, taken>>

(* What a waiting call does with the value it has just seen: go for a      *)
(* token, give up (EAGAIN), look at its deadline, or wait.                 *)
Consider(t) ==
  /\ IF count > 0 THEN See(t) /\ Goto(t, "take")
     ELSE CASE op[t] = "trywait" -> Return(t)
            [] op[t] = "timedwait" -> See(t) /\ Goto(t, "deadline")
            [] op[t] = "wait" -> See(t) /\ Goto(t, "wait")
  /\ UNCHANGED <<count, posted, taken>>

Load(t) == pc[t] = "load" /\ Consider(t)

(* The exchange value -> value - 1; a failed one sees the new count.       *)
Take(t) ==
  \/ /\ pc[t] = "take" /\ count = value[t]
     /\ count' = count - 1 /\ taken' = taken + 1 /\ Return(t)
     /\ UNCHANGED posted
  \/ /\ pc[t] = "take" /\ count # value[t] /\ Consider(t)

(* sem_timedwait computes the remaining time; it may be used up.           *)
Deadline(t) ==
  /\ pc[t] = "deadline"
  /\ \/ Goto(t, "wait") /\ UNCHANGED value
     \/ Return(t)
  /\ UNCHANGED <<count, posted, taken>>

(* __crt_wait32(&count, 0)                                                 *)
Wait(t) ==
  /\ pc[t] = "wait"
  /\ Goto(t, IF WaitSleeps(count, 0) THEN "asleep" ELSE "load")
  /\ UNCHANGED <<count, value, posted, taken>>

SpuriousReturn(t) ==
  /\ pc[t] = "asleep" /\ Goto(t, "load")
  /\ UNCHANGED <<count, value, posted, taken>>

WaitTimesOut(t) ==
  /\ pc[t] = "asleep" /\ op[t] = "timedwait" /\ Goto(t, "recheck")
  /\ UNCHANGED <<count, value, posted, taken>>

(* After a timed out wait the count is looked at once more: a post may     *)
(* have come in just then.                                                 *)
Recheck(t) ==
  /\ pc[t] = "recheck"
  /\ \/ count > 0 /\ Goto(t, "load") /\ UNCHANGED value
     \/ count = 0 /\ Return(t)
  /\ UNCHANGED <<count, posted, taken>>

-----------------------------------------------------------------------------
Run(t) == \/ PostLoad(t) \/ PostExchange(t) \/ PostWake(t)
          \/ Load(t) \/ Take(t) \/ Deadline(t) \/ Wait(t) \/ Recheck(t)

Next == \E t \in Threads :
          \/ PostCall(t) \/ (\E o \in WaitOps : WaitCall(t, o))
          \/ SpuriousReturn(t) \/ WaitTimesOut(t) \/ Run(t)

Spec == Init /\ [][Next]_vars

(* Threads inside a call are scheduled; nobody has to post.                *)
FairSpec == Spec /\ \A t \in Threads : WF_vars(Run(t))

-----------------------------------------------------------------------------
TypeOK ==
  /\ count \in 0 .. SemValueMax
  /\ pc \in [Threads -> Steps] /\ op \in [Threads -> WaitOps \union {"none"}]
  /\ value \in [Threads -> 0 .. SemValueMax]
  /\ posted \in Nat /\ taken \in Nat

(* No token is made up or lost by racing posts and waits: the count is     *)
(* what was put in less what was taken out.                                *)
TokensConserved == count + taken = InitialValue + posted

(* Threads that are about to wake a sleeper, to look at the count or to    *)
(* take a token.                                                           *)
Agents == {t \in Threads : pc[t] \in {"wake", "load", "take", "wait", "recheck"}}

(* While somebody sleeps there is an agent under way for every token: no   *)
(* wake is swallowed by a thread that leaves empty-handed, and none is     *)
(* saved although a token was added.                                       *)
NoTokenUnclaimed == Asleep # {} => count <= Cardinality(Agents)

(* A sleeper beside a positive count does not stay there.                  *)
SleepersServed ==
  \A t \in Threads : (pc[t] = "asleep" /\ count > 0) ~> (pc[t] # "asleep" \/ count = 0)
=============================================================================
