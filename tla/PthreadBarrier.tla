--------------------------- MODULE PthreadBarrier ---------------------------
(***************************************************************************)
(* pthread_barrier_wait of libc/src/pthread.c: the last thread to arrive   *)
(* resets the arrival count, advances the generation and wakes the others, *)
(* while some of them may not have gone to sleep yet and others may        *)
(* already be arriving for the next round.                                 *)
(***************************************************************************)
EXTENDS Naturals, CrtWait

CONSTANTS Threads,     (* the threads that use the barrier                 *)
          Counts,      (* the counts pthread_barrier_init may be given     *)
          MaxRounds    (* bound on the rounds a thread takes part in       *)

VARIABLES count,       (* CRT_BARRIER_COUNT_WORD: not 0, and otherwise not *)
                       (*   tied to the number of threads                  *)
          waiters,     (* CRT_BARRIER_WAITERS_WORD                         *)
          generation,  (* CRT_BARRIER_GENERATION_WORD; 2^32 rounds, where  *)
                       (*   it would wrap, are out of bounds               *)
          pc,
          genSeen,     (* the local `generation' of the call               *)
          entered,     (* rounds t has started and finished, and the times *)
          left,        (*   it was told PTHREAD_BARRIER_SERIAL_THREAD      *)
          serial

vars == <<count, waiters, generation, pc, genSeen, entered, left, serial>>

Steps == {"idle", "load", "arrive", "reset", "advance", "wakeAll", "test",
          "wait", "asleep"}

Asleep == {t \in Threads : pc[t] = "asleep"}

Goto(t, step) == pc' = [pc EXCEPT ![t] = step]

(* pthread_barrier_init                                                    *)
Init ==
  /\ count \in Counts
  /\ waiters = 0 /\ generation = 0
  /\ pc = [t \in Threads |-> "idle"]
  /\ genSeen = [t \in Threads |-> 0]
  /\ entered = [t \in Threads |-> 0]
  /\ left = [t \in Threads |-> 0]
  /\ serial = [t \in Threads |-> 0]

(* A thread calls pthread_barrier_wait.                                    *)
WaitCall(t) ==
  /\ pc[t] = "idle" /\ entered[t] < MaxRounds
  /\ entered' = [entered EXCEPT ![t] = @ + 1] /\ Goto(t, "load")
  /\ UNCHANGED <<count, waiters, generation, genSeen, left, serial>>

(* The generation is loaded before the arrival is counted.                 *)
LoadGeneration(t) ==
  /\ pc[t] = "load"
  /\ genSeen' = [genSeen EXCEPT ![t] = generation] /\ Goto(t, "arrive")
  /\ UNCHANGED <<count, waiters, generation, entered, left, serial>>

(* Fault: the arrival count is tested for `at least', off by one.          *)
ArriveEarly(t) ==
  /\ pc[t] = "arrive"
  /\ waiters' = waiters + 1
  /\ Goto(t, IF waiters + 1 >= count - 1 THEN "reset" ELSE "test")
  /\ UNCHANGED <<count, generation, genSeen, entered, left, serial>>

(* The fetch-add on the arrival count singles out the last arrival.        *)
Arrive(t) ==
  /\ pc[t] = "arrive"
  /\ waiters' = waiters + 1
  /\ Goto(t, IF waiters + 1 = count THEN "reset" ELSE "test")
  /\ UNCHANGED <<count, generation, genSeen, entered, left, serial>>

(* The last arrival resets the count before it opens the barrier...        *)
Reset(t) ==
  /\ pc[t] = "reset" /\ waiters' = 0 /\ Goto(t, "advance")
  /\ UNCHANGED <<count, generation, genSeen, entered, left, serial>>

(* ... by advancing the generation...                                      *)
Advance(t) ==
  /\ pc[t] = "advance" /\ generation' = generation + 1 /\ Goto(t, "wakeAll")
  /\ UNCHANGED <<count, waiters, genSeen, entered, left, serial>>

(* Fault: only one of the waiting threads is woken.                        *)
OpenWakesOne(t) ==
  /\ pc[t] = "wakeAll"
  /\ \E woken \in WakeOne(Asleep) :
       pc' = [s \in Threads |-> IF s = t THEN "idle"
                                ELSE IF s \in woken THEN "test" ELSE pc[s]]
  /\ left' = [left EXCEPT ![t] = @ + 1]
  /\ serial' = [serial EXCEPT ![t] = @ + 1]
  /\ UNCHANGED <<count, waiters, generation, genSeen, entered>>

(* ... and waking everybody; it returns PTHREAD_BARRIER_SERIAL_THREAD.     *)
Open(t) ==
  /\ pc[t] = "wakeAll"
  /\ \E woken \in WakeAll(Asleep) :
       pc' = [s \in Threads |-> IF s = t THEN "idle"
                                ELSE IF s \in woken THEN "test" ELSE pc[s]]
  /\ left' = [left EXCEPT ![t] = @ + 1]
  /\ serial' = [serial EXCEPT ![t] = @ + 1]
  /\ UNCHANGED <<count, waiters, generation, genSeen, entered>>

(* The others wait for the generation they loaded to pass, and return 0.   *)
Test(t) ==
  /\ pc[t] = "test"
  /\ \/ generation = genSeen[t] /\ Goto(t, "wait") /\ UNCHANGED left
     \/ /\ generation # genSeen[t]
        /\ Goto(t, "idle") /\ left' = [left EXCEPT ![t] = @ + 1]
  /\ UNCHANGED <<count, waiters, generation, genSeen, entered, serial>>

(* __crt_wait32(generation, generation seen)                               *)
Wait(t) ==
  /\ pc[t] = "wait"
  /\ Goto(t, IF WaitSleeps(generation, genSeen[t]) THEN "asleep" ELSE "test")
  /\ UNCHANGED <<count, waiters, generation, genSeen, entered, left, serial>>

SpuriousReturn(t) ==
  /\ pc[t] = "asleep" /\ Goto(t, "test")
  /\ UNCHANGED <<count, waiters, generation, genSeen, entered, left, serial>>

Run(t) == \/ LoadGeneration(t) \/ Arrive(t) \/ Reset(t) \/ Advance(t) \/ Open(t)
          \/ Test(t) \/ Wait(t)

(* Every thread has used the barrier MaxRounds times.                      *)
Finished ==
  /\ \A t \in Threads : left[t] = MaxRounds
  /\ UNCHANGED vars

Next == (\E t \in Threads : WaitCall(t) \/ SpuriousReturn(t) \/ Run(t)) \/ Finished

Spec == Init /\ [][Next]_vars

(* Threads inside the call are scheduled; none has to call.                *)
FairSpec == Spec /\ \A t \in Threads : WF_vars(Run(t))

-----------------------------------------------------------------------------
TypeOK ==
  /\ count \in Counts /\ waiters \in Nat
  /\ pc \in [Threads -> Steps] /\ generation \in Nat /\ genSeen \in [Threads -> 0 .. generation]
  /\ entered \in [Threads -> 0 .. MaxRounds] /\ left \in [Threads -> 0 .. MaxRounds]
  /\ serial \in [Threads -> 0 .. MaxRounds]

(* No more threads use the barrier than it counts.  With one thread more,  *)
(* an arrival between the reset and the advance of a round passes on the   *)
(* generation it has loaded while its arrival counts for the next round.   *)
NotOverused == Cardinality(Threads) <= count

(* Nobody gets past the barrier for the k-th time before everybody has     *)
(* reached it for the k-th time, however far ahead a fast thread runs.     *)
NobodyPassesEarly ==
  NotOverused => \A s, t \in Threads : left[s] <= entered[t]

(* The serial returns so far: the k-th of t for every k up to serial[t].   *)
SerialReturns == {r \in Threads \X (1 .. MaxRounds) : r[2] <= serial[r[1]]}

(* At most one thread of every round is told it is the serial one, however *)
(* many threads use the barrier; as many as rounds once all have left.     *)
OneSerialThreadPerRound ==
  LET serials == Cardinality(SerialReturns)
  IN  /\ serials <= generation
      /\ NotOverused =>
           \A k \in 0 .. MaxRounds :
             (\A t \in Threads : left[t] = k /\ pc[t] = "idle") => serials = k

(* The arrivals counted so far: the k-th of t for every k up to its last.  *)
Counted(t) == IF pc[t] \in {"load", "arrive"} THEN entered[t] - 1 ELSE entered[t]
Arrivals == {r \in Threads \X (1 .. MaxRounds) : r[2] <= Counted(r[1])}

(* No arrival pays for two rounds: however many threads use the barrier    *)
(* and race its last arrival, each opening took `count' arrivals.          *)
OpeningsPaid == count * generation <= Cardinality(Arrivals)

(* Waiting for a generation that has passed.                               *)
Behind(t) == pc[t] \in {"test", "wait", "asleep"} /\ generation # genSeen[t]

(* Once as many threads as the barrier counts have all reached it for the  *)
(* k-th time, all get past it for the k-th time.  However many they are,   *)
(* nobody sleeps through an opening: who is behind leaves.                 *)
BarrierOpens ==
  /\ \A k \in 1 .. MaxRounds :
       (Cardinality(Threads) = count /\ \A t \in Threads : entered[t] >= k)
          ~> (\A t \in Threads : left[t] >= k)
  /\ (\E t \in Threads : Behind(t)) ~> (\A t \in Threads : ~ Behind(t))
=============================================================================
