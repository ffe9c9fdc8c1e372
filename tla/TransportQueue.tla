--------------------------- MODULE TransportQueue ---------------------------
(***************************************************************************)
(* The bounded byte queue of libcrtmedia/src/transport_queue.c, a monitor: *)
(* every function holds the queue's lock from its first test to its return *)
(* except inside bounded_wait, so what a call does between two waits is    *)
(* one step here.  A thread asleep on a condition variable is woken by a   *)
(* signal, by its deadline or without a cause, and goes on when it has the *)
(* lock again.                                                             *)
(*                                                                         *)
(* As the header has it there are one producer and one consumer; a third   *)
(* thread owns the queue, cancels it and releases it.  The n-th byte that  *)
(* is ever written has the value n.                                        *)
(***************************************************************************)
EXTENDS Integers, SequencesExt

CONSTANTS Capacity,   (* bytes the queue holds                             *)
          MaxBytes    (* bound on the bytes offered in a run               *)

(* crtmedia_transport_queue_create refuses the capacity 0.                 *)
ASSUME QueueAssumption == Capacity \in Nat \ {0} /\ MaxBytes \in Nat

VARIABLES high, low,                 (* the watermarks                     *)
          buffer, head, count,       (* the ring                           *)
          eof, failed, cancelled,    (* eof_written, has_error, cancelled  *)
          activeWaiters, storage,    (* storage: "live" until it is freed  *)
          pc,                        (* where each thread is               *)
          size, patience,            (* the arguments of its call          *)
          accepted, delivered, told  (* history: bytes in, bytes out, and  *)
                                     (*   the end the consumer was told    *)

ring == <<buffer, head, count>>
flags == <<eof, failed, cancelled>>
history == <<accepted, delivered, told>>
vars == <<high, low, ring, flags, activeWaiters, storage, pc, size, patience,
          history>>

Roles == {"producer", "consumer", "owner"}

(* enter: in a call, without the lock; wait: asleep; woken, late: awake,   *)
(* by a signal or the deadline, without the lock; destroy: release has     *)
(* given up the lock and frees what it protects.                           *)
Steps == {"idle", "enter", "wait", "woken", "late", "destroy"}
InWait == {"wait", "woken", "late"}

(* timeout_ms: negative, positive or zero.                                 *)
Patience == {"forever", "bounded", "none"}

(* The watermarks create settles on for the ones it is given.              *)
HighFor(h) == IF h = 0 \/ h > Capacity THEN Capacity ELSE h
LowFor(l, h) == IF l \in 1 .. h THEN l ELSE IF h > 1 THEN h \div 2 ELSE 1

Init ==
  /\ \E h, l \in 0 .. Capacity + 1 : high = HighFor(h) /\ low = LowFor(l, HighFor(h))
  /\ buffer = [i \in 0 .. Capacity - 1 |-> 0] /\ head = 0 /\ count = 0
  /\ eof = FALSE /\ failed = FALSE /\ cancelled = FALSE
  /\ activeWaiters = 0 /\ storage = "live"
  /\ pc = [t \in Roles |-> "idle"] /\ size = [t \in Roles |-> 0]
  /\ patience = [t \in Roles |-> "forever"]
  /\ accepted = <<>> /\ delivered = <<>> /\ told = "nothing"

(* t goes to a step; the threads of woken that sleep are signalled.        *)
Move(t, step, woken) ==
  pc' = [s \in Roles |-> IF s = t THEN step
                         ELSE IF s \in woken /\ pc[s] = "wait" THEN "woken" ELSE pc[s]]

(* bounded_wait's bookkeeping after a wake: active_waiters goes down, and  *)
(* the last one out signals `drained' to the owner.                        *)
WaitersLeft(t) == IF pc[t] \in InWait THEN activeWaiters - 1 ELSE activeWaiters
Drained(t) == IF pc[t] \in InWait /\ WaitersLeft(t) = 0 THEN {"owner"} ELSE {}

(* Thread t has the lock, inside a call, on a queue that still exists.     *)
HasLock(t) == pc[t] \in {"enter", "woken", "late"} /\ storage = "live"

(* The call of t returns, after signalling the threads of woken; what it   *)
(* returns is told by the action that returns.                             *)
Return(t, woken) ==
  /\ Move(t, "idle", woken \union Drained(t))
  /\ activeWaiters' = WaitersLeft(t)
  /\ size' = [size EXCEPT ![t] = 0] /\ patience' = [patience EXCEPT ![t] = "forever"]
  /\ UNCHANGED <<high, low, storage>>

(* bounded_wait                                                            *)
Sleep(t) ==
  /\ Move(t, "wait", Drained(t)) /\ activeWaiters' = WaitersLeft(t) + 1
  /\ UNCHANGED <<high, low, ring, flags, storage, size, patience, history>>

(* A thread calls read or write.                                           *)
Call(t, n, p) ==
  /\ pc[t] = "idle" /\ storage = "live"
  /\ pc' = [pc EXCEPT ![t] = "enter"]
  /\ size' = [size EXCEPT ![t] = n] /\ patience' = [patience EXCEPT ![t] = p]
  /\ UNCHANGED <<high, low, ring, flags, activeWaiters, storage, history>>

(* CANCELLED and TIMEOUT: a cancelled queue, or a deadline that has passed *)
(* (data that came meanwhile notwithstanding), ends a call.                *)
Refused(t) ==
  /\ HasLock(t) /\ (cancelled \/ pc[t] = "late")
  /\ Return(t, {})
  /\ UNCHANGED <<ring, flags, history>>

(* The call cannot go on: it waits, or says so (WOULD_BLOCK).              *)
Block(t) ==
  \/ /\ patience[t] = "none" /\ Return(t, {})
     /\ UNCHANGED <<ring, flags, history>>
  \/ patience[t] # "none" /\ Sleep(t)

Proceeds(t) == HasLock(t) /\ ~ cancelled /\ pc[t] # "late"

-----------------------------------------------------------------------------
(* crtmedia_transport_queue_write; after a wait the end flags are not      *)
(* looked at again, only the producer sets them.                           *)

MayWrite == Proceeds("producer") /\ ~ (pc["producer"] = "enter" /\ (eof \/ failed))

WriteAfterEnd ==
  /\ Proceeds("producer") /\ pc["producer"] = "enter" /\ (eof \/ failed)
  /\ Return("producer", {}) /\ UNCHANGED <<ring, flags, history>>

WriteBlocks == MayWrite /\ count >= high /\ Block("producer")

(* The ring after a chunk has been copied in behind what it holds.         *)
Stored(chunk) ==
  [i \in 0 .. Capacity - 1 |->
     LET k == (i - (head + count)) % Capacity
     IN  IF k < Len(chunk) THEN chunk[k + 1] ELSE buffer[i]]

(* As much as there is room for goes in, and the consumer is signalled.    *)
WriteCopies ==
  /\ MayWrite /\ count < high
  /\ LET n == Min({size["producer"], Capacity - count})
         chunk == [k \in 1 .. n |-> Len(accepted) + k]
     IN  /\ buffer' = Stored(chunk) /\ count' = count + n
         /\ accepted' = accepted \o chunk
  /\ Return("producer", {"consumer"})
  /\ UNCHANGED <<head, flags, delivered, told>>

(* crtmedia_transport_queue_write_eof                                      *)
WriteEof ==
  /\ pc["producer"] = "idle" /\ storage = "live"
  /\ LET refused == cancelled \/ failed
     IN  /\ Return("producer", IF refused THEN {} ELSE {"consumer"})
         /\ eof' = (eof \/ ~ refused)
  /\ UNCHANGED <<ring, failed, cancelled, history>>

(* crtmedia_transport_queue_write_error: the first end that is recorded    *)
(* stays.                                                                  *)
WriteError ==
  /\ pc["producer"] = "idle" /\ storage = "live"
  /\ Return("producer", IF cancelled THEN {} ELSE {"consumer"})
  /\ failed' = (failed \/ (~ cancelled /\ ~ eof))
  /\ UNCHANGED <<ring, eof, cancelled, history>>

-----------------------------------------------------------------------------
(* crtmedia_transport_queue_read                                           *)

Nothing == count = 0 /\ ~ eof /\ ~ failed

ReadBlocks == Proceeds("consumer") /\ Nothing /\ Block("consumer")

(* Fault: the end is reported as soon as it is known.                      *)
ReadEndsEarly ==
  /\ Proceeds("consumer") /\ (eof \/ failed)
  /\ Return("consumer", {})
  /\ told' = IF failed THEN "error" ELSE "eof"
  /\ UNCHANGED <<ring, flags, accepted, delivered>>

(* The queue is drained: the failure or the clean end is reported.         *)
ReadEnds ==
  /\ Proceeds("consumer") /\ count = 0 /\ (eof \/ failed)
  /\ Return("consumer", {})
  /\ told' = IF failed THEN "error" ELSE "eof"
  /\ UNCHANGED <<ring, flags, accepted, delivered>>

(* n bytes leave the ring.                                                 *)
Unload(n) ==
  /\ delivered' = delivered \o [k \in 1 .. n |-> buffer[(head + (k - 1)) % Capacity]]
  /\ head' = (head + n) % Capacity /\ count' = count - n
  /\ UNCHANGED <<buffer, flags, accepted, told>>

(* Fault: the producer is signalled below the low watermark only.          *)
ReadCopiesSignalsLate ==
  /\ Proceeds("consumer") /\ count > 0
  /\ LET n == Min({size["consumer"], count})
     IN  /\ Unload(n)
         /\ Return("consumer", IF count - n < low THEN {"producer"} ELSE {})

(* Down to the low watermark the producer is let go.                       *)
ReadCopies ==
  /\ Proceeds("consumer") /\ count > 0
  /\ LET n == Min({size["consumer"], count})
     IN  /\ Unload(n)
         /\ Return("consumer", IF count - n <= low THEN {"producer"} ELSE {})

-----------------------------------------------------------------------------
(* Fault: only the producer is woken.                                      *)
CancelOneSide(t) ==
  /\ pc[t] = "idle" /\ storage = "live"
  /\ cancelled' = TRUE /\ Return(t, {"producer"})
  /\ UNCHANGED <<ring, eof, failed, history>>

(* crtmedia_transport_queue_cancel                                         *)
Cancel(t) ==
  /\ pc[t] = "idle" /\ storage = "live"
  /\ cancelled' = TRUE /\ Return(t, {"producer", "consumer"})
  /\ UNCHANGED <<ring, eof, failed, history>>

(* Fault: the queue is freed without regard to the threads in a wait.      *)
AwaitNobody == "destroy"

(* crtmedia_transport_queue_release: cancels, waits until nobody is left   *)
(* in a wait, and then frees the queue without the lock.                   *)
AwaitDrained == IF activeWaiters > 0 THEN "wait" ELSE "destroy"

Release ==
  /\ pc["owner"] = "idle" /\ storage = "live"
  /\ cancelled' = TRUE /\ Move("owner", AwaitDrained, {"producer", "consumer"})
  /\ UNCHANGED <<high, low, ring, eof, failed, activeWaiters, storage, size, patience, history>>

ReleaseRechecks ==
  /\ pc["owner"] = "woken" /\ Move("owner", AwaitDrained, {})
  /\ UNCHANGED <<high, low, ring, flags, activeWaiters, storage, size, patience, history>>

ReleaseFrees ==
  /\ pc["owner"] = "destroy" /\ Move("owner", "idle", {}) /\ storage' = "freed"
  /\ UNCHANGED <<high, low, ring, flags, activeWaiters, size, patience, history>>

-----------------------------------------------------------------------------
(* A wait returns without a signal...                                      *)
SpuriousReturn(t) ==
  /\ pc[t] = "wait" /\ pc' = [pc EXCEPT ![t] = "woken"]
  /\ UNCHANGED <<high, low, ring, flags, activeWaiters, storage, size, patience, history>>

(* ... or because its deadline has passed before any signal.               *)
DeadlinePasses(t) ==
  /\ pc[t] = "wait" /\ t # "owner" /\ patience[t] = "bounded"
  /\ pc' = [pc EXCEPT ![t] = "late"]
  /\ UNCHANGED <<high, low, ring, flags, activeWaiters, storage, size, patience, history>>

ProducerRuns == WriteAfterEnd \/ WriteBlocks \/ WriteCopies \/ Refused("producer")
ConsumerRuns == ReadBlocks \/ ReadEnds \/ ReadCopies \/ Refused("consumer")
OwnerRuns == ReleaseRechecks \/ ReleaseFrees

Calls ==
  \/ \E p \in Patience :
       \/ \E n \in 1 .. MaxBytes - Len(accepted) : Call("producer", n, p)
       \/ \E n \in 1 .. Capacity : Call("consumer", n, p)
  \/ WriteEof \/ WriteError \/ Cancel("owner") \/ Release

Next ==
  \/ Calls \/ ProducerRuns \/ ConsumerRuns \/ OwnerRuns
  \/ \E t \in Roles : SpuriousReturn(t) \/ DeadlinePasses(t)

Spec == Init /\ [][Next]_vars

(* A thread that has the lock goes on; nobody has to call.                 *)
FairSpec == Spec /\ WF_vars(ProducerRuns) /\ WF_vars(ConsumerRuns) /\ WF_vars(OwnerRuns)

-----------------------------------------------------------------------------
TypeOK ==
  /\ high \in 1 .. Capacity /\ low \in 1 .. high
  /\ buffer \in [0 .. Capacity - 1 -> 0 .. MaxBytes]
  /\ head \in 0 .. Capacity - 1 /\ count \in 0 .. Capacity
  /\ {eof, failed, cancelled} \subseteq BOOLEAN
  /\ activeWaiters \in 0 .. 2 /\ storage \in {"live", "freed"}
  /\ pc \in [Roles -> Steps] /\ size \in [Roles -> 0 .. MaxBytes]
  /\ patience \in [Roles -> Patience]

(* The queue implements the byte stream of its header.                     *)
Ending == CASE cancelled -> "cancelled" [] failed /\ ~ cancelled -> "error"
            [] eof /\ ~ failed /\ ~ cancelled -> "eof" [] OTHER -> "open"

Stream == INSTANCE ByteStream WITH ending <- Ending
ImplementsByteStream == Stream!Spec

(* Nobody sleeps beside the state it waits for: the consumer only on an    *)
(* open, empty queue, the producer only above the low watermark (or, when  *)
(* both watermarks are equal, at them), release only while somebody has    *)
(* yet to leave.                                                           *)
SleepersHaveCause ==
  /\ pc["consumer"] = "wait" => Nothing /\ ~ cancelled
  /\ pc["producer"] = "wait" => (count > low \/ count = high) /\ ~ cancelled
  /\ pc["owner"] = "wait" => activeWaiters > 0

(* The header: when the memory is freed no thread is inside the queue's    *)
(* own waits, woken ones that have yet to take the lock included.          *)
NobodyWaitsOnFreedQueue ==
  storage = "freed" => \A t \in Roles : pc[t] \notin InWait

(* A cancelled queue lets go of everybody: whoever is in a wait leaves its *)
(* call, and release comes to its end.                                     *)
CancelReleasesEverybody ==
  /\ \A t \in {"producer", "consumer"} :
       (cancelled /\ pc[t] \in InWait) ~> (pc[t] = "idle")
  /\ (pc["owner"] # "idle") ~> (storage = "freed")
=============================================================================
