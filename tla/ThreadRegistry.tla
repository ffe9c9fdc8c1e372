--------------------------- MODULE ThreadRegistry ---------------------------
(***************************************************************************)
(* The Linux registry of threads in libc/src/tls.c: an open-addressed hash *)
(* table from kernel thread id to thread context, written under a lock and *)
(* read without one.  A slot keeps its key when its thread has gone, so    *)
(* that the probes of others pass it, and is filled in an order of stores. *)
(*                                                                         *)
(* A thread stands for its id, its control block and its context; an id    *)
(* that comes back is one that registers again.  Threads look themselves   *)
(* up at any point, as a signal handler can, in the midst of their own     *)
(* registration too.  Readers do not disturb each other and one reads at a *)
(* time.                                                                   *)
(***************************************************************************)
EXTENDS Integers

CONSTANTS Threads, NoThread,
          TableSize     (* at least as many slots as threads               *)

VARIABLES table,        (* the slots: tid, control, context                *)
          hash,         (* thread_slot_hash, any function                  *)
          pc,           (* each thread: out, filling a slot, or in         *)
          filled,       (* the slot being filled under thread_lock         *)
          reader        (* the reader and what it knows                    *)

vars == <<table, hash, pc, filled, reader>>

Slots == 0 .. TableSize - 1
Nobody == [by |-> NoThread, at |-> "none", of |-> NoThread, probes |-> 0,
           found |-> NoThread, ever |-> FALSE, always |-> FALSE]

Init ==
  /\ table = [s \in Slots |-> [tid |-> NoThread, control |-> NoThread, context |-> NoThread]]
  /\ hash \in [Threads -> Slots]
  /\ pc = [t \in Threads |-> "out"] /\ filled = 0 /\ reader = Nobody

Probe(t, k) == (hash[t] + k) % TableSize

LockFree == \A t \in Threads : pc[t] \in {"out", "in"}

(* A thread goes on with its own code when its handler has returned.       *)
Runs(t) == reader.by # t

(* t's slot: its own old one if a probe gets there before a slot never     *)
(* used, otherwise the first one on the way that has no thread.            *)
Stops(t, k) == table[Probe(t, k)].tid \in {NoThread, t}
OnTheWay(t) == {k \in Slots : \A j \in 0 .. k - 1 : ~ Stops(t, j)}
SlotFor(t) ==
  LET own == {k \in OnTheWay(t) : table[Probe(t, k)].tid = t}
      open == {k \in OnTheWay(t) : table[Probe(t, k)].context = NoThread}
      best == IF own # {} THEN own ELSE open
  IN  Probe(t, CHOOSE k \in best : \A j \in best : k <= j)

(* What a running scan for a control block has had before it.              *)
Witnessed ==
  IF reader.at \in {"first", "second"}
  THEN [reader EXCEPT !.ever = @ \/ pc'[reader.of] # "out",
                      !.always = @ /\ pc'[reader.of] = "in"]
  ELSE reader

-----------------------------------------------------------------------------
(* linux_register_context                                                  *)

ClearSlot(t) ==
  /\ pc[t] = "out" /\ LockFree /\ Runs(t)
  /\ filled' = SlotFor(t) /\ table' = [table EXCEPT ![filled'].context = NoThread]
  /\ pc' = [pc EXCEPT ![t] = "control"] /\ reader' = Witnessed /\ UNCHANGED hash

Fill(t, from, to, field) ==
  /\ pc[t] = from /\ Runs(t)
  /\ table' = [table EXCEPT ![filled][field] = t]
  /\ pc' = [pc EXCEPT ![t] = to] /\ reader' = Witnessed /\ UNCHANGED <<hash, filled>>

StoreControl(t) == Fill(t, "control", "tid", "control")
StoreTid(t) == Fill(t, "tid", "context", "tid")
StoreContext(t) == Fill(t, "context", "in", "context")

(* Fault: the key goes with the context.                                   *)
UnregisterKey(t) ==
  /\ pc[t] = "in" /\ LockFree /\ Runs(t)
  /\ table' = [s \in Slots |-> IF table[s].context = t
                               THEN [table[s] EXCEPT !.context = NoThread, !.tid = NoThread]
                               ELSE table[s]]
  /\ pc' = [pc EXCEPT ![t] = "out"] /\ reader' = Witnessed /\ UNCHANGED <<hash, filled>>

(* linux_unregister_context                                                *)
Unregister(t) ==
  /\ pc[t] = "in" /\ LockFree /\ Runs(t)
  /\ table' = [s \in Slots |-> IF table[s].context = t
                               THEN [table[s] EXCEPT !.context = NoThread] ELSE table[s]]
  /\ pc' = [pc EXCEPT ![t] = "out"] /\ reader' = Witnessed /\ UNCHANGED <<hash, filled>>

-----------------------------------------------------------------------------
(* linux_find_context, for the calling thread's own id                     *)
Reads(r) == reader' = r /\ UNCHANGED <<table, hash, pc, filled>>

LookUp(t) ==
  reader = Nobody /\ Reads([Nobody EXCEPT !.by = t, !.at = "key"])

(* On to the next slot, or nothing found: the main thread's context.       *)
NextProbe == IF reader.probes + 1 = TableSize THEN [reader EXCEPT !.at = "found"]
             ELSE [reader EXCEPT !.at = "key", !.probes = @ + 1]

LoadKey ==
  /\ reader.at = "key"
  /\ LET key == table[Probe(reader.by, reader.probes)].tid
     IN  Reads(CASE key = NoThread -> [reader EXCEPT !.at = "found"]
                 [] key = reader.by -> [reader EXCEPT !.at = "context"]
                 [] OTHER -> NextProbe)

LoadContext ==
  /\ reader.at = "context"
  /\ LET context == table[Probe(reader.by, reader.probes)].context
     IN  Reads(IF context # NoThread
               THEN [reader EXCEPT !.at = "found", !.found = context] ELSE NextProbe)

(* __crt_thread_control_is_live(c): two loads from every slot              *)
Scan(c) ==
  /\ reader = Nobody
  /\ Reads([Nobody EXCEPT !.at = "first", !.of = c, !.ever = (pc[c] # "out"),
                          !.always = (pc[c] = "in")])

(* Fault: the control block is looked at first.                            *)
LoadsSwapped == <<"control", "context">>

Loads == <<"context", "control">>

Matches(field) ==
  LET slot == table[reader.probes]
  IN  IF field = "context" THEN slot.context # NoThread ELSE slot.control = reader.of

NextSlot == IF reader.probes + 1 = TableSize THEN [reader EXCEPT !.at = "dead"]
            ELSE [reader EXCEPT !.at = "first", !.probes = @ + 1]

ScanFirst ==
  /\ reader.at = "first"
  /\ Reads(IF Matches(Loads[1]) THEN [reader EXCEPT !.at = "second"] ELSE NextSlot)

ScanSecond ==
  /\ reader.at = "second"
  /\ Reads(IF Matches(Loads[2]) THEN [reader EXCEPT !.at = "live"] ELSE NextSlot)

ReadEnds == reader.at \in {"found", "live", "dead"} /\ Reads(Nobody)

Next ==
  \/ \E t \in Threads :
       \/ ClearSlot(t) \/ StoreControl(t) \/ StoreTid(t) \/ StoreContext(t) \/ Unregister(t)
       \/ LookUp(t) \/ Scan(t)
  \/ LoadKey \/ LoadContext \/ ScanFirst \/ ScanSecond \/ ReadEnds

Spec == Init /\ [][Next]_vars

-----------------------------------------------------------------------------
(* A registered thread that looks itself up finds its own context, never   *)
(* the main thread's and never another's, whatever slots on its way other  *)
(* threads take and leave meanwhile.                                       *)
RegisteredFindsItself ==
  reader.at = "found" /\ pc[reader.by] = "in" => reader.found = reader.by

(* A control block that was registered all through a scan is found live,   *)
(* and one that never was is not: pthread_kill follows the pointer of a    *)
(* block that is found.                                                    *)
ScanIsExact ==
  /\ reader.at = "live" => reader.ever
  /\ reader.at = "dead" => ~ reader.always

(* tls.c:111: a reader of the old key never pairs it with the new context. *)
(* No thread, one that has left the registry and whose slot is taken over  *)
(* included, is given the context of another.                              *)
OldKeyNeverPairsNewContext ==
  reader.at = "found" => reader.found \in {reader.by, NoThread}
=============================================================================
