--------------------------- MODULE TransportProofs ---------------------------
(***************************************************************************)
(* Proofs about the transport queue and the upload built from it, for any  *)
(* capacity, any watermarks and any number of bytes.  The queue's          *)
(* invariant is kept by the steps of any producer, consumer and owner, and *)
(* by a consumer that cancels the queue, as the upload's worker does.      *)
(***************************************************************************)
EXTENDS HttpUpload, TLAPS

QueueNext ==
  \/ \E t \in {"producer", "consumer"}, n \in Nat \ {0}, p \in Patience : Call(t, n, p)
  \/ WriteEof \/ WriteError \/ Cancel("owner") \/ Cancel("consumer") \/ Release
  \/ ProducerRuns \/ ConsumerRuns \/ OwnerRuns
  \/ \E t \in Roles : SpuriousReturn(t) \/ DeadlinePasses(t)

(* The types of the variables.                                             *)
QueueTypeOK ==
  /\ high \in 1 .. Capacity /\ low \in 1 .. high
  /\ buffer \in [0 .. Capacity - 1 -> Nat]
  /\ head \in 0 .. Capacity - 1 /\ count \in 0 .. Capacity
  /\ eof \in BOOLEAN /\ failed \in BOOLEAN /\ cancelled \in BOOLEAN
  /\ activeWaiters \in Nat /\ storage \in {"live", "freed"}
  /\ pc \in [Roles -> Steps] /\ size \in [Roles -> Nat]
  /\ patience \in [Roles -> Patience]

(* The bytes of a sequence are its first ones, in order.                   *)
InOrder(bytes) ==
  bytes \in Seq(Nat) /\ \A i \in 1 .. Len(bytes) : bytes[i] = i

(* What went in is what came out and then what is in the ring, from head.  *)
Content ==
  /\ InOrder(accepted) /\ InOrder(delivered)
  /\ Len(accepted) = Len(delivered) + count
  /\ \A k \in 0 .. count - 1 : buffer[(head + k) % Capacity] = Len(delivered) + k + 1

Waits(t) == IF pc[t] \in InWait THEN 1 ELSE 0

(* Where each thread may be.                                               *)
CallsWell ==
  /\ pc["owner"] \in {"idle", "wait", "woken", "destroy"}
  /\ \A t \in {"producer", "consumer"} :
       pc[t] # "destroy" /\ (pc[t] # "idle" => size[t] >= 1)
  /\ pc["producer"] \in InWait => ~ eof /\ ~ failed
  /\ pc["owner"] # "idle" => cancelled /\ storage = "live"

(* The threads in a wait are counted, and release passes them only when    *)
(* there is none.                                                          *)
WaitersWell ==
  /\ activeWaiters = Waits("producer") + Waits("consumer")
  /\ pc["owner"] = "destroy" => activeWaiters = 0
  /\ storage = "freed" => cancelled /\ activeWaiters = 0

(* The inductive invariant of the queue.                                   *)
QueueInv == QueueTypeOK /\ Content /\ CallsWell /\ WaitersWell /\ SleepersHaveCause

(* The positions of the ring.                                              *)
LEMMA RingPosition ==
  ASSUME NEW x \in 0 .. Capacity - 1
  PROVE  /\ x % Capacity = x /\ (x + Capacity) % Capacity = x
         /\ (x - Capacity) % Capacity = x /\ (x - 2 * Capacity) % Capacity = x
BY QueueAssumption

LEMMA RingRange ==
  ASSUME NEW x \in Int
  PROVE  x % Capacity \in 0 .. Capacity - 1
BY QueueAssumption

(* The smaller of two numbers.                                             *)
LEMMA MinOfTwo ==
  ASSUME NEW a \in Int, NEW b \in Int
  PROVE  Min({a, b}) \in {a, b} /\ Min({a, b}) <= a /\ Min({a, b}) <= b
<1>1. \E x \in {a, b} : \A y \in {a, b} : x <= y
  <2>1. CASE a <= b
    BY <2>1
  <2>2. CASE b <= a
    BY <2>2
  <2> QED
    BY <2>1, <2>2
<1> QED
  BY <1>1 DEF Min

(* The invariant holds of a new queue.                                     *)
LEMMA QueueInitInv == Init => QueueInv
<1> SUFFICES ASSUME Init PROVE QueueInv
  OBVIOUS
<1>1. QueueTypeOK
  <2>1. high \in 1 .. Capacity /\ low \in 1 .. high
    <3> PICK h \in 0 .. Capacity + 1, l \in 0 .. Capacity + 1 :
               high = HighFor(h) /\ low = LowFor(l, HighFor(h))
      BY DEF Init
    <3>1. HighFor(h) \in 1 .. Capacity
      BY QueueAssumption DEF HighFor
    <3>2. high > 1 => high \div 2 \in 1 .. high
      BY QueueAssumption, <3>1
    <3>3. LowFor(l, high) \in 1 .. high
      BY QueueAssumption, <3>1, <3>2 DEF LowFor
    <3> QED
      BY <3>1, <3>3
  <2>2. buffer \in [0 .. Capacity - 1 -> Nat] /\ head \in 0 .. Capacity - 1
    BY QueueAssumption DEF Init
  <2>3. count \in 0 .. Capacity /\ activeWaiters \in Nat /\ storage \in {"live", "freed"}
    BY QueueAssumption DEF Init
  <2>4. /\ pc \in [Roles -> Steps] /\ size \in [Roles -> Nat]
        /\ patience \in [Roles -> Patience]
    BY DEF Init, Steps, Patience
  <2>5. eof \in BOOLEAN /\ failed \in BOOLEAN /\ cancelled \in BOOLEAN
    BY DEF Init
  <2> QED
    BY <2>1, <2>2, <2>3, <2>4, <2>5 DEF QueueTypeOK
<1>2. Content
  BY DEF Init, Content, InOrder
<1>3. CallsWell /\ WaitersWell /\ SleepersHaveCause
  BY DEF Init, CallsWell, WaitersWell, SleepersHaveCause, Waits, Roles, InWait
<1> QED
  BY <1>1, <1>2, <1>3 DEF QueueInv

-----------------------------------------------------------------------------
(* The ring                                                                *)

(* The j-th position behind the head h.                                    *)
LEMMA Wraps ==
  ASSUME NEW h \in 0 .. Capacity - 1, NEW j \in 0 .. Capacity
  PROVE  (h + j) % Capacity = IF h + j < Capacity THEN h + j ELSE h + j - Capacity
<1>0. Capacity \in Nat \ {0} /\ h \in Int /\ j \in Int
  BY QueueAssumption
<1>1. CASE h + j < Capacity
  <2>1. h + j \in 0 .. Capacity - 1
    BY <1>0, <1>1
  <2> QED
    BY <1>1, <2>1, RingPosition
<1>2. CASE ~ (h + j < Capacity)
  <2>1. h + j - Capacity \in 0 .. Capacity - 1
    BY <1>0, <1>2
  <2>2. (h + j - Capacity + Capacity) % Capacity = h + j - Capacity
    BY <2>1, RingPosition
  <2>3. h + j - Capacity + Capacity = h + j
    BY <1>0
  <2> QED
    BY <1>2, <2>2, <2>3
<1> QED
  BY <1>1, <1>2

(* How far that position is behind the c bytes the ring holds.             *)
LEMMA Behind ==
  ASSUME NEW h \in 0 .. Capacity - 1, NEW c \in 0 .. Capacity, NEW j \in 0 .. Capacity - 1
  PROVE  (((h + j) % Capacity) - (h + c)) % Capacity =
           IF j < c THEN Capacity - c + j ELSE j - c
<1>0. Capacity \in Nat \ {0} /\ h \in Int /\ c \in Int /\ j \in Int
  BY QueueAssumption
<1> DEFINE i == (h + j) % Capacity
<1>1. i = h + j \/ i = h + j - Capacity
  BY <1>0, Wraps
<1> HIDE DEF i
<1>2. CASE j < c
  <2> DEFINE x == Capacity - c + j
  <2>1. x \in 0 .. Capacity - 1
    BY <1>0, <1>2
  <2>2. i - (h + c) = x - Capacity \/ i - (h + c) = x - 2 * Capacity
    BY <1>0, <1>1
  <2> HIDE DEF x
  <2>3. (i - (h + c)) % Capacity = x
    BY <2>1, <2>2, RingPosition
  <2> QED
    BY <1>2, <2>3 DEF i, x
<1>3. CASE ~ (j < c)
  <2> DEFINE x == j - c
  <2>1. x \in 0 .. Capacity - 1
    BY <1>0, <1>3
  <2>2. i - (h + c) = x \/ i - (h + c) = x - Capacity
    BY <1>0, <1>1
  <2> HIDE DEF x
  <2>3. (i - (h + c)) % Capacity = x
    BY <2>1, <2>2, RingPosition
  <2> QED
    BY <1>3, <2>3 DEF i, x
<1> QED
  BY <1>2, <1>3

(* The next numbers behind an orderly sequence.                            *)
LEMMA Appended ==
  ASSUME NEW a, InOrder(a), NEW n \in Nat,
         NEW b, b = [k \in 1 .. n |-> Len(a) + k]
  PROVE  InOrder(a \o b) /\ Len(a \o b) = Len(a) + n
<1>1. a \in Seq(Nat) /\ Len(a) \in Nat /\ \A i \in 1 .. Len(a) : a[i] = i
  BY DEF InOrder
<1>2. b \in Seq(Nat) /\ Len(b) = n /\ \A k \in 1 .. n : b[k] = Len(a) + k
  BY <1>1
<1>3. a \o b \in Seq(Nat) /\ Len(a \o b) = Len(a) + n
  BY <1>1, <1>2
<1>4. ASSUME NEW i \in 1 .. Len(a) + n PROVE (a \o b)[i] = i
  <2>1. CASE i <= Len(a)
    BY <1>1, <1>2, <1>4, <2>1
  <2>2. CASE i > Len(a)
    <3>1. i - Len(a) \in 1 .. n
      BY <1>1, <1>4, <2>2
    <3>2. (a \o b)[i] = b[i - Len(a)]
      BY <1>1, <1>2, <1>4, <2>2
    <3> QED
      BY <1>1, <1>2, <3>1, <3>2
  <2> QED
    BY <1>1, <1>4, <2>1, <2>2
<1> QED
  BY <1>3, <1>4 DEF InOrder

(* A byte of a chunk.                                                      *)
LEMMA ChunkAt ==
  ASSUME NEW chunk, NEW a \in Nat, NEW n \in Nat, NEW k \in Nat, k < n,
         \A j \in 1 .. n : chunk[j] = a + j
  PROVE  chunk[k + 1] = a + k + 1
<1>1. k + 1 \in 1 .. n
  OBVIOUS
<1>2. chunk[k + 1] = a + (k + 1)
  BY <1>1
<1> QED
  BY <1>2

(* A chunk goes in behind what the ring holds.                             *)
LEMMA StoredContent ==
  ASSUME QueueTypeOK, Content, NEW n \in Nat, n <= Capacity - count,
         NEW chunk, chunk = [k \in 1 .. n |-> Len(accepted) + k],
         buffer' = Stored(chunk), count' = count + n, accepted' = accepted \o chunk,
         UNCHANGED <<head, delivered>>
  PROVE  Content' /\ buffer' \in [0 .. Capacity - 1 -> Nat] /\ Len(accepted') = Len(accepted) + n
<1> DEFINE a == Len(accepted)
           d == Len(delivered)
           Offset(i) == (i - (head + count)) % Capacity
<1>1. /\ Capacity \in Nat \ {0} /\ head \in 0 .. Capacity - 1 /\ count \in 0 .. Capacity
      /\ InOrder(accepted) /\ InOrder(delivered) /\ a = d + count
      /\ a \in Nat /\ d \in Nat
  BY QueueAssumption DEF QueueTypeOK, Content, InOrder
<1>2. InOrder(accepted') /\ Len(accepted') = a + n
  BY <1>1, Appended
<1>3. ASSUME NEW i \in 0 .. Capacity - 1
      PROVE  /\ Offset(i) \in 0 .. Capacity - 1
             /\ buffer'[i] = IF Offset(i) < n THEN a + Offset(i) + 1 ELSE buffer[i]
  <2>1. i - (head + count) \in Int
    BY <1>1
  <2>2. Offset(i) \in 0 .. Capacity - 1
    BY <2>1, RingRange
  <2>3. Len(chunk) = n /\ \A k \in 1 .. n : chunk[k] = a + k
    OBVIOUS
  <2>4. buffer'[i] = IF Offset(i) < Len(chunk) THEN chunk[Offset(i) + 1] ELSE buffer[i]
    BY <1>3 DEF Stored
  <2> HIDE DEF Offset, a
  <2>5. Offset(i) < n => chunk[Offset(i) + 1] = a + Offset(i) + 1
    BY <1>1, <2>2, <2>3, ChunkAt
  <2> QED
    BY <2>2, <2>3, <2>4, <2>5
<1>4. buffer' \in [0 .. Capacity - 1 -> Nat]
  <2> HIDE DEF a, Offset
  <2>1. \A i \in 0 .. Capacity - 1 : buffer[i] \in Nat
    BY DEF QueueTypeOK
  <2>2. ASSUME NEW i \in 0 .. Capacity - 1 PROVE buffer'[i] \in Nat
    <3>1. buffer'[i] = IF Offset(i) < n THEN a + Offset(i) + 1 ELSE buffer[i]
      BY <1>3
    <3>2. Offset(i) \in 0 .. Capacity - 1
      BY <1>3
    <3>3. a + Offset(i) + 1 \in Nat
      BY <1>1, <3>2
    <3> QED
      BY <2>1, <3>1, <3>3
  <2>3. buffer' = [i \in 0 .. Capacity - 1 |-> buffer'[i]]
    BY DEF Stored
  <2> QED
    BY <2>2, <2>3
<1>5. ASSUME NEW j \in 0 .. count + n - 1
      PROVE  buffer'[(head + j) % Capacity] = d + j + 1
  <2> DEFINE i == (head + j) % Capacity
  <2>1. j \in 0 .. Capacity - 1 /\ head + j \in Int
    BY <1>1, <1>5
  <2>2. i \in 0 .. Capacity - 1
    BY <2>1, RingRange
  <2>3. Offset(i) = IF j < count THEN Capacity - count + j ELSE j - count
    BY <1>1, <2>1, Behind
  <2>4. j < count => buffer[i] = d + j + 1
    <3>1. j < count => j \in 0 .. count - 1
      BY <1>1, <1>5
    <3> QED
      BY <3>1 DEF Content
  <2> HIDE DEF i, a, d, Offset
  <2>5. buffer'[i] = IF Offset(i) < n THEN a + Offset(i) + 1 ELSE buffer[i]
    BY <1>3, <2>2
  <2>6. buffer'[i] = d + j + 1
    BY <1>1, <1>5, <2>1, <2>3, <2>4, <2>5
  <2> QED
    BY <2>6 DEF i
<1>6. Len(accepted') = Len(delivered') + count'
  BY <1>1, <1>2
<1>7. ASSUME NEW j \in 0 .. count' - 1
      PROVE  buffer'[(head' + j) % Capacity] = Len(delivered') + j + 1
  <2>1. head' = head /\ delivered' = delivered
    OBVIOUS
  <2>4. j \in 0 .. count + n - 1
    BY <1>1, <1>7
  <2>2. buffer'[(head + j) % Capacity] = Len(delivered) + j + 1
    BY <1>5, <2>4
  <2> QED
    BY <2>1, <2>2
<1>8. InOrder(accepted') /\ InOrder(delivered')
  BY <1>1, <1>2
<1>9. Content'
  BY <1>6, <1>7, <1>8 DEF Content, InOrder
<1> QED
  BY <1>2, <1>4, <1>9

(* Bytes come out from the head.                                           *)
LEMMA UnloadContent ==
  ASSUME QueueTypeOK, Content, NEW n \in Nat, n <= count, Unload(n)
  PROVE  /\ Content' /\ head' \in 0 .. Capacity - 1
         /\ Len(delivered') = Len(delivered) + n
<1> DEFINE chunk == [k \in 1 .. n |-> buffer[(head + (k - 1)) % Capacity]]
           d == Len(delivered)
<1>1. /\ Capacity \in Nat \ {0} /\ head \in 0 .. Capacity - 1 /\ count \in 0 .. Capacity
      /\ InOrder(accepted) /\ InOrder(delivered)
      /\ Len(accepted) = d + count /\ Len(accepted) \in Nat /\ d \in Nat
  BY QueueAssumption DEF QueueTypeOK, Content, InOrder
<1>2. /\ head' = (head + n) % Capacity /\ count' = count - n
      /\ buffer' = buffer /\ accepted' = accepted /\ delivered' = delivered \o chunk
  BY DEF Unload
<1>3. chunk = [k \in 1 .. n |-> d + k]
  <2>1. ASSUME NEW k \in 1 .. n
        PROVE  buffer[(head + (k - 1)) % Capacity] = d + k
    <3>1. k - 1 \in 0 .. count - 1
      BY <1>1, <2>1
    <3>2. buffer[(head + (k - 1)) % Capacity] = d + (k - 1) + 1
      BY <3>1 DEF Content
    <3> HIDE DEF d
    <3> QED
      BY <1>1, <2>1, <3>2
  <2> QED
    BY <2>1
<1> HIDE DEF chunk
<1>4. InOrder(delivered') /\ Len(delivered') = d + n
  BY <1>1, <1>2, <1>3, Appended
<1>5. head' \in 0 .. Capacity - 1
  <2>1. head + n \in Int
    BY <1>1
  <2> QED
    BY <1>2, <2>1, RingRange
<1> HIDE DEF d
<1>6. ASSUME NEW j \in 0 .. count - n - 1
      PROVE  buffer[(head' + j) % Capacity] = d + n + j + 1
  <2>1. n + j \in 0 .. count - 1 /\ n \in 0 .. Capacity /\ j \in 0 .. Capacity
        /\ n + j \in 0 .. Capacity
    BY <1>1, <1>6
  <2>2. buffer[(head + (n + j)) % Capacity] = d + (n + j) + 1
    BY <2>1 DEF Content, d
  <2>3. head' = IF head + n < Capacity THEN head + n ELSE head + n - Capacity
    BY <1>1, <1>2, <2>1, Wraps
  <2>4. (head' + j) % Capacity = IF head' + j < Capacity THEN head' + j ELSE head' + j - Capacity
    BY <1>5, <2>1, Wraps
  <2>5. (head + (n + j)) % Capacity =
          IF head + (n + j) < Capacity THEN head + (n + j) ELSE head + (n + j) - Capacity
    BY <1>1, <2>1, Wraps
  <2>6. (head' + j) % Capacity = (head + (n + j)) % Capacity
    BY <1>1, <1>6, <2>1, <2>3, <2>4, <2>5
  <2> QED
    BY <1>1, <1>6, <2>2, <2>6
<1>7. Len(accepted') = Len(delivered') + count'
  <2>1. Len(accepted) = d + count /\ d \in Nat /\ count \in Int
    BY <1>1
  <2>2. Len(delivered') = d + n /\ count' = count - n /\ accepted' = accepted
    BY <1>2, <1>4
  <2> QED
    BY <2>1, <2>2
<1>8. \A j \in 0 .. count' - 1 : buffer'[(head' + j) % Capacity] = Len(delivered') + j + 1
  BY <1>2, <1>4, <1>6
<1> QED
  BY <1>1, <1>2, <1>4, <1>5, <1>7, <1>8 DEF Content, d

-----------------------------------------------------------------------------
(* The steps of the monitor                                                *)

(* Where the threads are after a move.                                     *)
LEMMA Moved ==
  ASSUME QueueTypeOK, NEW t \in Roles, NEW step \in Steps, NEW woken,
         Move(t, step, woken)
  PROVE  /\ pc' \in [Roles -> Steps] /\ pc'[t] = step
         /\ \A s \in Roles : s # t =>
              \/ pc'[s] = pc[s] /\ (pc[s] = "wait" => s \notin woken)
              \/ pc[s] = "wait" /\ pc'[s] = "woken"
BY DEF QueueTypeOK, Move, Steps

(* The end of a call that has seen to the end flags.                       *)
LEMMA CallReturns ==
  ASSUME QueueInv, NEW t \in Roles, t = "owner" => pc[t] = "idle", storage = "live",
         NEW woken, Return(t, woken), cancelled => cancelled',
         pc'["producer"] \in InWait => ~ eof' /\ ~ failed'
  PROVE  /\ pc' \in [Roles -> Steps] /\ size' \in [Roles -> Nat]
         /\ patience' \in [Roles -> Patience] /\ activeWaiters' \in Nat
         /\ high' = high /\ low' = low /\ storage' = storage
         /\ pc'[t] = "idle"
         /\ \A s \in Roles : s # t =>
              \/ pc'[s] = pc[s] /\ (pc[s] = "wait" => s \notin woken)
              \/ pc[s] = "wait" /\ pc'[s] = "woken"
         /\ CallsWell' /\ WaitersWell'
         /\ pc'["owner"] = "wait" => activeWaiters' > 0
<1> USE DEF QueueInv
<1>1. /\ QueueTypeOK /\ Move(t, "idle", woken \union Drained(t))
      /\ activeWaiters' = WaitersLeft(t) /\ high' = high /\ low' = low /\ storage' = storage
      /\ size' = [size EXCEPT ![t] = 0] /\ patience' = [patience EXCEPT ![t] = "forever"]
  BY DEF Return
<1>2. /\ pc' \in [Roles -> Steps] /\ pc'[t] = "idle"
      /\ \A s \in Roles : s # t =>
           \/ pc'[s] = pc[s] /\ (pc[s] = "wait" => s \notin woken \union Drained(t))
           \/ pc[s] = "wait" /\ pc'[s] = "woken"
  BY <1>1, Moved DEF Steps
<1>3. size' \in [Roles -> Nat] /\ patience' \in [Roles -> Patience]
  BY <1>1 DEF QueueTypeOK, Patience
<1>4. \A s \in {"producer", "consumer"} :
        /\ s # t => Waits(s)' = Waits(s)
        /\ s = t => Waits(s)' = 0
  BY <1>2 DEF Waits, InWait, Roles
<1>5. /\ activeWaiters' = Waits("producer")' + Waits("consumer")'
      /\ activeWaiters' \in Nat
      /\ pc[t] \notin InWait => activeWaiters' = activeWaiters
      /\ pc[t] \in InWait => activeWaiters > 0
  BY <1>1, <1>4 DEF WaitersLeft, WaitersWell, Waits, QueueTypeOK, Roles, InWait
<1>6. pc'["owner"] = "wait" => activeWaiters' > 0
  <2> SUFFICES ASSUME pc'["owner"] = "wait" PROVE activeWaiters' > 0
    OBVIOUS
  <2>1. "owner" # t /\ pc["owner"] = "wait" /\ "owner" \notin Drained(t)
    BY <1>2 DEF Roles
  <2>2. CASE pc[t] \in InWait
    BY <2>1, <2>2, <1>1, <1>5 DEF Drained
  <2>3. CASE pc[t] \notin InWait
    BY <2>1, <2>3, <1>5 DEF SleepersHaveCause
  <2> QED
    BY <2>2, <2>3
<1>7. CallsWell'
  <2>1. pc'["owner"] \in {"idle", "wait", "woken", "destroy"}
    BY <1>2 DEF CallsWell, Roles
  <2>2. \A s \in {"producer", "consumer"} :
          pc'[s] # "destroy" /\ (pc'[s] # "idle" => size'[s] >= 1)
    BY <1>1, <1>2 DEF CallsWell, Roles, QueueTypeOK
  <2>3. pc'["owner"] # "idle" => cancelled' /\ storage' = "live"
    BY <1>1, <1>2 DEF CallsWell, Roles
  <2> QED
    BY <2>1, <2>2, <2>3 DEF CallsWell
<1>8. WaitersWell'
  <2>1. pc'["owner"] = "destroy" => activeWaiters' = 0
    BY <1>2, <1>5 DEF WaitersWell, Roles
  <2> QED
    BY <1>1, <1>5, <2>1 DEF WaitersWell
<1> QED
  BY <1>1, <1>2, <1>3, <1>5, <1>6, <1>7, <1>8

(* A call that changes nothing returns.                                    *)
LEMMA QuietReturn ==
  ASSUME QueueInv, NEW t \in {"producer", "consumer"}, storage = "live",
         Return(t, {}), UNCHANGED <<ring, flags, accepted, delivered>>
  PROVE  QueueInv'
<1> USE DEF QueueInv
<1>1. /\ buffer' = buffer /\ head' = head /\ count' = count
      /\ eof' = eof /\ failed' = failed /\ cancelled' = cancelled
      /\ accepted' = accepted /\ delivered' = delivered
  BY DEF ring, flags
<1>2. pc'["producer"] \in InWait => pc["producer"] \in InWait
  BY Moved DEF Return, Roles, InWait, Steps
<1>3. pc'["producer"] \in InWait => ~ eof' /\ ~ failed'
  BY <1>1, <1>2 DEF CallsWell
<1>4. t \in Roles /\ (t = "owner" => pc[t] = "idle") /\ (cancelled => cancelled')
  BY <1>1 DEF Roles
<1>5. /\ pc' \in [Roles -> Steps] /\ size' \in [Roles -> Nat]
      /\ patience' \in [Roles -> Patience] /\ activeWaiters' \in Nat
      /\ high' = high /\ low' = low /\ storage' = storage
      /\ pc'[t] = "idle"
      /\ \A s \in Roles : s # t =>
           \/ pc'[s] = pc[s]
           \/ pc[s] = "wait" /\ pc'[s] = "woken"
      /\ CallsWell' /\ WaitersWell'
      /\ pc'["owner"] = "wait" => activeWaiters' > 0
  BY <1>3, <1>4, CallReturns
<1>6. QueueTypeOK'
  BY <1>1, <1>5 DEF QueueTypeOK
<1>7. Content'
  BY <1>1 DEF Content, InOrder
<1>8. SleepersHaveCause'
  BY <1>1, <1>5 DEF SleepersHaveCause, Roles, Nothing
<1> QED
  BY <1>5, <1>6, <1>7, <1>8

(* A call goes to sleep.                                                   *)
LEMMA SleepKeeps ==
  ASSUME QueueInv, NEW t \in {"producer", "consumer"}, HasLock(t), ~ cancelled, Sleep(t),
         t = "producer" => ~ eof /\ ~ failed /\ (count > low \/ count = high),
         t = "consumer" => Nothing
  PROVE  QueueInv'
<1> USE DEF QueueInv
<1>1. /\ buffer' = buffer /\ head' = head /\ count' = count
      /\ eof' = eof /\ failed' = failed /\ cancelled' = cancelled
      /\ accepted' = accepted /\ delivered' = delivered /\ high' = high /\ low' = low
      /\ storage' = storage /\ size' = size /\ patience' = patience
  BY DEF Sleep, ring, flags, history
<1>2. /\ pc' \in [Roles -> Steps] /\ pc'[t] = "wait"
      /\ \A s \in Roles : s # t =>
           \/ pc'[s] = pc[s]
           \/ pc[s] = "wait" /\ pc'[s] = "woken"
  BY Moved DEF Sleep, Steps, Roles
<1>3. pc["owner"] = "idle" /\ pc'["owner"] = "idle"
  BY <1>2 DEF CallsWell, Roles
<1>4. \A s \in {"producer", "consumer"} :
        /\ s # t => Waits(s)' = Waits(s)
        /\ s = t => Waits(s)' = 1
  BY <1>2 DEF Waits, InWait, Roles
<1>5. activeWaiters' = Waits("producer")' + Waits("consumer")' /\ activeWaiters' \in Nat
  BY <1>4 DEF Sleep, WaitersLeft, WaitersWell, Waits, QueueTypeOK, InWait
<1>6. QueueTypeOK'
  BY <1>1, <1>2, <1>5 DEF QueueTypeOK
<1>7. Content'
  BY <1>1 DEF Content, InOrder
<1>8. CallsWell'
  <2>1. pc'["producer"] \in InWait => ~ eof' /\ ~ failed'
    BY <1>1, <1>2 DEF CallsWell, Roles, InWait
  <2>2. \A s \in {"producer", "consumer"} :
          pc'[s] # "destroy" /\ (pc'[s] # "idle" => size'[s] >= 1)
    BY <1>1, <1>2 DEF CallsWell, Roles, HasLock
  <2> QED
    BY <1>3, <2>1, <2>2 DEF CallsWell
<1>9. WaitersWell'
  BY <1>1, <1>3, <1>5 DEF WaitersWell, HasLock
<1>10. SleepersHaveCause'
  BY <1>1, <1>2, <1>3 DEF SleepersHaveCause, Roles, Nothing
<1> QED
  BY <1>6, <1>7, <1>8, <1>9, <1>10

(* A write puts something in and wakes the consumer.                       *)
LEMMA WriteCopiesKeeps ==
  ASSUME QueueInv, WriteCopies
  PROVE  /\ QueueInv'
         /\ \E n \in Nat \ {0} :
              /\ n <= size["producer"]
              /\ Len(accepted') = Len(accepted) + n /\ count' = count + n
<1> USE DEF QueueInv
<1> DEFINE n == Min({size["producer"], Capacity - count})
           chunk == [k \in 1 .. n |-> Len(accepted) + k]
<1>1. /\ Proceeds("producer") /\ count < high /\ buffer' = Stored(chunk)
      /\ count' = count + n /\ accepted' = accepted \o chunk
      /\ Return("producer", {"consumer"})
      /\ head' = head /\ delivered' = delivered
      /\ eof' = eof /\ failed' = failed /\ cancelled' = cancelled
  BY DEF WriteCopies, MayWrite, flags
<1>2. /\ size["producer"] \in Nat /\ size["producer"] >= 1
      /\ count \in Nat /\ Capacity \in Nat /\ Capacity - count \in Nat /\ Capacity - count >= 1
  BY <1>1, QueueAssumption DEF QueueTypeOK, CallsWell, Proceeds, HasLock, Roles
<1>3. n \in Nat \ {0} /\ n <= Capacity - count /\ n <= size["producer"]
  <2> DEFINE room == Capacity - count
  <2>0. size["producer"] \in Int /\ room \in Int
    BY <1>2
  <2> HIDE DEF room
  <2>2. \A a, b \in Int : Min({a, b}) \in {a, b} /\ Min({a, b}) <= a /\ Min({a, b}) <= b
    BY MinOfTwo
  <2>3. /\ Min({size["producer"], room}) \in {size["producer"], room}
        /\ Min({size["producer"], room}) <= room
        /\ Min({size["producer"], room}) <= size["producer"]
    BY <2>0, <2>2
  <2>1. /\ n = size["producer"] \/ n = Capacity - count
        /\ n <= Capacity - count /\ n <= size["producer"]
    BY <2>3 DEF room
  <2> HIDE DEF n
  <2> QED
    BY <1>2, <2>1
<1> HIDE DEF n
<1>4. /\ Content' /\ buffer' \in [0 .. Capacity - 1 -> Nat]
      /\ Len(accepted') = Len(accepted) + n
  BY <1>1, <1>3, StoredContent
<1>5. pc'["producer"] \notin InWait
  BY <1>1, Moved DEF Return, Roles, Steps, InWait
<1>6. storage = "live" /\ "producer" \in Roles /\ (cancelled => cancelled')
  BY <1>1 DEF Proceeds, HasLock, Roles
<1>7. /\ pc' \in [Roles -> Steps] /\ size' \in [Roles -> Nat]
      /\ patience' \in [Roles -> Patience] /\ activeWaiters' \in Nat
      /\ high' = high /\ low' = low /\ storage' = storage
      /\ pc'["producer"] = "idle"
      /\ \A s \in Roles : s # "producer" =>
           \/ pc'[s] = pc[s] /\ (pc[s] = "wait" => s \notin {"consumer"})
           \/ pc[s] = "wait" /\ pc'[s] = "woken"
      /\ CallsWell' /\ WaitersWell'
      /\ pc'["owner"] = "wait" => activeWaiters' > 0
  BY <1>1, <1>5, <1>6, CallReturns
<1>8. count' \in 0 .. Capacity
  BY <1>1, <1>2, <1>3
<1>9. QueueTypeOK'
  BY <1>1, <1>4, <1>7, <1>8 DEF QueueTypeOK
<1>10. SleepersHaveCause'
  BY <1>7 DEF SleepersHaveCause, Roles
<1> QED
  BY <1>1, <1>3, <1>4, <1>7, <1>9, <1>10

(* A read takes something out and lets the producer go at the watermark.   *)
LEMMA ReadCopiesKeeps ==
  ASSUME QueueInv, ReadCopies
  PROVE  /\ QueueInv'
         /\ \E n \in Nat \ {0} : Len(delivered') = Len(delivered) + n /\ count' = count - n
<1> USE DEF QueueInv
<1> DEFINE n == Min({size["consumer"], count})
           woken == IF count - n <= low THEN {"producer"} ELSE {}
<1>1. /\ Proceeds("consumer") /\ count > 0 /\ Unload(n) /\ Return("consumer", woken)
  BY DEF ReadCopies
<1>2. /\ size["consumer"] \in Nat /\ size["consumer"] >= 1 /\ count \in Nat /\ count >= 1
      /\ low \in Nat /\ high \in Nat /\ low <= high
  BY <1>1, QueueAssumption DEF QueueTypeOK, CallsWell, Proceeds, HasLock, Roles
<1>3. n \in Nat \ {0} /\ n <= count
  <2>1. (n = size["consumer"] \/ n = count) /\ n <= count
    BY <1>2, MinOfTwo
  <2> HIDE DEF n
  <2> QED
    BY <1>2, <2>1
<1> HIDE DEF n
<1>4. /\ Content' /\ head' \in 0 .. Capacity - 1
      /\ Len(delivered') = Len(delivered) + n
  BY <1>1, <1>3, UnloadContent
<1>5. /\ buffer' = buffer /\ eof' = eof /\ failed' = failed /\ cancelled' = cancelled
      /\ count' = count - n
  BY <1>1 DEF Unload, flags
<1>6. storage = "live" /\ "consumer" \in Roles /\ (cancelled => cancelled')
  BY <1>1, <1>5 DEF Proceeds, HasLock, Roles
<1>7. pc'["producer"] \in InWait => ~ eof' /\ ~ failed'
  <2>1. pc'["producer"] \in InWait => pc["producer"] \in InWait
    BY <1>1, Moved DEF Return, Roles, InWait, Steps
  <2> QED
    BY <1>5, <2>1 DEF CallsWell
<1> HIDE DEF woken
<1>8. /\ pc' \in [Roles -> Steps] /\ size' \in [Roles -> Nat]
      /\ patience' \in [Roles -> Patience] /\ activeWaiters' \in Nat
      /\ high' = high /\ low' = low /\ storage' = storage
      /\ pc'["consumer"] = "idle"
      /\ \A s \in Roles : s # "consumer" =>
           \/ pc'[s] = pc[s] /\ (pc[s] = "wait" => s \notin woken)
           \/ pc[s] = "wait" /\ pc'[s] = "woken"
      /\ CallsWell' /\ WaitersWell'
      /\ pc'["owner"] = "wait" => activeWaiters' > 0
  BY <1>1, <1>6, <1>7, CallReturns
<1>9. count' \in 0 .. Capacity
  BY <1>2, <1>3, <1>5, QueueAssumption DEF QueueTypeOK
<1>10. QueueTypeOK'
  BY <1>4, <1>5, <1>8, <1>9 DEF QueueTypeOK
<1>11. pc'["producer"] = "wait" => count' > low' /\ ~ cancelled'
  <2> SUFFICES ASSUME pc'["producer"] = "wait" PROVE count' > low' /\ ~ cancelled'
    OBVIOUS
  <2>1. pc["producer"] = "wait" /\ "producer" \notin woken
    BY <1>8 DEF Roles
  <2>2. ~ (count - n <= low)
    BY <2>1 DEF woken
  <2> QED
    BY <1>2, <1>3, <1>5, <1>8, <1>1, <2>2 DEF Proceeds
<1>12. SleepersHaveCause'
  BY <1>8, <1>11 DEF SleepersHaveCause
<1> QED
  BY <1>3, <1>4, <1>5, <1>8, <1>10, <1>12

(* An end is recorded or the queue is cancelled: whoever sleeps on what    *)
(* has changed is woken.                                                   *)
LEMMA EndKeeps ==
  ASSUME QueueInv, NEW t \in Roles, pc[t] = "idle", storage = "live",
         NEW woken, Return(t, woken), UNCHANGED <<ring, accepted, delivered>>,
         eof' \in BOOLEAN, failed' \in BOOLEAN, cancelled' \in BOOLEAN,
         cancelled => cancelled',
         ~ UNCHANGED <<eof, failed>> => t = "producer" /\ "consumer" \in woken,
         ~ UNCHANGED cancelled => {"producer", "consumer"} \subseteq woken
  PROVE  QueueInv'
<1> USE DEF QueueInv
<1>1. /\ buffer' = buffer /\ head' = head /\ count' = count
      /\ accepted' = accepted /\ delivered' = delivered
  BY DEF ring
<1>2. pc'["producer"] \in InWait => ~ eof' /\ ~ failed'
  <2>1. pc'["producer"] \in InWait => pc["producer"] \in InWait /\ t # "producer"
    BY Moved DEF Return, Roles, InWait, Steps
  <2> QED
    BY <2>1 DEF CallsWell
<1>3. /\ pc' \in [Roles -> Steps] /\ size' \in [Roles -> Nat]
      /\ patience' \in [Roles -> Patience] /\ activeWaiters' \in Nat
      /\ high' = high /\ low' = low /\ storage' = storage
      /\ pc'[t] = "idle"
      /\ \A s \in Roles : s # t =>
           \/ pc'[s] = pc[s] /\ (pc[s] = "wait" => s \notin woken)
           \/ pc[s] = "wait" /\ pc'[s] = "woken"
      /\ CallsWell' /\ WaitersWell'
      /\ pc'["owner"] = "wait" => activeWaiters' > 0
  BY <1>2, CallReturns
<1>4. QueueTypeOK'
  BY <1>1, <1>3 DEF QueueTypeOK
<1>5. Content'
  BY <1>1 DEF Content, InOrder
<1>6. pc'["consumer"] = "wait" => Nothing' /\ ~ cancelled'
  <2> SUFFICES ASSUME pc'["consumer"] = "wait" PROVE Nothing' /\ ~ cancelled'
    OBVIOUS
  <2>1. pc["consumer"] = "wait" /\ "consumer" \notin woken
    BY <1>3 DEF Roles
  <2>2. eof' = eof /\ failed' = failed /\ cancelled' = cancelled
    BY <2>1
  <2> QED
    BY <1>1, <2>1, <2>2 DEF SleepersHaveCause, Nothing
<1>7. pc'["producer"] = "wait" => (count' > low' \/ count' = high') /\ ~ cancelled'
  <2> SUFFICES ASSUME pc'["producer"] = "wait"
               PROVE  (count' > low' \/ count' = high') /\ ~ cancelled'
    OBVIOUS
  <2>1. pc["producer"] = "wait" /\ "producer" \notin woken
    BY <1>3 DEF Roles
  <2>2. cancelled' = cancelled
    BY <2>1
  <2> QED
    BY <1>1, <1>3, <2>1, <2>2 DEF SleepersHaveCause
<1> QED
  BY <1>3, <1>4, <1>5, <1>6, <1>7 DEF SleepersHaveCause

(* A thread goes from one step to another and nothing else of the queue    *)
(* changes, but for a call's arguments.                                    *)
LEMMA CallKeeps ==
  ASSUME QueueInv, NEW t \in {"producer", "consumer"}, NEW n \in Nat \ {0},
         NEW p \in Patience, Call(t, n, p)
  PROVE  QueueInv'
<1> USE DEF QueueInv
<1>1. /\ buffer' = buffer /\ head' = head /\ count' = count
      /\ eof' = eof /\ failed' = failed /\ cancelled' = cancelled
      /\ accepted' = accepted /\ delivered' = delivered /\ high' = high /\ low' = low
      /\ storage' = storage /\ activeWaiters' = activeWaiters
      /\ pc[t] = "idle" /\ storage = "live" /\ pc' = [pc EXCEPT ![t] = "enter"]
      /\ size' = [size EXCEPT ![t] = n] /\ patience' = [patience EXCEPT ![t] = p]
  BY DEF Call, ring, flags, history
<1>2. QueueTypeOK'
  <2>1. pc' \in [Roles -> Steps] /\ size' \in [Roles -> Nat] /\ patience' \in [Roles -> Patience]
    BY <1>1 DEF QueueTypeOK, Steps
  <2> QED
    BY <1>1, <2>1 DEF QueueTypeOK
<1>3. Content'
  BY <1>1 DEF Content, InOrder
<1>4. \A s \in Roles : pc'[s] = IF s = t THEN "enter" ELSE pc[s]
  BY <1>1 DEF QueueTypeOK
<1>5. CallsWell'
  <2>1. \A s \in {"producer", "consumer"} :
          pc'[s] # "destroy" /\ (pc'[s] # "idle" => size'[s] >= 1)
    BY <1>1, <1>4 DEF CallsWell, Roles, QueueTypeOK
  <2>2. pc'["owner"] = pc["owner"]
    BY <1>4 DEF Roles
  <2>3. pc'["producer"] \in InWait => pc["producer"] \in InWait
    BY <1>4 DEF Roles, InWait
  <2> QED
    BY <1>1, <2>1, <2>2, <2>3 DEF CallsWell
<1>6. WaitersWell'
  BY <1>1, <1>4 DEF WaitersWell, Waits, InWait, Roles
<1>7. SleepersHaveCause'
  BY <1>1, <1>4 DEF SleepersHaveCause, Roles, Nothing
<1> QED
  BY <1>2, <1>3, <1>5, <1>6, <1>7

(* A wait ends without a signal.                                           *)
LEMMA WakeKeeps ==
  ASSUME QueueInv, NEW t \in Roles, SpuriousReturn(t) \/ DeadlinePasses(t)
  PROVE  QueueInv'
<1> USE DEF QueueInv
<1>1. /\ buffer' = buffer /\ head' = head /\ count' = count
      /\ eof' = eof /\ failed' = failed /\ cancelled' = cancelled
      /\ accepted' = accepted /\ delivered' = delivered /\ high' = high /\ low' = low
      /\ storage' = storage /\ activeWaiters' = activeWaiters
      /\ size' = size /\ patience' = patience
  BY DEF SpuriousReturn, DeadlinePasses, ring, flags, history
<1>2. PICK step \in {"woken", "late"} :
        pc[t] = "wait" /\ pc' = [pc EXCEPT ![t] = step] /\ (t = "owner" => step = "woken")
  BY DEF SpuriousReturn, DeadlinePasses
<1>3. \A s \in Roles : pc'[s] = IF s = t THEN step ELSE pc[s]
  BY <1>2 DEF QueueTypeOK
<1>4. QueueTypeOK'
  BY <1>1, <1>2 DEF QueueTypeOK, Steps
<1>5. Content'
  BY <1>1 DEF Content, InOrder
<1>6. CallsWell'
  BY <1>1, <1>2, <1>3 DEF CallsWell, Roles, InWait
<1>7. WaitersWell'
  BY <1>1, <1>2, <1>3 DEF WaitersWell, Waits, InWait, Roles
<1>8. SleepersHaveCause'
  BY <1>1, <1>2, <1>3 DEF SleepersHaveCause, Roles, Nothing
<1> QED
  BY <1>4, <1>5, <1>6, <1>7, <1>8

(* Release cancels, waits and frees.                                       *)
LEMMA ReleaseKeeps ==
  ASSUME QueueInv, Release \/ OwnerRuns
  PROVE  QueueInv'
<1> USE DEF QueueInv
<1>1. /\ buffer' = buffer /\ head' = head /\ count' = count
      /\ eof' = eof /\ failed' = failed
      /\ accepted' = accepted /\ delivered' = delivered /\ high' = high /\ low' = low
      /\ activeWaiters' = activeWaiters /\ size' = size /\ patience' = patience
  BY DEF Release, OwnerRuns, ReleaseRechecks, ReleaseFrees, ring, flags, history
<1>2. Content'
  BY <1>1 DEF Content, InOrder
<1>3. AwaitDrained \in Steps /\ "idle" \in Steps /\ "owner" \in Roles
  BY DEF AwaitDrained, Steps, Roles
<1>4. CASE Release
  <2>1. /\ cancelled' = TRUE /\ storage = "live" /\ storage' = "live"
        /\ Move("owner", AwaitDrained, {"producer", "consumer"})
    BY <1>4 DEF Release
  <2>2. /\ pc' \in [Roles -> Steps] /\ pc'["owner"] = AwaitDrained
        /\ \A s \in Roles : s # "owner" =>
             \/ pc'[s] = pc[s] /\ (pc[s] = "wait" => s \notin {"producer", "consumer"})
             \/ pc[s] = "wait" /\ pc'[s] = "woken"
    BY <1>3, <2>1, Moved
  <2>3. QueueTypeOK'
    BY <1>1, <2>1, <2>2 DEF QueueTypeOK
  <2>4. CallsWell'
    BY <1>1, <2>1, <2>2 DEF CallsWell, Roles, InWait, AwaitDrained
  <2>5. WaitersWell'
    BY <1>1, <2>1, <2>2 DEF WaitersWell, Waits, InWait, Roles, AwaitDrained,
       QueueTypeOK
  <2>6. SleepersHaveCause'
    BY <1>1, <2>2 DEF SleepersHaveCause, Roles, AwaitDrained
  <2> QED
    BY <1>2, <2>3, <2>4, <2>5, <2>6
<1>5. CASE ReleaseRechecks
  <2>1. /\ cancelled' = cancelled /\ storage' = storage /\ pc["owner"] = "woken"
        /\ Move("owner", AwaitDrained, {})
    BY <1>5 DEF ReleaseRechecks, flags
  <2>2. /\ pc' \in [Roles -> Steps] /\ pc'["owner"] = AwaitDrained
        /\ \A s \in Roles : s # "owner" =>
             \/ pc'[s] = pc[s]
             \/ pc[s] = "wait" /\ pc'[s] = "woken"
    BY <1>3, <2>1, Moved
  <2>3. QueueTypeOK'
    BY <1>1, <2>1, <2>2 DEF QueueTypeOK
  <2>4. CallsWell'
    BY <1>1, <2>1, <2>2 DEF CallsWell, Roles, InWait, AwaitDrained
  <2>5. WaitersWell'
    BY <1>1, <2>1, <2>2 DEF WaitersWell, Waits, InWait, Roles, AwaitDrained,
       QueueTypeOK
  <2>6. SleepersHaveCause'
    BY <1>1, <2>1, <2>2 DEF SleepersHaveCause, Roles, AwaitDrained, Nothing
  <2> QED
    BY <1>2, <2>3, <2>4, <2>5, <2>6
<1>6. CASE ReleaseFrees
  <2>1. /\ cancelled' = cancelled /\ storage' = "freed" /\ pc["owner"] = "destroy"
        /\ Move("owner", "idle", {})
    BY <1>6 DEF ReleaseFrees, flags
  <2>2. /\ pc' \in [Roles -> Steps] /\ pc'["owner"] = "idle"
        /\ \A s \in Roles : s # "owner" =>
             \/ pc'[s] = pc[s]
             \/ pc[s] = "wait" /\ pc'[s] = "woken"
    BY <1>3, <2>1, Moved
  <2>3. QueueTypeOK'
    BY <1>1, <2>1, <2>2 DEF QueueTypeOK
  <2>4. CallsWell'
    BY <1>1, <2>1, <2>2 DEF CallsWell, Roles, InWait
  <2>5. WaitersWell'
    BY <1>1, <2>1, <2>2 DEF WaitersWell, Waits, InWait, Roles, QueueTypeOK,
       CallsWell
  <2>6. SleepersHaveCause'
    BY <1>1, <2>1, <2>2 DEF SleepersHaveCause, Roles, Nothing
  <2> QED
    BY <1>2, <2>3, <2>4, <2>5, <2>6
<1> QED
  BY <1>4, <1>5, <1>6 DEF OwnerRuns

(* Every step keeps the invariant.                                         *)
LEMMA QueueStepInv == QueueInv /\ [QueueNext]_vars => QueueInv'
<1> SUFFICES ASSUME QueueInv, [QueueNext]_vars PROVE QueueInv'
  OBVIOUS
<1>1. CASE \E t \in {"producer", "consumer"}, n \in Nat \ {0}, p \in Patience : Call(t, n, p)
  BY <1>1, CallKeeps
<1>2. CASE WriteEof
  <2>1. /\ pc["producer"] = "idle" /\ storage = "live" /\ "producer" \in Roles
        /\ eof \in BOOLEAN /\ failed \in BOOLEAN /\ cancelled \in BOOLEAN
        /\ failed' = failed /\ cancelled' = cancelled
        /\ UNCHANGED <<ring, accepted, delivered>>
    BY <1>2 DEF WriteEof, QueueInv, QueueTypeOK, history, Roles
  <2> DEFINE refused == cancelled \/ failed
             woken == IF refused THEN {} ELSE {"consumer"}
  <2>2. Return("producer", woken) /\ eof' = (eof \/ ~ refused)
    BY <1>2 DEF WriteEof
  <2>3. eof' \in BOOLEAN /\ (eof' # eof => "consumer" \in woken)
    BY <2>1, <2>2
  <2> HIDE DEF woken
  <2> QED
    BY <2>1, <2>2, <2>3, EndKeeps
<1>3. CASE WriteError
  <2>1. /\ pc["producer"] = "idle" /\ storage = "live" /\ "producer" \in Roles
        /\ eof \in BOOLEAN /\ failed \in BOOLEAN /\ cancelled \in BOOLEAN
        /\ eof' = eof /\ cancelled' = cancelled
        /\ UNCHANGED <<ring, accepted, delivered>>
    BY <1>3 DEF WriteError, QueueInv, QueueTypeOK, history, Roles
  <2> DEFINE woken == IF cancelled THEN {} ELSE {"consumer"}
  <2>2. Return("producer", woken) /\ failed' = (failed \/ (~ cancelled /\ ~ eof))
    BY <1>3 DEF WriteError
  <2>3. failed' \in BOOLEAN /\ (failed' # failed => "consumer" \in woken)
    BY <2>1, <2>2
  <2> HIDE DEF woken
  <2> QED
    BY <2>1, <2>2, <2>3, EndKeeps
<1>4. ASSUME NEW t \in {"owner", "consumer"}, Cancel(t) PROVE QueueInv'
  <2>1. /\ pc[t] = "idle" /\ storage = "live" /\ t \in Roles
        /\ eof' = eof /\ failed' = failed /\ cancelled' = TRUE
        /\ eof \in BOOLEAN /\ failed \in BOOLEAN
        /\ UNCHANGED <<ring, accepted, delivered>>
        /\ Return(t, {"producer", "consumer"})
    BY <1>4 DEF Cancel, QueueInv, QueueTypeOK, history, Roles
  <2> QED
    BY <2>1, EndKeeps
<1>5. CASE Release \/ OwnerRuns
  BY <1>5, ReleaseKeeps
<1>6. ASSUME NEW t \in {"producer", "consumer"}, Refused(t) PROVE QueueInv'
  <2>1. storage = "live" /\ Return(t, {}) /\ UNCHANGED <<ring, flags, accepted, delivered>>
    BY <1>6 DEF Refused, HasLock, history
  <2> QED
    BY <2>1, QuietReturn
<1>7. CASE WriteAfterEnd
  <2>1. /\ storage = "live" /\ Return("producer", {})
        /\ UNCHANGED <<ring, flags, accepted, delivered>>
    BY <1>7 DEF WriteAfterEnd, Proceeds, HasLock, history
  <2> QED
    BY <2>1, QuietReturn
<1>8. CASE ReadEnds
  <2>1. /\ storage = "live" /\ Return("consumer", {})
        /\ UNCHANGED <<ring, flags, accepted, delivered>>
    BY <1>8 DEF ReadEnds, Proceeds, HasLock
  <2> QED
    BY <2>1, QuietReturn
<1>9. CASE WriteBlocks
  <2>1. /\ HasLock("producer") /\ ~ cancelled /\ count >= high /\ Block("producer")
        /\ pc["producer"] \in {"enter", "woken"}
        /\ ~ (pc["producer"] = "enter" /\ (eof \/ failed))
    BY <1>9 DEF WriteBlocks, MayWrite, Proceeds, HasLock
  <2>2. CASE Sleep("producer")
    <3>1. ~ eof /\ ~ failed
      BY <2>1 DEF QueueInv, CallsWell, InWait
    <3>2. count > low \/ count = high
      BY <2>1, QueueAssumption DEF QueueInv, QueueTypeOK
    <3> QED
      BY <2>1, <2>2, <3>1, <3>2, SleepKeeps
  <2>3. CASE Return("producer", {}) /\ UNCHANGED <<ring, flags, history>>
    <3>1. storage = "live" /\ UNCHANGED <<ring, flags, accepted, delivered>>
      BY <2>1, <2>3 DEF HasLock, history
    <3> QED
      BY <2>3, <3>1, QuietReturn
  <2> QED
    BY <2>1, <2>2, <2>3 DEF Block
<1>10. CASE ReadBlocks
  <2>1. HasLock("consumer") /\ ~ cancelled /\ Nothing /\ Block("consumer")
    BY <1>10 DEF ReadBlocks, Proceeds
  <2>2. CASE Sleep("consumer")
    BY <2>1, <2>2, SleepKeeps
  <2>3. CASE Return("consumer", {}) /\ UNCHANGED <<ring, flags, history>>
    <3>1. storage = "live" /\ UNCHANGED <<ring, flags, accepted, delivered>>
      BY <2>1, <2>3 DEF HasLock, history
    <3> QED
      BY <2>3, <3>1, QuietReturn
  <2> QED
    BY <2>1, <2>2, <2>3 DEF Block
<1>11. CASE WriteCopies
  BY <1>11, WriteCopiesKeeps
<1>12. CASE ReadCopies
  BY <1>12, ReadCopiesKeeps
<1>13. CASE \E t \in Roles : SpuriousReturn(t) \/ DeadlinePasses(t)
  BY <1>13, WakeKeeps
<1>14. CASE UNCHANGED vars
  BY <1>14 DEF vars, ring, flags, history, QueueInv, QueueTypeOK, Content,
     InOrder, CallsWell,
               WaitersWell, Waits, SleepersHaveCause, Nothing
<1> QED
  BY <1>1, <1>2, <1>3, <1>4, <1>5, <1>6, <1>7, <1>8, <1>9, <1>10, <1>11, <1>12,
     <1>13, <1>14 DEF QueueNext, ProducerRuns, ConsumerRuns

-----------------------------------------------------------------------------
(* What the queue promises                                                 *)

(* The queue under any caller of the kinds that this invariant covers.     *)
QueueRuns == Init /\ [][QueueNext]_vars

LEMMA AnyRunsAreQueueRuns == Spec => QueueRuns /\ []QueueInv
<1>1. Init => QueueInv
  BY QueueInitInv
<1>2. QueueInv /\ [Next]_vars => [QueueNext]_vars
  <2> SUFFICES ASSUME QueueInv, Next PROVE QueueNext
    OBVIOUS
  <2>1. Len(accepted) \in Nat /\ MaxBytes \in Nat /\ Capacity \in Nat
    BY QueueAssumption DEF QueueInv, Content, InOrder
  <2>2. \A m \in Int : 1 .. m \subseteq Nat \ {0}
    OBVIOUS
  <2>3. CASE \E p \in Patience : \E n \in 1 .. MaxBytes - Len(accepted) : Call("producer", n, p)
    BY <2>1, <2>2, <2>3 DEF QueueNext
  <2>4. CASE \E p \in Patience : \E n \in 1 .. Capacity : Call("consumer", n, p)
    BY <2>1, <2>2, <2>4 DEF QueueNext
  <2> QED
    BY <2>3, <2>4 DEF Next, Calls, QueueNext
<1>3. QueueInv /\ [QueueNext]_vars => QueueInv'
  BY QueueStepInv
<1> QED
  BY <1>1, <1>2, <1>3, PTL DEF Spec, QueueRuns

(* Two orderly sequences are prefixes of one another.                      *)
LEMMA OrderlyPrefix ==
  ASSUME NEW s, NEW t, InOrder(s), InOrder(t), Len(s) <= Len(t)
  PROVE  /\ Stream!IsPrefix(s, t)
         /\ Len(s) < Len(t) => Stream!IsStrictPrefix(s, t)
         /\ Len(s) = Len(t) => s = t
<1>1. /\ s \in Seq(Nat) /\ t \in Seq(Nat) /\ Len(s) \in Nat /\ Len(t) \in Nat
      /\ \A i \in 1 .. Len(s) : s[i] = i /\ t[i] = i
  BY DEF InOrder
<1>2. SubSeq(s, 1, Len(s)) = SubSeq(t, 1, Len(s))
  BY <1>1
<1>3. Len(s) = Len(t) => s = t
  BY <1>1
<1> QED
  BY <1>1, <1>2, <1>3 DEF Stream!IsPrefix, Stream!IsStrictPrefix

(* Every step of the queue is one of the stream, or none.                  *)
LEMMA QueueStepsAreStreamSteps ==
  ASSUME QueueInv, QueueInv', [QueueNext]_vars
  PROVE  [Stream!Accept \/ Stream!Deliver \/ Stream!End \/ Stream!Cancel \/ Stream!Tell]_(Stream!stream)
<1> USE DEF QueueInv
<1>1. eof \in BOOLEAN /\ failed \in BOOLEAN /\ cancelled \in BOOLEAN
  BY DEF QueueTypeOK
<1>2. ASSUME UNCHANGED <<flags, history>> PROVE UNCHANGED Stream!stream
  BY <1>2 DEF flags, history, Ending, Stream!stream
<1>3. CASE WriteEof
  <2>1. failed' = failed /\ cancelled' = cancelled /\ UNCHANGED history
        /\ eof' = (eof \/ ~ (cancelled \/ failed))
    BY <1>3 DEF WriteEof
  <2>2. Ending' = Ending \/ (Ending = "open" /\ Ending' = "eof")
    BY <1>1, <2>1 DEF Ending
  <2> QED
    BY <2>1, <2>2 DEF history, Stream!stream, Stream!End
<1>4. CASE WriteError
  <2>1. eof' = eof /\ cancelled' = cancelled /\ UNCHANGED history
        /\ failed' = (failed \/ (~ cancelled /\ ~ eof))
    BY <1>4 DEF WriteError
  <2>2. Ending' = Ending \/ (Ending = "open" /\ Ending' = "error")
    BY <1>1, <2>1 DEF Ending
  <2> QED
    BY <2>1, <2>2 DEF history, Stream!stream, Stream!End
<1>5. CASE Cancel("owner") \/ Cancel("consumer") \/ Release
  <2>1. cancelled' /\ UNCHANGED history
    BY <1>5 DEF Cancel, Release
  <2> QED
    BY <2>1 DEF history, Ending, Stream!Cancel
<1>6. CASE WriteCopies
  <2>1. /\ ~ cancelled /\ UNCHANGED flags /\ delivered' = delivered /\ told' = told
        /\ pc["producer"] \in {"enter", "woken"}
        /\ ~ (pc["producer"] = "enter" /\ (eof \/ failed))
    BY <1>6 DEF WriteCopies, MayWrite, Proceeds, HasLock
  <2>2. ~ eof /\ ~ failed
    BY <2>1 DEF CallsWell, InWait
  <2>3. Ending = "open" /\ Ending' = "open"
    BY <1>1, <2>1, <2>2 DEF Ending, flags
  <2>4. PICK n \in Nat \ {0} : Len(accepted') = Len(accepted) + n
    BY <1>6, WriteCopiesKeeps
  <2>5. InOrder(accepted) /\ InOrder(accepted') /\ Len(accepted) \in Nat
    BY DEF Content, InOrder
  <2>6. Stream!IsStrictPrefix(accepted, accepted')
    BY <2>4, <2>5, OrderlyPrefix
  <2>7. Len(accepted') - Len(delivered) <= Capacity
    <3>1. Len(accepted') = Len(delivered) + count' /\ count' \in 0 .. Capacity
      BY <2>1 DEF Content, QueueTypeOK
    <3>2. Len(delivered) \in Nat
      BY DEF Content, InOrder
    <3> QED
      BY <3>1, <3>2, QueueAssumption
  <2> QED
    BY <2>1, <2>3, <2>6, <2>7 DEF Stream!Accept
<1>7. CASE ReadCopies
  <2>1. /\ ~ cancelled /\ UNCHANGED flags /\ accepted' = accepted /\ told' = told
    BY <1>7 DEF ReadCopies, Proceeds, Unload
  <2>2. Ending # "cancelled" /\ Ending' = Ending
    BY <1>1, <2>1 DEF Ending, flags
  <2>3. PICK n \in Nat \ {0} : Len(delivered') = Len(delivered) + n
    BY <1>7, ReadCopiesKeeps
  <2>4. /\ InOrder(accepted) /\ InOrder(delivered) /\ InOrder(delivered')
        /\ Len(delivered) \in Nat
    BY DEF Content, InOrder
  <2>5. Len(delivered') <= Len(accepted)
    <3>1. Len(accepted) = Len(delivered') + count' /\ count' \in 0 .. Capacity
      BY <2>1 DEF Content, QueueTypeOK
    <3> QED
      BY <2>3, <2>4, <3>1, QueueAssumption
  <2>6. Stream!IsStrictPrefix(delivered, delivered') /\ Stream!IsPrefix(delivered', accepted)
    BY <2>3, <2>4, <2>5, OrderlyPrefix
  <2> QED
    BY <2>1, <2>2, <2>6 DEF Stream!Deliver
<1>8. CASE ReadEnds
  <2>1. /\ ~ cancelled /\ count = 0 /\ (eof \/ failed) /\ UNCHANGED flags
        /\ accepted' = accepted /\ delivered' = delivered
        /\ told' = IF failed THEN "error" ELSE "eof"
    BY <1>8 DEF ReadEnds, Proceeds
  <2>2. Ending \in {"eof", "error"} /\ told' = Ending /\ Ending' = Ending
    BY <1>1, <2>1 DEF Ending, flags
  <2>3. delivered = accepted
    BY <2>1, OrderlyPrefix DEF Content, InOrder
  <2> QED
    BY <2>1, <2>2, <2>3 DEF Stream!Tell
<1>9. CASE WriteBlocks \/ ReadBlocks
  BY <1>2, <1>9 DEF WriteBlocks, ReadBlocks, Block, Sleep
<1>10. CASE WriteAfterEnd \/ Refused("producer") \/ Refused("consumer")
  BY <1>2, <1>10 DEF WriteAfterEnd, Refused
<1>11. CASE OwnerRuns
  BY <1>2, <1>11 DEF OwnerRuns, ReleaseRechecks, ReleaseFrees
<1>12. CASE \E t \in {"producer", "consumer"}, n \in Nat \ {0}, p \in Patience : Call(t, n, p)
  BY <1>2, <1>12 DEF Call
<1>13. CASE \E t \in Roles : SpuriousReturn(t) \/ DeadlinePasses(t)
  BY <1>2, <1>13 DEF SpuriousReturn, DeadlinePasses
<1>14. CASE UNCHANGED vars
  BY <1>2, <1>14 DEF vars
<1> QED
  BY <1>3, <1>4, <1>5, <1>6, <1>7, <1>8, <1>9, <1>10, <1>11, <1>12, <1>13, <1>14
     DEF QueueNext, ProducerRuns, ConsumerRuns

(* Nobody sleeps beside the state it waits for: crtmedia_transport_queue's *)
(* read, write and release each wait only while there is cause, and every  *)
(* function that ends the cause signals.                                   *)
THEOREM SleepersAreRight == Spec => []SleepersHaveCause
<1>1. QueueInv => SleepersHaveCause
  BY DEF QueueInv
<1> QED
  BY <1>1, AnyRunsAreQueueRuns, PTL

(* crtmedia_transport_queue_release frees the queue when no thread is in   *)
(* one of its waits.                                                       *)
THEOREM FreedWhenLeft == Spec => []NobodyWaitsOnFreedQueue
<1>1. QueueInv => NobodyWaitsOnFreedQueue
  BY DEF QueueInv, QueueTypeOK, CallsWell, WaitersWell, Waits, Roles, InWait,
         NobodyWaitsOnFreedQueue
<1> QED
  BY <1>1, AnyRunsAreQueueRuns, PTL

(* The ring of transport_queue.c, cancelled, ended and refilled across its *)
(* end at any moment, implements the byte stream of its header.            *)
THEOREM QueueIsAStream == Spec => ImplementsByteStream
<1>1. Init => Stream!Init
  BY DEF Init, Stream!Init, Ending
<1>2. QueueInv /\ QueueInv' /\ [QueueNext]_vars =>
        [Stream!Accept \/ Stream!Deliver \/ Stream!End \/ Stream!Cancel \/ Stream!Tell]_(Stream!stream)
  BY QueueStepsAreStreamSteps
<1> QED
  BY <1>1, <1>2, AnyRunsAreQueueRuns, PTL DEF QueueRuns, ImplementsByteStream,
     Stream!Spec

-----------------------------------------------------------------------------
(* The upload                                                              *)

(* What an upload does to its queue: it never gives a wait a deadline and  *)
(* never reports an error through it.                                      *)
UploadQueueNext ==
  \/ \E t \in {"producer", "consumer"}, n \in Nat \ {0} : Call(t, n, "forever")
  \/ WriteEof \/ Cancel("owner") \/ Cancel("consumer") \/ Release \/ ReleaseFrees
  \/ WriteBlocks \/ WriteCopies \/ Refused("producer")
  \/ ReadBlocks \/ ReadCopies \/ ReadEnds \/ Refused("consumer")
  \/ \E t \in Roles : SpuriousReturn(t)

(* The queue of an upload: the end is told when the ring is empty, and     *)
(* nothing is put in after it.                                             *)
UploadQueue ==
  /\ failed = FALSE /\ told \in {"nothing", "eof"}
  /\ \A t \in Roles : pc[t] # "late"
  /\ told = "eof" => eof /\ count = 0

LEMMA UploadQueueKeeps ==
  ASSUME QueueInv, UploadQueue, [UploadQueueNext]_vars
  PROVE  QueueInv' /\ UploadQueue'
<1> USE DEF QueueInv, UploadQueue
<1>1. QueueInv'
  <2>1. UploadQueueNext => QueueNext
    BY DEF UploadQueueNext, QueueNext, ProducerRuns, ConsumerRuns, OwnerRuns,
       Patience
  <2> QED
    BY <2>1, QueueStepInv
<1>2. failed' = FALSE
  BY DEF UploadQueueNext, Call, WriteEof, Cancel, Release, ReleaseFrees,
     WriteBlocks, WriteCopies,
         Refused, ReadBlocks, ReadCopies, ReadEnds, SpuriousReturn, Block, Sleep, Unload, flags, vars
<1>3. \A t \in Roles : pc'[t] # "late"
  <2>1. ASSUME NEW t \in Roles, NEW step \in {"idle", "wait", "destroy"}, NEW woken,
               Move(t, step, woken)
        PROVE  \A s \in Roles : pc'[s] # "late"
    BY <2>1, Moved DEF Steps
  <2>2. ASSUME NEW t \in Roles, NEW woken, Return(t, woken) PROVE \A s \in Roles : pc'[s] # "late"
    BY <2>1, <2>2 DEF Return
  <2>3. ASSUME NEW t \in Roles, Sleep(t) PROVE \A s \in Roles : pc'[s] # "late"
    BY <2>1, <2>3 DEF Sleep
  <2>4. CASE \E t \in {"producer", "consumer"}, n \in Nat \ {0} : Call(t, n, "forever")
    BY <2>4 DEF Call, QueueTypeOK, Roles
  <2>5. CASE \E t \in Roles : SpuriousReturn(t)
    BY <2>5 DEF SpuriousReturn, QueueTypeOK
  <2>6. CASE WriteEof \/ Cancel("owner") \/ Cancel("consumer") \/ WriteCopies \/ ReadCopies
             \/ ReadEnds \/ Refused("producer") \/ Refused("consumer")
    BY <2>2, <2>6 DEF WriteEof, Cancel, WriteCopies, ReadCopies, ReadEnds,
       Refused, Roles
  <2>7. CASE WriteBlocks \/ ReadBlocks
    BY <2>2, <2>3, <2>7 DEF WriteBlocks, ReadBlocks, Block, Roles
  <2>8. CASE Release \/ ReleaseFrees
    BY <2>1, <2>8 DEF Release, ReleaseFrees, AwaitDrained, Roles
  <2>9. CASE UNCHANGED vars
    BY <2>9 DEF vars
  <2> QED
    BY <2>4, <2>5, <2>6, <2>7, <2>8, <2>9 DEF UploadQueueNext
<1>4. told' \in {"nothing", "eof"} /\ (told' = "eof" => eof' /\ count' = 0)
  <2>1. CASE WriteEof
    BY <2>1 DEF WriteEof, ring, history
  <2>2. CASE WriteCopies
    BY <2>2 DEF WriteCopies, MayWrite, Proceeds, HasLock, CallsWell, InWait,
       flags
  <2>3. CASE ReadCopies
    BY <2>3, QueueAssumption DEF ReadCopies, Unload, flags, QueueTypeOK
  <2>4. CASE ReadEnds
    BY <2>4 DEF ReadEnds, ring, flags
  <2>5. CASE WriteBlocks \/ ReadBlocks \/ Refused("producer") \/ Refused("consumer")
    BY <2>5 DEF WriteBlocks, ReadBlocks, Block, Sleep, Refused, ring, flags,
       history
  <2>6. CASE Cancel("owner") \/ Cancel("consumer") \/ Release \/ ReleaseFrees
    BY <2>6 DEF Cancel, Release, ReleaseFrees, ring, flags, history
  <2>7. CASE \E t \in {"producer", "consumer"}, n \in Nat \ {0} : Call(t, n, "forever")
    BY <2>7 DEF Call, ring, flags, history
  <2>8. CASE \E t \in Roles : SpuriousReturn(t)
    BY <2>8 DEF SpuriousReturn, ring, flags, history
  <2>9. CASE UNCHANGED vars
    BY <2>9 DEF vars, ring, flags, history
  <2> QED
    BY <2>1, <2>2, <2>3, <2>4, <2>5, <2>6, <2>7, <2>8, <2>9 DEF UploadQueueNext
<1> QED
  BY <1>1, <1>2, <1>3, <1>4

Gone == {"releasing", "freeing", "closed"}
InCalls == {"ready", "writing", "writeJoins", "finishing"}

(* The values of the upload's variables.                                   *)
UploadTypeOK ==
  /\ client \in InCalls \union Gone \union {"cancelling", "closeJoins"}
  /\ worker \in {"perform", "callback", "failing", "done"}
  /\ eofWritten \in BOOLEAN /\ joined \in BOOLEAN /\ finished \in BOOLEAN
  /\ broken \in BOOLEAN /\ joins \in Nat

(* The bytes a write has yet to hand over, and the part of them that is in *)
(* its call.                                                               *)
WriteOK ==
  /\ client = "writing" =>
       rest \in Nat \ {0} /\ (pc["producer"] # "idle" => size["producer"] = rest)
  /\ client \in {"ready", "finishing"} => rest = 0 \/ broken

(* Who has joined the worker.                                              *)
JoinsOK ==
  /\ joined => joins = 1 /\ worker = "done"
  /\ ~ joined /\ client \notin Gone => joins = 0
  /\ client \in {"writeJoins", "cancelling", "closeJoins"} => ~ joined
  /\ client \in Gone => joins = 1 /\ worker = "done"

(* What is known of the transfer's end.                                    *)
VerdictOK ==
  /\ status = "2xx" => worker = "done" /\ (patient => told = "eof")
  /\ worker = "failing" => ~ Succeeded
  /\ broken => worker = "done" /\ ~ Succeeded
  /\ cancelled /\ client \in InCalls => worker = "done" /\ ~ Succeeded
  /\ client = "writeJoins" => cancelled
  /\ client = "finishing" => eofWritten
  /\ finished => /\ Succeeded /\ eofWritten /\ joined /\ ~ broken /\ rest = 0
                 /\ client \notin {"writing", "writeJoins", "finishing"}

(* The inductive invariant of the upload.                                  *)
UploadInv ==
  QueueInv /\ UploadQueue /\ UploadTypeOK /\ WriteOK /\ JoinsOK /\ VerdictOK

LEMMA UploadInitInv == UploadInit => UploadInv
<1> SUFFICES ASSUME UploadInit PROVE UploadInv
  OBVIOUS
<1>1. Init /\ UploadOpens /\ QueueInv
  BY QueueInitInv DEF UploadInit
<1> QED
  BY <1>1 DEF Init, UploadOpens, UploadInv, UploadQueue, UploadTypeOK, WriteOK,
     JoinsOK,
              VerdictOK, Succeeded, InCalls, Gone, Roles

(* A step of another thread leaves the producer's call alone.              *)
LEMMA ProducerKept ==
  ASSUME QueueInv,
         \/ \E n \in Nat \ {0} : Call("consumer", n, "forever")
         \/ Cancel("owner") \/ Cancel("consumer") \/ Release \/ ReleaseFrees
         \/ ReadBlocks \/ ReadCopies \/ ReadEnds \/ Refused("consumer")
         \/ \E t \in Roles : SpuriousReturn(t)
  PROVE  pc'["producer"] # "idle" => pc["producer"] # "idle" /\ size'["producer"] = size["producer"]
<1> USE DEF QueueInv
<1>1. ASSUME NEW t \in {"consumer", "owner"}, NEW step \in Steps, NEW woken, Move(t, step, woken)
      PROVE  pc'["producer"] # "idle" => pc["producer"] # "idle"
  BY <1>1, Moved DEF Roles
<1>2. ASSUME NEW t \in {"consumer", "owner"}, NEW woken, Return(t, woken)
      PROVE  pc'["producer"] # "idle" => pc["producer"] # "idle" /\ size'["producer"] = size["producer"]
  BY <1>1, <1>2 DEF Return, Steps, QueueTypeOK, Roles
<1>3. CASE ReadBlocks
  BY <1>1, <1>2, <1>3 DEF ReadBlocks, Block, Sleep, Steps
<1>4. CASE Release \/ ReleaseFrees
  BY <1>1, <1>4 DEF Release, ReleaseFrees, AwaitDrained, Steps
<1>5. CASE Cancel("owner") \/ Cancel("consumer") \/ ReadCopies \/ ReadEnds \/ Refused("consumer")
  BY <1>2, <1>5 DEF Cancel, ReadCopies, ReadEnds, Refused
<1>6. CASE \E n \in Nat \ {0} : Call("consumer", n, "forever")
  BY <1>6 DEF Call, QueueTypeOK, Roles
<1>7. CASE \E t \in Roles : SpuriousReturn(t)
  BY <1>7 DEF SpuriousReturn, QueueTypeOK, Roles
<1> QED
  BY <1>3, <1>4, <1>5, <1>6, <1>7

(* What the steps of the upload do to its queue.                           *)
LEMMA UploadStepsOnQueue ==
  ASSUME UploadInv, [UploadNext]_uploadVars
  PROVE  [UploadQueueNext]_vars
<1>1. Len(accepted) \in Nat /\ MaxBytes \in Nat /\ Capacity \in Nat
  BY QueueAssumption DEF UploadInv, QueueInv, Content, InOrder
<1>2. \A m \in Int : 1 .. m \subseteq Nat \ {0}
  OBVIOUS
<1>3. CASE \E n \in 1 .. MaxBytes - Len(accepted) : Write(n)
  BY <1>1, <1>2, <1>3 DEF Write, UploadQueueNext
<1>4. CASE WriteNextChunk
  BY <1>4 DEF WriteNextChunk, UploadInv, WriteOK, UploadQueueNext
<1>5. CASE \E n \in 1 .. Capacity : CurlAsksForData(n)
  BY <1>1, <1>2, <1>5 DEF CurlAsksForData, UploadQueueNext
<1>6. CASE WriteSleeps \/ WriteHandsOver \/ WriteIsRefused \/ WriteJoins
  BY <1>6 DEF WriteSleeps, WriteHandsOver, WriteIsRefused, WriteJoins,
     UploadQueueNext
<1>7. CASE Finish \/ FinishJudges \/ Close
  BY <1>7 DEF Finish, FinishJudges, Close, UploadQueueNext
<1>8. CASE CloseCancels \/ CloseJoins \/ CloseReleases \/ CloseFrees
  BY <1>8 DEF CloseCancels, CloseJoins, CloseReleases, CloseFrees,
     UploadQueueNext
<1>9. CASE CallbackSleeps \/ CallbackReads \/ CallbackAborts
  BY <1>9 DEF CallbackSleeps, CallbackReads, CallbackAborts, UploadQueueNext
<1>10. CASE CurlEnds \/ ProgressAborts \/ WorkerCancels
  BY <1>10 DEF CurlEnds, ProgressAborts, WorkerCancels, UploadQueueNext
<1>11. CASE \E t \in Roles : SpuriousReturn(t) /\ UNCHANGED upload
  BY <1>11 DEF UploadQueueNext
<1>12. CASE UNCHANGED uploadVars
  BY <1>12 DEF uploadVars
<1> QED
  BY <1>3, <1>4, <1>5, <1>6, <1>7, <1>8, <1>9, <1>10, <1>11, <1>12
     DEF UploadNext, ClientCalls, ClientRuns, WorkerRuns, NetworkRuns

(* What a step of the upload keeps, beside its queue.                      *)
LEMMA UploadStepKeeps ==
  ASSUME UploadInv, [UploadNext]_uploadVars
  PROVE  UploadTypeOK' /\ WriteOK' /\ JoinsOK' /\ VerdictOK'
<1> USE DEF UploadInv
<1>0. QueueTypeOK /\ Len(accepted) \in Nat
  BY DEF QueueInv, Content, InOrder
<1>1. /\ \A n \in 1 .. MaxBytes - Len(accepted) : n \in Nat \ {0}
      /\ \A n \in 1 .. Capacity : n \in Nat \ {0}
  BY <1>0, QueueAssumption
<1>2. WriteBlocks =>
        /\ told' = told /\ cancelled' = cancelled
        /\ (pc'["producer"] # "idle" =>
                pc["producer"] # "idle" /\ size'["producer"] = size["producer"])
  <2>1. HasLock("producer") => pc["producer"] # "idle"
    BY DEF HasLock
  <2>2. Return("producer", {}) => pc'["producer"] = "idle"
    BY <1>0, Moved DEF Return, Steps, Roles
  <2> QED
    BY <2>1, <2>2 DEF WriteBlocks, MayWrite, Proceeds, Block, Sleep, flags,
       history
<1>3. WriteHandsOver =>
        /\ rest' \in Nat /\ pc'["producer"] = "idle"
        /\ told' = told /\ cancelled' = cancelled
  <2> SUFFICES ASSUME WriteHandsOver
               PROVE  /\ rest' \in Nat /\ pc'["producer"] = "idle"
                      /\ told' = told /\ cancelled' = cancelled
    OBVIOUS
  <2>1. /\ WriteCopies /\ rest' = rest - (count' - count)
        /\ Return("producer", {"consumer"}) /\ told' = told /\ cancelled' = cancelled
        /\ rest \in Nat \ {0} /\ size["producer"] = rest /\ count \in Nat
    BY <1>0, QueueAssumption DEF WriteHandsOver, WriteCopies, MayWrite,
       Proceeds, HasLock, flags, WriteOK, QueueTypeOK
  <2>2. PICK n \in Nat \ {0} : n <= size["producer"] /\ count' = count + n
    BY <2>1, WriteCopiesKeeps
  <2>3. rest' \in Nat
    BY <2>1, <2>2
  <2>4. pc'["producer"] = "idle"
    BY <1>0, <2>1, Moved DEF Return, Steps, Roles
  <2> QED
    BY <2>1, <2>3, <2>4
<1>4. (\/ \E n \in 1 .. Capacity : Call("consumer", n, "forever")
       \/ Cancel("consumer") \/ ReadBlocks \/ ReadCopies \/ ReadEnds \/ Refused("consumer")
       \/ \E t \in Roles : SpuriousReturn(t)) =>
        (pc'["producer"] # "idle" =>
                pc["producer"] # "idle" /\ size'["producer"] = size["producer"])
  BY <1>1, ProducerKept
<1>5. CASE \E n \in 1 .. MaxBytes - Len(accepted) : Write(n)
  <2>1. /\ client = "ready" /\ ~ eofWritten /\ client' = "writing"
        /\ rest' \in Nat \ {0} /\ size'["producer"] = rest'
        /\ told' = told /\ patient' = patient /\ cancelled' = cancelled
        /\ eofWritten' = eofWritten /\ joined' = joined /\ finished' = finished /\ worker' = worker
        /\ curlResult' = curlResult /\ status' = status /\ joins' = joins /\ broken' = broken
    BY <1>0, <1>1, <1>5 DEF Write, Call, history, flags, QueueTypeOK, Roles
  <2> QED
    BY <2>1 DEF UploadTypeOK, WriteOK, JoinsOK, VerdictOK, Succeeded, InCalls,
       Gone
<1>6. CASE WriteNextChunk
  <2>1. /\ client = "writing" /\ client' = "writing" /\ size'["producer"] = rest
        /\ told' = told /\ patient' = patient /\ cancelled' = cancelled
        /\ rest' = rest /\ eofWritten' = eofWritten /\ joined' = joined /\ finished' = finished
        /\ worker' = worker /\ curlResult' = curlResult /\ status' = status /\ joins' = joins
        /\ broken' = broken
    BY <1>0, <1>6 DEF WriteNextChunk, Call, ClientAt, history, flags,
       QueueTypeOK, Roles
  <2> QED
    BY <2>1 DEF UploadTypeOK, WriteOK, JoinsOK, VerdictOK, Succeeded, InCalls,
       Gone
<1>7. CASE WriteSleeps
  <2>1. /\ client = "writing"
        /\ told' = told /\ patient' = patient /\ cancelled' = cancelled
        /\ (pc'["producer"] # "idle" =>
             pc["producer"] # "idle" /\ size'["producer"] = size["producer"])
        /\ client' = client /\ rest' = rest /\ eofWritten' = eofWritten /\ joined' = joined
        /\ finished' = finished /\ worker' = worker /\ curlResult' = curlResult /\ status' = status
        /\ joins' = joins /\ broken' = broken
    BY <1>7, <1>2 DEF WriteSleeps, upload
  <2> QED
    BY <2>1 DEF UploadTypeOK, WriteOK, JoinsOK, VerdictOK, Succeeded, InCalls,
       Gone
<1>8. CASE WriteHandsOver
  <2>1. /\ client = "writing" /\ rest' \in Nat
        /\ client' = IF rest' = 0 THEN "ready" ELSE "writing"
        /\ pc'["producer"] = "idle"
        /\ told' = told /\ patient' = patient /\ cancelled' = cancelled
        /\ eofWritten' = eofWritten /\ joined' = joined /\ finished' = finished /\ worker' = worker
        /\ curlResult' = curlResult /\ status' = status /\ joins' = joins /\ broken' = broken
    BY <1>8, <1>3 DEF WriteHandsOver
  <2> QED
    BY <2>1 DEF UploadTypeOK, WriteOK, JoinsOK, VerdictOK, Succeeded, InCalls,
       Gone
<1>9. CASE WriteIsRefused
  <2>1. /\ client = "writing" /\ cancelled /\ client' = (IF joined THEN "ready" ELSE "writeJoins")
        /\ broken' = (broken \/ joined)
        /\ told' = told /\ patient' = patient /\ cancelled' = cancelled
        /\ rest' = rest /\ eofWritten' = eofWritten /\ joined' = joined /\ finished' = finished
        /\ worker' = worker /\ curlResult' = curlResult /\ status' = status /\ joins' = joins
    BY <1>9 DEF WriteIsRefused, Refused, flags, history, UploadQueue, Roles
  <2> QED
    BY <2>1 DEF UploadTypeOK, WriteOK, JoinsOK, VerdictOK, Succeeded, InCalls,
       Gone
<1>10. CASE WriteJoins
  <2>1. /\ client = "writeJoins" /\ worker = "done" /\ client' = "ready"
        /\ joined' = TRUE /\ joins' = joins + 1 /\ broken' = TRUE
        /\ told' = told /\ patient' = patient /\ cancelled' = cancelled
        /\ rest' = rest /\ eofWritten' = eofWritten /\ finished' = finished /\ worker' = worker
        /\ curlResult' = curlResult /\ status' = status
    BY <1>10 DEF WriteJoins, vars, flags, history
  <2> QED
    BY <2>1 DEF UploadTypeOK, WriteOK, JoinsOK, VerdictOK, Succeeded, InCalls,
       Gone
<1>11. CASE Finish
  <2>1. /\ client = "ready" /\ ~ finished /\ client' = "finishing" /\ eofWritten' = TRUE
        /\ told' = told /\ patient' = patient /\ cancelled' = cancelled
        /\ rest' = rest /\ joined' = joined /\ finished' = finished /\ worker' = worker
        /\ curlResult' = curlResult /\ status' = status /\ joins' = joins /\ broken' = broken
    BY <1>11 DEF Finish, WriteEof, vars, flags, history
  <2> QED
    BY <2>1 DEF UploadTypeOK, WriteOK, JoinsOK, VerdictOK, Succeeded, InCalls,
       Gone
<1>12. CASE FinishJudges
  <2>1. /\ client = "finishing" /\ (joined \/ worker = "done") /\ client' = "ready"
        /\ joined' = TRUE /\ joins' = (IF joined THEN joins ELSE joins + 1)
        /\ finished' = Succeeded /\ broken' = (broken \/ ~ Succeeded)
        /\ told' = told /\ patient' = patient /\ cancelled' = cancelled
        /\ rest' = rest /\ eofWritten' = eofWritten /\ worker' = worker /\ curlResult' = curlResult
        /\ status' = status
    BY <1>12 DEF FinishJudges, vars, flags, history
  <2> QED
    BY <2>1 DEF UploadTypeOK, WriteOK, JoinsOK, VerdictOK, Succeeded, InCalls,
       Gone
<1>13. CASE Close
  <2>1. /\ client = "ready" /\ client' = (IF joined THEN "releasing" ELSE "cancelling")
        /\ told' = told /\ patient' = patient /\ cancelled' = cancelled
        /\ rest' = rest /\ eofWritten' = eofWritten /\ joined' = joined /\ finished' = finished
        /\ worker' = worker /\ curlResult' = curlResult /\ status' = status /\ joins' = joins
        /\ broken' = broken
    BY <1>13 DEF Close, vars, flags, history
  <2> QED
    BY <2>1 DEF UploadTypeOK, WriteOK, JoinsOK, VerdictOK, Succeeded, InCalls,
       Gone
<1>14. CASE CloseCancels
  <2>1. /\ client = "cancelling" /\ client' = "closeJoins" /\ told' = told /\ patient' = patient
        /\ rest' = rest /\ eofWritten' = eofWritten /\ joined' = joined /\ finished' = finished
        /\ worker' = worker /\ curlResult' = curlResult /\ status' = status /\ joins' = joins
        /\ broken' = broken
    BY <1>14 DEF CloseCancels, Cancel, ClientAt, history
  <2> QED
    BY <2>1 DEF UploadTypeOK, WriteOK, JoinsOK, VerdictOK, Succeeded, InCalls,
       Gone
<1>15. CASE CloseJoins
  <2>1. /\ client = "closeJoins" /\ worker = "done" /\ client' = "releasing"
        /\ joins' = joins + 1
        /\ told' = told /\ patient' = patient /\ cancelled' = cancelled
        /\ rest' = rest /\ eofWritten' = eofWritten /\ joined' = joined /\ finished' = finished
        /\ worker' = worker /\ curlResult' = curlResult /\ status' = status /\ broken' = broken
    BY <1>15 DEF CloseJoins, vars, flags, history
  <2> QED
    BY <2>1 DEF UploadTypeOK, WriteOK, JoinsOK, VerdictOK, Succeeded, InCalls,
       Gone
<1>16. CASE CloseReleases
  <2>1. /\ client = "releasing" /\ client' = "freeing" /\ told' = told /\ patient' = patient
        /\ rest' = rest /\ eofWritten' = eofWritten /\ joined' = joined /\ finished' = finished
        /\ worker' = worker /\ curlResult' = curlResult /\ status' = status /\ joins' = joins
        /\ broken' = broken
    BY <1>16 DEF CloseReleases, Release, ClientAt, history
  <2> QED
    BY <2>1 DEF UploadTypeOK, WriteOK, JoinsOK, VerdictOK, Succeeded, InCalls,
       Gone
<1>17. CASE CloseFrees
  <2>1. /\ client = "freeing" /\ client' = "closed"
        /\ told' = told /\ patient' = patient /\ cancelled' = cancelled
        /\ rest' = rest /\ eofWritten' = eofWritten /\ joined' = joined /\ finished' = finished
        /\ worker' = worker /\ curlResult' = curlResult /\ status' = status /\ joins' = joins
        /\ broken' = broken
    BY <1>17 DEF CloseFrees, ReleaseFrees, ClientAt, history, flags
  <2> QED
    BY <2>1 DEF UploadTypeOK, WriteOK, JoinsOK, VerdictOK, Succeeded, InCalls,
       Gone
<1>18. CASE \E n \in 1 .. Capacity : CurlAsksForData(n)
  <2>1. /\ worker = "perform" /\ worker' = "callback"
        /\ told' = told /\ patient' = patient /\ cancelled' = cancelled
        /\ (pc'["producer"] # "idle" =>
             pc["producer"] # "idle" /\ size'["producer"] = size["producer"])
        /\ client' = client /\ rest' = rest /\ eofWritten' = eofWritten /\ joined' = joined
        /\ finished' = finished /\ curlResult' = curlResult /\ status' = status /\ joins' = joins
        /\ broken' = broken
    BY <1>18, <1>4 DEF CurlAsksForData, Call, WorkerAt, history, flags
  <2> QED
    BY <2>1 DEF UploadTypeOK, WriteOK, JoinsOK, VerdictOK, Succeeded, InCalls,
       Gone
<1>19. CASE CallbackSleeps
  <2>1. /\ told' = told /\ patient' = patient /\ cancelled' = cancelled
        /\ (pc'["producer"] # "idle" =>
             pc["producer"] # "idle" /\ size'["producer"] = size["producer"])
        /\ client' = client /\ rest' = rest /\ eofWritten' = eofWritten /\ joined' = joined
        /\ finished' = finished /\ worker' = worker /\ curlResult' = curlResult /\ status' = status
        /\ joins' = joins /\ broken' = broken
    BY <1>19, <1>4 DEF CallbackSleeps, ReadBlocks, Block, Sleep, history,
       flags, upload
  <2> QED
    BY <2>1 DEF UploadTypeOK, WriteOK, JoinsOK, VerdictOK, Succeeded, InCalls,
       Gone
<1>20. CASE CallbackReads
  <2>1. /\ worker = "callback" /\ worker' = "perform"
        /\ cancelled' = cancelled
        /\ (pc'["producer"] # "idle" =>
             pc["producer"] # "idle" /\ size'["producer"] = size["producer"])
        /\ client' = client /\ rest' = rest /\ eofWritten' = eofWritten /\ joined' = joined
        /\ finished' = finished /\ curlResult' = curlResult /\ status' = status /\ joins' = joins
        /\ broken' = broken
    BY <1>20, <1>4 DEF CallbackReads, ReadCopies, ReadEnds, Unload, WorkerAt,
       flags
  <2> QED
    BY <2>1 DEF UploadTypeOK, WriteOK, JoinsOK, VerdictOK, Succeeded, InCalls,
       Gone
<1>21. CASE CallbackAborts
  <2>1. /\ worker = "callback" /\ worker' = "failing"
        /\ curlResult' = "CANCELLED" /\ status' = "none"
        /\ told' = told /\ patient' = patient /\ cancelled' = cancelled
        /\ (pc'["producer"] # "idle" =>
             pc["producer"] # "idle" /\ size'["producer"] = size["producer"])
        /\ client' = client /\ rest' = rest /\ eofWritten' = eofWritten /\ joined' = joined
        /\ finished' = finished /\ joins' = joins /\ broken' = broken
    BY <1>21, <1>4 DEF CallbackAborts, Refused, Performed, history, flags
  <2> QED
    BY <2>1 DEF UploadTypeOK, WriteOK, JoinsOK, VerdictOK, Succeeded, InCalls,
       Gone
<1>22. CASE CurlEnds
  <2>1. /\ worker = "perform" /\ worker' \in {"failing", "done"}
        /\ worker' = "failing" => ~ (curlResult' = "OK" /\ status' = "2xx")
        /\ worker' = "done" => curlResult' = "OK" /\ status' = "2xx"
        /\ status' = "2xx" => worker' = "done" /\ (patient => told = "eof")
        /\ pc' = pc /\ size' = size
        /\ told' = told /\ patient' = patient /\ cancelled' = cancelled
        /\ client' = client /\ rest' = rest /\ eofWritten' = eofWritten /\ joined' = joined
        /\ finished' = finished /\ joins' = joins /\ broken' = broken
    BY <1>22 DEF CurlEnds, Performed, vars, history, flags
  <2> QED
    BY <2>1 DEF UploadTypeOK, WriteOK, JoinsOK, VerdictOK, Succeeded, InCalls,
       Gone
<1>23. CASE ProgressAborts
  <2>1. /\ worker = "perform" /\ worker' = "failing"
        /\ curlResult' = "CANCELLED" /\ status' = "none"
        /\ pc' = pc /\ size' = size
        /\ told' = told /\ patient' = patient /\ cancelled' = cancelled
        /\ client' = client /\ rest' = rest /\ eofWritten' = eofWritten /\ joined' = joined
        /\ finished' = finished /\ joins' = joins /\ broken' = broken
    BY <1>23 DEF ProgressAborts, Performed, vars, history, flags
  <2> QED
    BY <2>1 DEF UploadTypeOK, WriteOK, JoinsOK, VerdictOK, Succeeded, InCalls,
       Gone
<1>24. CASE WorkerCancels
  <2>1. /\ worker = "failing" /\ worker' = "done" /\ told' = told /\ patient' = patient
        /\ (pc'["producer"] # "idle" =>
             pc["producer"] # "idle" /\ size'["producer"] = size["producer"])
        /\ client' = client /\ rest' = rest /\ eofWritten' = eofWritten /\ joined' = joined
        /\ finished' = finished /\ curlResult' = curlResult /\ status' = status /\ joins' = joins
        /\ broken' = broken
    BY <1>24, <1>4 DEF WorkerCancels, Cancel, WorkerAt, history
  <2> QED
    BY <2>1 DEF UploadTypeOK, WriteOK, JoinsOK, VerdictOK, Succeeded, InCalls,
       Gone
<1>25. CASE \E t \in Roles : SpuriousReturn(t) /\ UNCHANGED upload
  <2>1. /\ told' = told /\ patient' = patient /\ cancelled' = cancelled
        /\ (pc'["producer"] # "idle" =>
             pc["producer"] # "idle" /\ size'["producer"] = size["producer"])
        /\ client' = client /\ rest' = rest /\ eofWritten' = eofWritten /\ joined' = joined
        /\ finished' = finished /\ worker' = worker /\ curlResult' = curlResult /\ status' = status
        /\ joins' = joins /\ broken' = broken
    BY <1>25, <1>4 DEF SpuriousReturn, history, flags, upload
  <2> QED
    BY <2>1 DEF UploadTypeOK, WriteOK, JoinsOK, VerdictOK, Succeeded, InCalls,
       Gone
<1>26. CASE UNCHANGED uploadVars
  <2>1. /\ pc' = pc /\ size' = size
        /\ told' = told /\ patient' = patient /\ cancelled' = cancelled
        /\ client' = client /\ rest' = rest /\ eofWritten' = eofWritten /\ joined' = joined
        /\ finished' = finished /\ worker' = worker /\ curlResult' = curlResult /\ status' = status
        /\ joins' = joins /\ broken' = broken
    BY <1>26 DEF uploadVars, vars, upload, history, flags
  <2> QED
    BY <2>1 DEF UploadTypeOK, WriteOK, JoinsOK, VerdictOK, Succeeded, InCalls,
       Gone
<1> QED
  BY <1>5, <1>6, <1>7, <1>8, <1>9, <1>10, <1>11, <1>12, <1>13, <1>14, <1>15,
     <1>16, <1>17, <1>18, <1>19, <1>20, <1>21, <1>22, <1>23, <1>24, <1>25,
     <1>26 DEF UploadNext, ClientCalls, ClientRuns, WorkerRuns, NetworkRuns

LEMMA UploadRuns == UploadSpec => []UploadInv
<1>1. UploadInit => UploadInv
  BY UploadInitInv
<1>2. UploadInv /\ [UploadNext]_uploadVars => UploadInv'
  <2> SUFFICES ASSUME UploadInv, [UploadNext]_uploadVars PROVE UploadInv'
    OBVIOUS
  <2>1. QueueInv' /\ UploadQueue'
    BY UploadStepsOnQueue, UploadQueueKeeps DEF UploadInv
  <2> QED
    BY <2>1, UploadStepKeeps DEF UploadInv
<1> QED
  BY <1>1, <1>2, PTL DEF UploadSpec

(* crtmedia_http_upload_finish reports success only of an upload whose     *)
(* writes have all gone into the queue and that the server has accepted;   *)
(* every byte of it was read by curl, up to the end, if the server answers *)
(* 2xx only after that, which the code does not check.                     *)
THEOREM FinishTellsTheTruth == UploadSpec => []FinishIsHonest
<1>1. UploadInv => FinishIsHonest
  <2> SUFFICES ASSUME UploadInv, finished PROVE FinishIsHonest
    BY DEF FinishIsHonest
  <2>1. /\ ~ broken /\ rest = 0 /\ curlResult = "OK" /\ status = "2xx"
        /\ patient => told = "eof"
    BY DEF UploadInv, VerdictOK, Succeeded
  <2>2. ASSUME told = "eof" PROVE delivered = accepted
    <3>1. /\ InOrder(accepted) /\ InOrder(delivered)
          /\ Len(accepted) = Len(delivered) + count /\ count = 0 /\ Len(delivered) \in Nat
      BY <2>2 DEF UploadInv, QueueInv, Content, UploadQueue, InOrder
    <3>2. Len(delivered) = Len(accepted)
      BY <3>1
    <3> QED
      BY <3>1, <3>2, OrderlyPrefix
  <2> QED
    BY <2>1, <2>2 DEF FinishIsHonest
<1> QED
  BY <1>1, UploadRuns, PTL

(* Of crtmedia_http_upload_write, finish and close, the first that finds   *)
(* the worker ended joins it, and the upload is freed after that.          *)
THEOREM WorkerIsJoinedOnce == UploadSpec => []JoinedOnceBeforeFree
<1>1. UploadInv => JoinedOnceBeforeFree
  BY DEF UploadInv, JoinsOK, Gone, UploadTypeOK, JoinedOnceBeforeFree
<1> QED
  BY <1>1, UploadRuns, PTL

(* What holds of the queue under any caller holds of an upload's.          *)
THEOREM UploadQueueIsSound ==
  UploadSpec => [](SleepersHaveCause /\ NobodyWaitsOnFreedQueue) /\ ImplementsByteStream
<1>1. UploadInit => Stream!Init
  BY DEF UploadInit, Init, Stream!Init, Ending
<1>2. UploadInv => QueueInv
  BY DEF UploadInv
<1>3. UploadInv /\ [UploadNext]_uploadVars => [QueueNext]_vars
  <2>1. UploadQueueNext => QueueNext
    BY DEF UploadQueueNext, QueueNext, ProducerRuns, ConsumerRuns, OwnerRuns,
       Patience
  <2> QED
    BY <2>1, UploadStepsOnQueue
<1>4. QueueInv /\ QueueInv' /\ [QueueNext]_vars =>
        [Stream!Accept \/ Stream!Deliver \/ Stream!End \/ Stream!Cancel \/ Stream!Tell]_(Stream!stream)
  BY QueueStepsAreStreamSteps
<1>5. QueueInv => SleepersHaveCause /\ NobodyWaitsOnFreedQueue
  BY DEF QueueInv, QueueTypeOK, CallsWell, WaitersWell, Waits, Roles, InWait,
         NobodyWaitsOnFreedQueue
<1> QED
  BY <1>1, <1>2, <1>3, <1>4, <1>5, UploadRuns, PTL
     DEF UploadSpec, ImplementsByteStream, Stream!Spec
=============================================================================
