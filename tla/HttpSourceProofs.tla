-------------------------- MODULE HttpSourceProofs --------------------------
(***************************************************************************)
(* Proofs about the HTTP source, for a resource of any size, any number of *)
(* its versions and any capacity of the queues, whatever the server and    *)
(* the network do.                                                         *)
(***************************************************************************)
EXTENDS HttpSource, TLAPS

(* The types of a connection's fields and of the variables.                *)
Bytes == Nat \X Nat
Workers == {"none", "connecting", "streaming", "callback", "done"}
Connections ==
  [worker : Workers, offset : Nat, required : Nat,
   ready : BOOLEAN, opened : {"OK"} \union Errors, seekable : BOOLEAN, validator : Nat,
   body : Nat, next : Nat, last : Nat, queue : Seq(Bytes),
   ending : {"open", "eof"} \union Errors, cancelled : BOOLEAN]

SourceTypeOK ==
  /\ version \in Nat /\ framed \in BOOLEAN /\ habit \in Habits
  /\ conn \in [Slots -> Connections]
  /\ client \in {"idle", "reading", "opening", "joining", "closed"}
  /\ purpose \in {"none", "open", "resume", "seek", "close"}
  /\ position \in Nat /\ seekable \in BOOLEAN /\ validator \in Nat
  /\ lastError \in {"OK"} \union Errors

(* Three retries at most, counted from the last byte that was read.        *)
RetriesOK == retries \in 0 .. MaxRetries /\ fruitless = retries

(* The bytes of a queue are the last ones of version body before next.     *)
Consecutive(body, next, queue) ==
  /\ Len(queue) <= next
  /\ \A k \in 1 .. Len(queue) :
       queue[k][1] = body /\ queue[k][2] = next - Len(queue) + k - 1

(* Of any connection: one that connects has nothing to show yet, the end   *)
(* is the worker's last word, and a clean end is that of the body.         *)
ConnectionOK(c) ==
  /\ Consecutive(c.body, c.next, c.queue)
  /\ c.worker = "connecting" => ~ c.ready /\ c.queue = <<>>
  /\ c.worker \in {"connecting", "streaming", "callback"} => c.ending = "open"
  /\ framed /\ c.ending = "eof" => c.next = c.last

(* The reader may read on from the connection in use.                      *)
InUse ==
  \/ client \in {"idle", "reading"}
  \/ client = "opening" /\ purpose \in {"resume", "seek"}
  \/ client = "joining" /\ purpose \in {"resume", "seek"} /\ conn.fresh.opened # "OK"

(* Its bytes are those that follow the reader's position, of the version   *)
(* whose validator the reader knows, and are all that is left of them if   *)
(* the server sends all it is asked for.                                   *)
CurrentOK ==
  /\ conn.current.worker # "connecting"
  /\ InUse =>
       /\ validator # 0 \/ habit # "any" =>
            position = conn.current.next - Len(conn.current.queue)
       /\ validator \in {0, conn.current.body}
       /\ habit = "full" => conn.current.last = Size

(* A connection that has been opened goes on from where it was asked to    *)
(* (from the start if the code has accepted any 2xx status), with the      *)
(* version that was asked for.                                             *)
FreshOK ==
  conn.fresh.ready /\ conn.fresh.opened = "OK" =>
    /\ conn.fresh.offset = 0 \/ conn.fresh.required # 0 \/ habit # "any" =>
         conn.fresh.offset = conn.fresh.next - Len(conn.fresh.queue)
    /\ habit = "full" => conn.fresh.last = Size
    /\ conn.fresh.required \in {0, conn.fresh.body}
    /\ conn.fresh.validator \in {0, conn.fresh.body}

(* What the reader has asked for, unless the connection has failed.        *)
AskedFor ==
  client \in {"opening", "joining"} =>
    /\ client = "opening" \/ conn.fresh.opened = "OK" =>
         /\ purpose \in {"resume", "seek"} => conn.fresh.required = validator
         /\ purpose = "resume" => conn.fresh.offset = position
         /\ purpose = "open" => conn.fresh.offset = 0 /\ position = 0
    /\ client = "joining" /\ purpose # "close" => conn.fresh.ready

(* The inductive invariant.                                                *)
SourceInv ==
  /\ SourceTypeOK /\ RetriesOK /\ \A c \in Slots : ConnectionOK(conn[c])
  /\ CurrentOK /\ FreshOK /\ AskedFor

-----------------------------------------------------------------------------
(* The queue of a connection                                               *)

LEMMA EmptyQueue ==
  ASSUME NEW body \in Nat, NEW next \in Nat
  PROVE  <<>> \in Seq(Bytes) /\ Len(<<>>) = 0 /\ Consecutive(body, next, <<>>)
BY DEF Consecutive

(* The next byte is put in.                                                *)
LEMMA NextByte ==
  ASSUME NEW body \in Nat, NEW next \in Nat, NEW queue \in Seq(Bytes),
         Consecutive(body, next, queue),
         NEW longer, longer = Append(queue, <<body, next>>)
  PROVE  /\ longer \in Seq(Bytes) /\ Len(longer) = Len(queue) + 1
         /\ Consecutive(body, next + 1, longer)
<1>1. <<body, next>> \in Bytes
  BY DEF Bytes
<1>2. longer \in Seq(Bytes) /\ Len(longer) = Len(queue) + 1 /\ Len(queue) \in Nat
  BY <1>1
<1>3. ASSUME NEW k \in 1 .. Len(longer)
      PROVE  longer[k][1] = body /\ longer[k][2] = next + 1 - Len(longer) + k - 1
  <2>1. CASE k = Len(queue) + 1
    <3>1. longer[k] = <<body, next>>
      BY <1>2, <2>1
    <3>2. longer[k][1] = body /\ longer[k][2] = next
      BY <3>1
    <3> QED
      BY <1>2, <2>1, <3>2
  <2>2. CASE k # Len(queue) + 1
    <3>1. k \in 1 .. Len(queue)
      BY <1>2, <1>3, <2>2
    <3>2. longer[k] = queue[k]
      BY <3>1
    <3> QED
      BY <1>2, <3>1, <3>2 DEF Consecutive
  <2> QED
    BY <2>1, <2>2
<1> QED
  BY <1>2, <1>3 DEF Consecutive

(* Bytes behind the first n.                                               *)
LEMMA Behind ==
  ASSUME NEW body \in Nat, NEW next \in Nat, NEW queue \in Seq(Bytes),
         Consecutive(body, next, queue), NEW n \in 1 .. Len(queue),
         NEW rest \in Seq(Bytes), Len(rest) = Len(queue) - n,
         \A k \in 1 .. Len(rest) : rest[k] = queue[n + k]
  PROVE  Consecutive(body, next, rest)
<1>1. Len(queue) \in Nat /\ n \in Nat /\ Len(rest) \in Nat
  OBVIOUS
<1>2. ASSUME NEW k \in 1 .. Len(rest)
      PROVE  rest[k][1] = body /\ rest[k][2] = next - Len(rest) + k - 1
  <2>1. n + k \in 1 .. Len(queue) /\ rest[k] = queue[n + k]
    BY <1>1, <1>2
  <2>2. queue[n + k][1] = body /\ queue[n + k][2] = next - Len(queue) + (n + k) - 1
    BY <2>1 DEF Consecutive
  <2> QED
    BY <1>1, <2>1, <2>2
<1> QED
  BY <1>1, <1>2 DEF Consecutive

(* The first n bytes are taken out.                                        *)
LEMMA BytesTaken ==
  ASSUME NEW body \in Nat, NEW next \in Nat, NEW queue \in Seq(Bytes),
         Consecutive(body, next, queue), NEW n \in 1 .. Len(queue),
         NEW rest, rest = SubSeq(queue, n + 1, Len(queue))
  PROVE  /\ rest \in Seq(Bytes) /\ Len(rest) = Len(queue) - n
         /\ Consecutive(body, next, rest)
<1>1. Len(queue) \in Nat /\ n \in Nat
  OBVIOUS
<1>2. rest \in Seq(Bytes) /\ Len(rest) = Len(queue) - n
  BY <1>1
<1>3. \A k \in 1 .. Len(rest) : rest[k] = queue[n + k]
  BY <1>1, <1>2
<1> QED
  BY <1>2, <1>3, Behind

-----------------------------------------------------------------------------
(* The worker and the server                                               *)

(* The invariant holds when the first request goes out.                    *)
LEMMA RequestWell ==
  ASSUME NEW offset \in Nat, NEW required \in Nat
  PROVE  /\ Request(offset, required) \in Connections /\ ConnectionOK(Request(offset, required))
         /\ Request(offset, required).worker = "connecting"
         /\ Request(offset, required).offset = offset
         /\ Request(offset, required).required = required
         /\ ~ Request(offset, required).ready
<1>1. <<>> \in Seq(Bytes) /\ Consecutive(0, 0, <<>>)
  BY EmptyQueue
<1> QED
  BY <1>1 DEF Request, Connections, ConnectionOK, Workers, Errors

LEMMA NoConnectionWell ==
  /\ NoConnection \in Connections /\ ConnectionOK(NoConnection)
  /\ NoConnection.worker = "none" /\ ~ NoConnection.ready
<1>1. <<>> \in Seq(Bytes) /\ Consecutive(0, 0, <<>>)
  BY EmptyQueue
<1> QED
  BY <1>1 DEF NoConnection, Request, Connections, ConnectionOK, Workers, Errors

LEMMA SourceInitInv == Init => SourceInv
<1> SUFFICES ASSUME Init PROVE SourceInv
  OBVIOUS
<1>1. /\ conn = [current |-> NoConnection, fresh |-> Request(0, 0)]
      /\ client = "opening" /\ purpose = "open" /\ position = 0 /\ validator = 0
  BY DEF Init
<1>2. /\ conn["current"] = NoConnection /\ conn["fresh"] = Request(0, 0)
      /\ conn \in [Slots -> Connections]
  BY <1>1, RequestWell, NoConnectionWell DEF Slots
<1>3. SourceTypeOK /\ RetriesOK
  <2>1. version \in Nat /\ framed \in BOOLEAN /\ habit \in Habits /\ seekable \in BOOLEAN
        /\ retries = 0 /\ fruitless = 0 /\ lastError = "OK"
    BY DEF Init
  <2> QED
    BY <1>1, <1>2, <2>1 DEF SourceTypeOK, RetriesOK, MaxRetries
<1>4. \A c \in Slots : ConnectionOK(conn[c])
  BY <1>2, RequestWell, NoConnectionWell DEF Slots
<1>5. CurrentOK /\ FreshOK /\ AskedFor
  BY <1>1, <1>2, RequestWell, NoConnectionWell DEF CurrentOK, InUse, FreshOK,
     AskedFor
<1> QED
  BY <1>3, <1>4, <1>5 DEF SourceInv

(* A step of an open connection's worker: bytes go on as they came.        *)
LEMMA ConnectionGoesOn ==
  ASSUME SourceInv, NEW c \in Slots, NEW x \in Connections,
         conn[c].worker # "connecting", x.worker # "connecting",
         x.offset = conn[c].offset, x.required = conn[c].required,
         x.ready = conn[c].ready, x.opened = conn[c].opened,
         x.validator = conn[c].validator, x.body = conn[c].body, x.last = conn[c].last,
         x.next - Len(x.queue) = conn[c].next - Len(conn[c].queue),
         ConnectionOK(x),
         conn' = [conn EXCEPT ![c] = x], UNCHANGED <<server, reader, avio, fruitless>>
  PROVE  SourceInv'
<1> USE DEF SourceInv
<1>1. /\ version' = version /\ framed' = framed /\ habit' = habit /\ client' = client
      /\ purpose' = purpose /\ position' = position /\ seekable' = seekable
      /\ validator' = validator /\ retries' = retries /\ lastError' = lastError
      /\ fruitless' = fruitless
  BY DEF server, reader, avio
<1>2. conn' \in [Slots -> Connections] /\ conn'[c] = x
      /\ \A d \in Slots \ {c} : conn'[d] = conn[d]
  BY DEF SourceTypeOK
<1>3. SourceTypeOK' /\ RetriesOK'
  BY <1>1, <1>2 DEF SourceTypeOK, RetriesOK
<1>4. (\A d \in Slots : ConnectionOK(conn[d]))'
  BY <1>1, <1>2 DEF ConnectionOK
<1>5. \A d \in Slots :
        /\ conn[d] \in Connections /\ conn'[d] \in Connections
        /\ conn'[d].offset = conn[d].offset /\ conn'[d].required = conn[d].required
        /\ conn'[d].ready = conn[d].ready /\ conn'[d].opened = conn[d].opened
        /\ conn'[d].validator = conn[d].validator /\ conn'[d].body = conn[d].body
        /\ conn'[d].last = conn[d].last
        /\ conn'[d].next - Len(conn'[d].queue) = conn[d].next - Len(conn[d].queue)
        /\ conn[d].worker # "connecting" => conn'[d].worker # "connecting"
  BY <1>2 DEF SourceTypeOK
<1>6. \A d \in Slots :
        /\ conn[d].next \in Nat /\ conn'[d].next \in Nat /\ conn[d].offset \in Nat
        /\ Len(conn[d].queue) \in Nat /\ Len(conn'[d].queue) \in Nat
  <2>1. ASSUME NEW y \in Connections
        PROVE  y.next \in Nat /\ y.offset \in Nat /\ Len(y.queue) \in Nat
    BY DEF Connections
  <2> QED
    BY <1>5, <2>1
<1>7. "current" \in Slots /\ "fresh" \in Slots /\ position \in Nat
  BY DEF Slots, SourceTypeOK
<1>8. CurrentOK'
  <2>1. conn'["current"].worker # "connecting"
    BY <1>5, <1>7 DEF CurrentOK
  <2>2. InUse' => InUse
    BY <1>1, <1>5, <1>7 DEF InUse
  <2>3. InUse /\ (validator # 0 \/ habit # "any") =>
          position = conn'["current"].next - Len(conn'["current"].queue)
    BY <1>5, <1>7 DEF CurrentOK
  <2>4. InUse => /\ validator \in {0, conn'["current"].body}
                 /\ habit = "full" => conn'["current"].last = Size
    BY <1>5, <1>7 DEF CurrentOK
  <2> QED
    BY <1>1, <2>1, <2>2, <2>3, <2>4 DEF CurrentOK
<1>9. FreshOK'
  BY <1>1, <1>5, <1>6, <1>7 DEF FreshOK
<1>10. AskedFor'
  BY <1>1, <1>5, <1>7 DEF AskedFor
<1> QED
  BY <1>3, <1>4, <1>8, <1>9, <1>10

(* The handshake of the connection that is being opened ends.              *)
LEMMA ConnectionAnswers ==
  ASSUME SourceInv, NEW c \in Slots, NEW x \in Connections,
         conn[c].worker = "connecting", x.worker # "connecting", x.ready,
         x.offset = conn[c].offset, x.required = conn[c].required,
         x.opened = "OK" => /\ x.offset = 0 \/ x.required # 0 \/ habit # "any" =>
                                 x.offset = x.next - Len(x.queue)
                            /\ habit = "full" => x.last = Size
                            /\ x.required \in {0, x.body} /\ x.validator \in {0, x.body},
         ConnectionOK(x),
         conn' = [conn EXCEPT ![c] = x], UNCHANGED <<server, reader, avio, fruitless>>
  PROVE  SourceInv'
<1> USE DEF SourceInv
<1>1. /\ version' = version /\ framed' = framed /\ habit' = habit /\ client' = client
      /\ purpose' = purpose /\ position' = position /\ seekable' = seekable
      /\ validator' = validator /\ retries' = retries /\ lastError' = lastError
      /\ fruitless' = fruitless
  BY DEF server, reader, avio
<1>2. c = "fresh" /\ "current" \in Slots /\ "fresh" \in Slots /\ "current" # "fresh"
  BY DEF CurrentOK, Slots
<1>3. /\ conn' \in [Slots -> Connections] /\ conn'["fresh"] = x
      /\ conn'["current"] = conn["current"]
      /\ \A d \in Slots \ {c} : conn'[d] = conn[d]
  BY <1>2 DEF SourceTypeOK
<1>4. SourceTypeOK' /\ RetriesOK'
  BY <1>1, <1>3 DEF SourceTypeOK, RetriesOK
<1>5. (\A d \in Slots : ConnectionOK(conn[d]))'
  BY <1>1, <1>2, <1>3 DEF ConnectionOK
<1>6. InUse' => InUse
  <2>1. ~ conn["fresh"].ready
    BY <1>2 DEF ConnectionOK
  <2>2. client = "joining" => purpose \notin {"resume", "seek"}
    BY <2>1 DEF AskedFor
  <2> QED
    BY <1>1, <2>2 DEF InUse
<1>7. CurrentOK'
  BY <1>1, <1>3, <1>6 DEF CurrentOK
<1>8. FreshOK'
  BY <1>1, <1>3 DEF FreshOK
<1>9. AskedFor'
  <2>1. ~ conn["fresh"].ready
    BY <1>2 DEF ConnectionOK
  <2>2. client = "joining" => purpose \notin {"resume", "seek", "open"}
    BY <2>1 DEF AskedFor
  <2>3. client = "joining" => purpose = "close"
    BY <2>1 DEF AskedFor
  <2> QED
    BY <1>1, <1>2, <1>3, <2>2, <2>3 DEF AskedFor
<1> QED
  BY <1>4, <1>5, <1>7, <1>8, <1>9

(* Where a response's bytes start and end.                                 *)
LEMMA CarriedRange ==
  ASSUME NEW status \in Statuses, NEW start \in Int, start >= -1,
         status = 206 <=> start # -1, NEW range \in Carried(status, start)
  PROVE  /\ range[1] \in Nat /\ range[2] \in Nat
         /\ status = 206 => range[1] = start
         /\ status # 206 => range[1] = 0
         /\ status \in {200, 203, 206} /\ habit = "full" => range[2] = Size
<1>1. CASE status = 206
  <2>1. start \in Nat /\ Size \in Nat
    BY <1>1, SourceAssumption
  <2>2. PICK last \in (IF habit = "full" THEN {Size} ELSE start + 1 .. Size) :
               range = <<start, last>>
    BY <1>1 DEF Carried
  <2>3. last \in Nat /\ (habit = "full" => last = Size)
    BY <2>1, <2>2
  <2>4. range[1] = start /\ range[2] = last
    BY <2>2
  <2> QED
    BY <1>1, <2>1, <2>3, <2>4
<1>2. CASE status \in {200, 203}
  <2>1. range = <<0, Size>>
    BY <1>2 DEF Carried
  <2>2. range[1] = 0 /\ range[2] = Size
    BY <2>1
  <2> QED
    BY <1>2, <2>2, SourceAssumption
<1>3. CASE status \notin {200, 203, 206}
  <2>1. range = <<0, 0>>
    BY <1>3 DEF Carried
  <2>2. range[1] = 0 /\ range[2] = 0
    BY <2>1
  <2> QED
    BY <1>3, <2>2
<1> QED
  BY <1>1, <1>2, <1>3

(* The steps of a connection's worker and of the network.                  *)
LEMMA WorkerSteps ==
  ASSUME SourceInv, NEW c \in Slots, NetworkRuns(c) \/ WorkerRuns(c)
  PROVE  SourceInv'
<1>0. /\ conn[c] \in Connections /\ ConnectionOK(conn[c]) /\ version \in Nat
      /\ conn \in [Slots -> Connections] /\ framed \in BOOLEAN
  BY DEF SourceInv, SourceTypeOK
<1>1. /\ conn[c].next \in Nat /\ conn[c].body \in Nat /\ conn[c].queue \in Seq(Bytes)
      /\ Len(conn[c].queue) \in Nat /\ conn[c].offset \in Nat
      /\ Consecutive(conn[c].body, conn[c].next, conn[c].queue)
  BY <1>0 DEF Connections, ConnectionOK
<1>2. ASSUME Responds(c) PROVE SourceInv'
  <2>1. PICK status \in Statuses, sent \in Headers, before \in Headers :
               Respond(c, status, sent, before)
    BY <1>2 DEF Responds
  <2> DEFINE ranged == status = 206 /\ sent.start = conn[c].offset
             X(start, last) ==
               [conn[c] EXCEPT !.worker = "streaming", !.ready = TRUE,
                               !.opened = Verdict(c, status, sent), !.seekable = ranged,
                               !.validator = sent.validator, !.body = version,
                               !.next = start, !.last = last]
  <2>2. /\ conn[c].worker = "connecting" /\ (status = 206 <=> sent.start # -1)
        /\ status \in {203, 204} => habit = "any"
        /\ sent.validator \in {0, version}
        /\ \E range \in Carried(status, sent.start) :
             conn' = [conn EXCEPT ![c] = X(range[1], range[2])]
        /\ UNCHANGED <<server, reader, avio, fruitless>>
    BY <2>1 DEF Respond, HopFields
  <2>3. PICK range \in Carried(status, sent.start) :
               conn' = [conn EXCEPT ![c] = X(range[1], range[2])]
    BY <2>2
  <2>4. /\ sent.start \in Int /\ sent.start >= -1 /\ sent.validator \in Nat
        /\ Verdict(c, status, sent) \in {"OK", "PROTOCOL"} /\ Size \in Nat
    BY SourceAssumption DEF Headers, Verdict
  <2>5. /\ range[1] \in Nat /\ range[2] \in Nat
        /\ status = 206 => range[1] = sent.start
        /\ status # 206 => range[1] = 0
        /\ status \in {200, 203, 206} /\ habit = "full" => range[2] = Size
    BY <2>2, <2>3, <2>4, CarriedRange DEF Statuses
  <2> DEFINE start == range[1]
             last == range[2]
             x == X(start, last)
  <2>6. conn[c].queue = <<>> /\ conn[c].ending = "open"
    BY <1>0, <2>2 DEF ConnectionOK
  <2>7. Verdict(c, status, sent) = "OK" =>
          /\ conn[c].offset = 0 \/ conn[c].required # 0 \/ habit # "any" =>
               start = conn[c].offset
          /\ habit = "full" => last = Size
          /\ conn[c].required \in {0, version}
    <3>1. Verdict(c, status, sent) = "OK" =>
            /\ conn[c].required # 0 => /\ status = 206 /\ sent.validator = conn[c].required
            /\ status = 206 => sent.start = conn[c].offset
            /\ status = 200 => conn[c].offset = 0
            /\ status # 500
      BY DEF Verdict
    <3>2. status \in {200, 203, 204, 206, 500}
      BY DEF Statuses
    <3> QED
      BY <2>2, <2>5, <3>1, <3>2
  <2>8. ranged \in BOOLEAN /\ conn' = [conn EXCEPT ![c] = x]
    BY <2>3
  <2>9. start \in Nat /\ last \in Nat
    BY <2>5
  <2> HIDE DEF ranged, start, last
  <2>10. /\ x \in Connections /\ x.worker = "streaming" /\ x.ready
         /\ x.offset = conn[c].offset /\ x.required = conn[c].required
         /\ x.opened = Verdict(c, status, sent) /\ x.next = start /\ x.last = last
         /\ x.body = version /\ x.queue = <<>> /\ x.validator = sent.validator
         /\ x.ending = "open"
    BY <1>0, <2>4, <2>6, <2>8, <2>9 DEF Connections, Workers, Errors
  <2> HIDE DEF x, X
  <2>11. Consecutive(x.body, x.next, x.queue)
    BY <1>0, <2>9, <2>10, EmptyQueue
  <2>12. ConnectionOK(x)
    BY <2>10, <2>11 DEF ConnectionOK
  <2>13. x.opened = "OK" => /\ x.offset = 0 \/ x.required # 0 \/ habit # "any" =>
                                 x.offset = x.next - Len(x.queue)
                            /\ habit = "full" => x.last = Size
                            /\ x.required \in {0, x.body} /\ x.validator \in {0, x.body}
    <3>1. Len(x.queue) = 0
      BY <2>10, EmptyQueue
    <3> QED
      BY <1>1, <2>2, <2>7, <2>9, <2>10, <3>1
  <2> QED
    BY <2>2, <2>8, <2>10, <2>12, <2>13, ConnectionAnswers
<1>3. ASSUME NEW error \in Errors, ConnectFails(c, error) PROVE SourceInv'
  <2> DEFINE x == [Ended(c, error) EXCEPT !.ready = TRUE, !.opened = error]
  <2>1. /\ conn[c].worker = "connecting" /\ conn' = [conn EXCEPT ![c] = x]
        /\ UNCHANGED <<server, reader, avio, fruitless>>
    BY <1>3 DEF ConnectFails
  <2>2. /\ x \in Connections /\ x.worker = "done" /\ x.ready /\ x.opened # "OK"
        /\ x.offset = conn[c].offset /\ x.required = conn[c].required
        /\ x.body = conn[c].body /\ x.next = conn[c].next /\ x.queue = conn[c].queue
        /\ x.last = conn[c].last /\ x.ending \in {conn[c].ending, error}
    BY <1>0, <1>3 DEF Ended, Connections, Workers, Errors
  <2> HIDE DEF x
  <2>3. ConnectionOK(x)
    BY <1>0, <2>1, <2>2 DEF ConnectionOK, Errors
  <2> QED
    BY <2>1, <2>2, <2>3, ConnectionAnswers
<1>4. ASSUME Arrives(c) \/ CallbackAborts(c) PROVE SourceInv'
  <2>1. PICK w \in {"callback", "done"} :
               /\ conn[c].worker # "connecting" /\ conn' = [conn EXCEPT ![c].worker = w]
               /\ w = "callback" => conn[c].worker = "streaming"
               /\ UNCHANGED <<server, reader, avio, fruitless>>
    BY <1>4 DEF Arrives, CallbackAborts
  <2> DEFINE x == [conn[c] EXCEPT !.worker = w]
  <2>2. /\ x \in Connections /\ x.worker # "connecting" /\ x.ready = conn[c].ready
        /\ x.opened = conn[c].opened /\ x.validator = conn[c].validator
        /\ x.offset = conn[c].offset /\ x.required = conn[c].required
        /\ x.body = conn[c].body /\ x.next = conn[c].next /\ x.queue = conn[c].queue
        /\ x.last = conn[c].last /\ x.ending = conn[c].ending /\ x.worker = w
        /\ conn' = [conn EXCEPT ![c] = x]
    BY <1>0, <2>1 DEF Connections, Workers
  <2> HIDE DEF x
  <2>3. ConnectionOK(x)
    BY <1>0, <2>1, <2>2 DEF ConnectionOK
  <2> QED
    BY <2>1, <2>2, <2>3, ConnectionGoesOn
<1>5. ASSUME CallbackWrites(c) PROVE SourceInv'
  <2> DEFINE longer == Append(conn[c].queue, <<conn[c].body, conn[c].next>>)
             further == conn[c].next + 1
             x == [conn[c] EXCEPT !.worker = "streaming", !.next = further,
                                  !.queue = longer]
  <2>1. /\ conn[c].worker = "callback" /\ conn' = [conn EXCEPT ![c] = x]
        /\ UNCHANGED <<server, reader, avio, fruitless>>
    BY <1>5 DEF CallbackWrites
  <2> HIDE DEF x
  <2>2. /\ longer \in Seq(Bytes) /\ Len(longer) = Len(conn[c].queue) + 1
        /\ Consecutive(conn[c].body, conn[c].next + 1, longer)
    BY <1>1, NextByte
  <2>3. further \in Nat /\ Consecutive(conn[c].body, further, longer)
    BY <1>1, <2>2
  <2> HIDE DEF longer
  <2>4. further - Len(longer) = conn[c].next - Len(conn[c].queue)
    <3>1. conn[c].next \in Nat /\ Len(conn[c].queue) \in Nat
      BY <1>1
    <3>2. Len(longer) = Len(conn[c].queue) + 1
      BY <2>2
    <3> HIDE DEF longer
    <3> QED
      BY <3>1, <3>2
  <2> HIDE DEF further
  <2>5. x \in Connections
    BY <1>0, <2>2, <2>3 DEF Connections, Workers, x
  <2>6. /\ x.worker = "streaming" /\ x.ready = conn[c].ready
        /\ x.opened = conn[c].opened /\ x.validator = conn[c].validator
        /\ x.offset = conn[c].offset /\ x.required = conn[c].required
        /\ x.body = conn[c].body /\ x.next = further /\ x.queue = longer
        /\ x.last = conn[c].last /\ x.ending = conn[c].ending
    BY <1>0 DEF Connections, x
  <2>7. ConnectionOK(x)
    BY <1>0, <2>1, <2>3, <2>6 DEF ConnectionOK
  <2> QED
    BY <2>1, <2>4, <2>5, <2>6, <2>7, ConnectionGoesOn
<1>6. ASSUME NEW error \in Errors, BodyEnds(c) \/ Breaks(c, error) PROVE SourceInv'
  <2>1. PICK end \in {"eof"} \union Errors :
               /\ conn[c].worker = "streaming" /\ conn' = [conn EXCEPT ![c] = Ended(c, end)]
               /\ UNCHANGED <<server, reader, avio, fruitless>>
               /\ framed /\ end = "eof" => conn[c].next = conn[c].last
    BY <1>6 DEF BodyEnds, Breaks, Errors
  <2> DEFINE x == Ended(c, end)
  <2>2. /\ x \in Connections /\ x.worker = "done" /\ x.ready = conn[c].ready
        /\ x.opened = conn[c].opened /\ x.validator = conn[c].validator
        /\ x.offset = conn[c].offset /\ x.required = conn[c].required
        /\ x.body = conn[c].body /\ x.next = conn[c].next /\ x.queue = conn[c].queue
        /\ x.last = conn[c].last /\ x.ending \in {conn[c].ending, end}
    BY <1>0 DEF Ended, Connections, Workers
  <2> HIDE DEF x
  <2>3. ConnectionOK(x)
    BY <1>0, <2>1, <2>2 DEF ConnectionOK
  <2>4. conn' = [conn EXCEPT ![c] = x]
    BY <2>1 DEF x
  <2> QED
    BY <2>1, <2>2, <2>3, <2>4, ConnectionGoesOn
<1> QED
  BY <1>2, <1>3, <1>4, <1>5, <1>6 DEF NetworkRuns, WorkerRuns, Errors

-----------------------------------------------------------------------------
(* The reader                                                              *)

(* What the invariant says of the two connections' types.                  *)
LEMMA TwoConnections ==
  ASSUME SourceInv
  PROVE  /\ "current" \in Slots /\ "fresh" \in Slots /\ "current" # "fresh"
         /\ conn \in [Slots -> Connections]
         /\ conn["current"] \in Connections /\ conn["fresh"] \in Connections
         /\ ConnectionOK(conn["current"]) /\ ConnectionOK(conn["fresh"])
         /\ position \in Nat /\ validator \in Nat /\ seekable \in BOOLEAN
         /\ \A c \in Slots : c = "current" \/ c = "fresh"
BY DEF SourceInv, SourceTypeOK, Slots

(* A step of the reader is right when the two connections that it leaves   *)
(* are.                                                                    *)
LEMMA ReaderStep ==
  ASSUME SourceInv, NEW x \in Connections, NEW y \in Connections,
         conn' \in [Slots -> Connections], conn'["current"] = x, conn'["fresh"] = y,
         ConnectionOK(x), ConnectionOK(y), UNCHANGED server,
         RetriesOK', CurrentOK', FreshOK', AskedFor',
         client' \in {"idle", "reading", "opening", "joining", "closed"},
         purpose' \in {"none", "open", "resume", "seek", "close"},
         position' \in Nat, seekable' \in BOOLEAN, validator' \in Nat,
         lastError' \in {"OK"} \union Errors
  PROVE  SourceInv'
<1>1. version' = version /\ framed' = framed /\ habit' = habit
  BY DEF server
<1>2. SourceTypeOK'
  BY <1>1 DEF SourceInv, SourceTypeOK
<1>3. (\A c \in Slots : ConnectionOK(conn[c]))'
  <2>1. ConnectionOK(x)' /\ ConnectionOK(y)'
    BY <1>1 DEF ConnectionOK
  <2> QED
    BY <2>1, TwoConnections DEF ConnectionOK
<1> QED
  BY <1>2, <1>3 DEF SourceInv
(* The call returns or reads on, and another connection is given up at     *)
(* most.                                                                   *)
LEMMA ReadsOn ==
  ASSUME SourceInv, InUse, NEW y \in {conn["fresh"], NoConnection},
         conn' = [conn EXCEPT !["fresh"] = y],
         client' \in {"idle", "reading"}, purpose' \in {"none", purpose},
         UNCHANGED <<server, position, seekable, validator, retries, fruitless>>,
         lastError' \in {"OK"} \union Errors
  PROVE  SourceInv'
<1>1. y \in Connections /\ ConnectionOK(y) /\ (y.ready => y = conn["fresh"])
  BY TwoConnections, NoConnectionWell
<1>2. /\ conn' \in [Slots -> Connections]
      /\ conn'["current"] = conn["current"] /\ conn'["fresh"] = y
  BY <1>1, TwoConnections
<1>3. RetriesOK' /\ CurrentOK' /\ AskedFor'
  BY <1>2 DEF SourceInv, RetriesOK, CurrentOK, AskedFor, server
<1>4. FreshOK'
  BY <1>1, <1>2 DEF SourceInv, FreshOK, server
<1>5. purpose' \in {"none", "open", "resume", "seek", "close"}
  BY DEF SourceInv, SourceTypeOK
<1> QED
  BY <1>1, <1>2, <1>3, <1>4, <1>5, TwoConnections, ReaderStep

(* A connection is opened, to read on where the reader is or elsewhere.    *)
LEMMA Opens ==
  ASSUME SourceInv, InUse, NEW why \in {"resume", "seek"}, NEW offset \in Nat,
         why = "resume" => offset = position, Open(why, offset),
         UNCHANGED <<server, position, seekable, validator, lastError>>, RetriesOK'
  PROVE  SourceInv'
<1> DEFINE y == Request(offset, validator)
<1>1. /\ y \in Connections /\ ConnectionOK(y) /\ y.worker = "connecting"
      /\ y.offset = offset /\ y.required = validator /\ ~ y.ready
  BY TwoConnections, RequestWell
<1>2. conn' = [conn EXCEPT !["fresh"] = y] /\ client' = "opening" /\ purpose' = why
  BY DEF Open
<1> HIDE DEF y
<1>3. /\ conn' \in [Slots -> Connections]
      /\ conn'["current"] = conn["current"] /\ conn'["fresh"] = y
  BY <1>1, <1>2, TwoConnections
<1>4. CurrentOK' /\ FreshOK' /\ AskedFor'
  BY <1>1, <1>2, <1>3 DEF SourceInv, CurrentOK, FreshOK, AskedFor, server
<1>5. lastError \in {"OK"} \union Errors
  BY DEF SourceInv, SourceTypeOK
<1> QED
  BY <1>1, <1>2, <1>3, <1>4, <1>5, TwoConnections, ReaderStep

(* A round of the retries, or their end.                                   *)
LEMMA TryResumeWell ==
  ASSUME SourceInv, InUse, NEW error \in Errors, TryResume(error), UNCHANGED server
  PROVE  SourceInv'
<1>1. CASE retries < MaxRetries
  <2>1. /\ Open("resume", position) /\ retries' = retries + 1 /\ fruitless' = fruitless + 1
        /\ UNCHANGED <<position, seekable, validator, lastError>>
    BY <1>1 DEF TryResume
  <2>2. RetriesOK'
    BY <1>1, <2>1 DEF SourceInv, RetriesOK, MaxRetries
  <2> QED
    BY <2>1, <2>2, TwoConnections, Opens
<1>2. CASE ~ retries < MaxRetries
  <2>1. /\ conn' = [conn EXCEPT !["fresh"] = NoConnection]
        /\ client' = "idle" /\ purpose' = "none" /\ lastError' = error
        /\ UNCHANGED <<server, position, seekable, validator, retries, fruitless>>
    BY <1>2 DEF TryResume, GiveUp, Rest
  <2> QED
    BY <2>1, ReadsOn
<1> QED
  BY <1>1, <1>2

(* A connection is cancelled, and nobody reads on from it.                 *)
LEMMA Cancels ==
  ASSUME SourceInv, NEW c \in Slots, conn' = Cancelled(c), client' = "joining",
         UNCHANGED <<server, avio, fruitless>>,
         \/ purpose' = "close" /\ c = "current"
         \/ /\ purpose' = purpose /\ client = "opening" /\ conn["fresh"].ready
            /\ conn["fresh"].opened = "OK" => purpose # "open"
            /\ c = "current" <=> conn["fresh"].opened = "OK"
  PROVE  SourceInv'
<1> DEFINE z == [NoConnection EXCEPT !.worker = conn[c].worker, !.ready = conn[c].ready,
                                     !.opened = conn[c].opened, !.next = conn[c].next,
                                     !.last = conn[c].last, !.cancelled = TRUE]
<1>1. conn[c] \in Connections /\ ConnectionOK(conn[c])
  BY TwoConnections
<1>2. /\ conn[c].next \in Nat /\ <<>> \in Seq(Bytes)
      /\ Consecutive(0, conn[c].next, <<>>)
  BY <1>1, EmptyQueue DEF Connections
<1>3. /\ z \in Connections /\ z.worker = conn[c].worker /\ z.ready = conn[c].ready
      /\ z.opened = conn[c].opened /\ z.body = 0 /\ z.next = conn[c].next
      /\ z.queue = <<>> /\ z.ending = "open"
  BY <1>1, <1>2 DEF NoConnection, Request, Connections
<1>4. conn' = [conn EXCEPT ![c] = z]
  BY DEF Cancelled
<1> HIDE DEF z
<1>5. ConnectionOK(z)
  BY <1>1, <1>2, <1>3 DEF ConnectionOK
<1>6. /\ conn' \in [Slots -> Connections] /\ conn'[c] = z
      /\ \A d \in Slots : d # c => conn'[d] = conn[d]
  BY <1>3, <1>4, TwoConnections
<1>7. /\ ConnectionOK(conn'["current"]) /\ ConnectionOK(conn'["fresh"])
      /\ conn'["current"] \in Connections /\ conn'["fresh"] \in Connections
  BY <1>3, <1>5, <1>6, TwoConnections
<1>8. /\ position' = position /\ seekable' = seekable /\ validator' = validator
      /\ retries' = retries /\ lastError' = lastError /\ fruitless' = fruitless
  BY DEF avio
<1>9. \A d \in Slots :
        /\ conn'[d].ready = conn[d].ready /\ conn'[d].opened = conn[d].opened
        /\ conn'[d].worker = conn[d].worker
  BY <1>3, <1>6
<1>10. RetriesOK' /\ AskedFor'
  <2>1. RetriesOK'
    BY <1>8 DEF SourceInv, RetriesOK
  <2>2. conn'["fresh"].ready = conn["fresh"].ready /\ conn'["fresh"].opened = conn["fresh"].opened
    BY <1>9, TwoConnections
  <2>3. CASE purpose' = "close"
    BY <2>1, <2>3 DEF AskedFor
  <2>4. CASE purpose' # "close"
    <3>1. c # "fresh" => conn'["fresh"] = conn["fresh"]
      BY <1>6, TwoConnections
    <3>2. conn["fresh"].opened = "OK" => conn'["fresh"] = conn["fresh"]
      BY <2>4, <3>1, TwoConnections
    <3> QED
      BY <1>8, <2>1, <2>2, <2>4, <3>2 DEF SourceInv, AskedFor
  <2> QED
    BY <2>3, <2>4
<1>11. CurrentOK'
  <2>1. conn'["current"].worker # "connecting"
    BY <1>9, TwoConnections DEF SourceInv, CurrentOK
  <2>2. InUse' => InUse /\ c # "current"
    BY <1>9, TwoConnections DEF InUse
  <2>3. c # "current" => conn'["current"] = conn["current"]
    BY <1>6, TwoConnections
  <2> QED
    BY <1>8, <2>1, <2>2, <2>3 DEF SourceInv, CurrentOK, server
<1>12. FreshOK'
  <2>1. c = "fresh" => conn["fresh"].opened # "OK"
    BY TwoConnections
  <2>2. c = "current" => conn'["fresh"] = conn["fresh"]
    BY <1>6, TwoConnections
  <2> QED
    BY <1>9, <2>1, <2>2, TwoConnections DEF SourceInv, FreshOK, server
<1>13. /\ lastError \in {"OK"} \union Errors
       /\ purpose' \in {"none", "open", "resume", "seek", "close"}
  BY DEF SourceInv, SourceTypeOK
<1> QED
  BY <1>6, <1>7, <1>8, <1>10, <1>11, <1>12, <1>13, TwoConnections, ReaderStep

(* The connection that has been opened takes the other's place.            *)
LEMMA Replaces ==
  ASSUME SourceInv, conn["fresh"].ready, conn["fresh"].opened = "OK", conn' = Replaced,
         client' \in {"idle", "reading"}, purpose' \in {"none", purpose},
         position' = conn["fresh"].offset, seekable' \in BOOLEAN,
         \/ validator' = conn["fresh"].required
         \/ validator' = conn["fresh"].validator /\ conn["fresh"].offset = 0,
         UNCHANGED <<server, retries, lastError, fruitless>>
  PROVE  SourceInv'
<1> DEFINE old == conn["fresh"]
           x == [old EXCEPT !.offset = 0, !.required = 0, !.seekable = FALSE, !.validator = 0]
<1>1. /\ old \in Connections /\ ConnectionOK(old) /\ old.worker # "connecting"
      /\ old.offset = 0 \/ old.required # 0 \/ habit # "any" =>
           old.offset = old.next - Len(old.queue)
      /\ old.offset \in Nat /\ (habit = "full" => old.last = Size)
      /\ old.required \in {0, old.body} /\ old.validator \in {0, old.body}
      /\ old.required \in Nat /\ old.validator \in Nat
  <2>1. old \in Connections /\ ConnectionOK(old)
    BY TwoConnections
  <2> QED
    BY <2>1 DEF SourceInv, FreshOK, ConnectionOK, Connections
<1>2. conn' = [current |-> x, fresh |-> NoConnection]
  BY DEF Replaced
<1> HIDE DEF old
<1>3. /\ x \in Connections /\ x.worker = old.worker /\ x.body = old.body
      /\ x.next = old.next /\ x.last = old.last /\ x.queue = old.queue
      /\ x.ending = old.ending /\ x.ready = old.ready
  BY <1>1 DEF Connections
<1> HIDE DEF x
<1>4. ConnectionOK(x)
  BY <1>1, <1>3 DEF ConnectionOK
<1>5. /\ conn' \in [Slots -> Connections]
      /\ conn'["current"] = x /\ conn'["fresh"] = NoConnection
  BY <1>2, <1>3, NoConnectionWell DEF Slots
<1>6. CurrentOK'
  <2>1. validator' \in {0, x.body} /\ habit' = habit
    BY <1>1, <1>3 DEF old, server
  <2>2. validator' # 0 \/ habit # "any" => position' = x.next - Len(x.queue)
    BY <1>1, <1>3 DEF old
  <2> QED
    BY <1>1, <1>3, <1>5, <2>1, <2>2 DEF CurrentOK
<1>7. RetriesOK' /\ FreshOK' /\ AskedFor'
  BY <1>5, NoConnectionWell DEF SourceInv, RetriesOK, FreshOK, AskedFor
<1>8. position' \in Nat /\ validator' \in Nat
  BY <1>1 DEF old
<1>9. /\ lastError' \in {"OK"} \union Errors
      /\ purpose' \in {"none", "open", "resume", "seek", "close"}
  BY DEF SourceInv, SourceTypeOK
<1> QED
  BY <1>3, <1>4, <1>5, <1>6, <1>7, <1>8, <1>9, NoConnectionWell, ReaderStep
(* The reader takes bytes out of its queue.                                *)
LEMMA ReadsData ==
  ASSUME SourceInv, NEW n \in 1 .. Len(conn["current"].queue), ReadData(n)
  PROVE  SourceInv'
<1> DEFINE old == conn["current"]
           rest == SubSeq(old.queue, n + 1, Len(old.queue))
           x == [old EXCEPT !.queue = rest]
<1>1. /\ client = "reading" /\ client' = "idle" /\ purpose' = "none"
      /\ conn' = [conn EXCEPT !["current"] = x]
      /\ position' = position + n /\ retries' = 0 /\ fruitless' = 0
      /\ UNCHANGED <<server, seekable, validator, lastError>>
  BY DEF ReadData, Rest
<1>2. /\ old \in Connections /\ ConnectionOK(old) /\ old.worker # "connecting"
      /\ validator # 0 \/ habit # "any" => position = old.next - Len(old.queue)
      /\ validator \in {0, old.body} /\ (habit = "full" => old.last = Size)
  BY <1>1, TwoConnections DEF SourceInv, CurrentOK, InUse
<1>3. /\ old.body \in Nat /\ old.next \in Nat /\ old.queue \in Seq(Bytes)
      /\ Len(old.queue) \in Nat /\ Consecutive(old.body, old.next, old.queue)
  BY <1>2 DEF ConnectionOK, Connections
<1>4. n \in 1 .. Len(old.queue)
  OBVIOUS
<1> HIDE DEF old
<1>5. /\ rest \in Seq(Bytes) /\ Len(rest) = Len(old.queue) - n
      /\ Consecutive(old.body, old.next, rest)
  BY <1>3, <1>4, BytesTaken
<1> HIDE DEF rest
<1>6. /\ validator # 0 \/ habit # "any" => position + n = old.next - Len(rest)
      /\ position + n \in Nat
  BY <1>2, <1>3, <1>4, <1>5, TwoConnections
<1>7. /\ x \in Connections /\ x.worker = old.worker /\ x.body = old.body
      /\ x.next = old.next /\ x.last = old.last /\ x.queue = rest
      /\ x.ending = old.ending /\ x.ready = old.ready
  BY <1>2, <1>5 DEF Connections
<1> HIDE DEF x
<1>8. ConnectionOK(x)
  <2>1. old.worker # "connecting"
    BY <1>2
  <2> QED
    BY <1>2, <1>5, <1>7, <2>1 DEF ConnectionOK
<1>9. /\ conn' \in [Slots -> Connections]
      /\ conn'["current"] = x /\ conn'["fresh"] = conn["fresh"]
  BY <1>1, <1>7, TwoConnections
<1>10. CurrentOK'
  BY <1>1, <1>2, <1>6, <1>7, <1>9 DEF CurrentOK, server
<1>11. RetriesOK' /\ FreshOK' /\ AskedFor'
  BY <1>1, <1>9 DEF SourceInv, RetriesOK, MaxRetries, FreshOK, AskedFor, server
<1>12. lastError \in {"OK"} \union Errors
  BY DEF SourceInv, SourceTypeOK
<1> QED
  BY <1>1, <1>6, <1>7, <1>8, <1>9, <1>10, <1>11, <1>12, TwoConnections,
     ReaderStep

(* The reader's calls and their steps.                                     *)
LEMMA ReaderSteps ==
  ASSUME SourceInv, ReaderCalls \/ ReaderRuns
  PROVE  SourceInv'
<1>1. /\ conn = [conn EXCEPT !["fresh"] = conn["fresh"]]
      /\ lastError \in {"OK"} \union Errors
  BY TwoConnections DEF SourceInv, SourceTypeOK
<1>2. CASE Read
  BY <1>1, <1>2, ReadsOn DEF Read, avio, InUse
<1>3. CASE Close
  BY <1>3, TwoConnections, Cancels DEF Close
<1>4. ASSUME NEW t \in 0 .. Size, Seek(t) PROVE SourceInv'
  <2>1. InUse /\ Open("seek", t) /\ UNCHANGED <<server, avio, fruitless>>
    BY <1>4 DEF Seek, InUse
  <2>2. RetriesOK'
    BY <2>1 DEF SourceInv, RetriesOK, avio
  <2>3. t \in Nat
    BY SourceAssumption
  <2> QED
    BY <2>1, <2>2, <2>3, Opens DEF avio
<1>5. ASSUME NEW n \in 1 .. Len(conn.current.queue), ReadData(n) PROVE SourceInv'
  BY <1>5, ReadsData
<1>6. CASE ReadEof
  BY <1>1, <1>6, ReadsOn DEF ReadEof, Drained, Rest, avio, InUse
<1>7. CASE ReadFails
  BY <1>1, <1>7, ReadsOn DEF ReadFails, Drained, GiveUp, Rest, Errors, InUse
<1>8. CASE ReadLosesConnection
  <2>1. InUse /\ UNCHANGED server
    BY <1>8 DEF ReadLosesConnection, Drained, InUse
  <2>2. CASE seekable /\ validator # 0
    BY <1>8, <2>1, <2>2, TryResumeWell DEF ReadLosesConnection, Errors
  <2>3. CASE ~ (seekable /\ validator # 0)
    BY <1>1, <1>8, <2>1, <2>3, ReadsOn DEF ReadLosesConnection, GiveUp, Rest,
       Errors
  <2> QED
    BY <2>2, <2>3
<1>9. CASE FirstOpenSucceeds
  <2>1. /\ client = "opening" /\ purpose = "open" /\ conn["fresh"].ready
        /\ conn["fresh"].opened = "OK" /\ conn' = Replaced /\ client' = "idle"
        /\ purpose' = "none" /\ seekable' = conn["fresh"].seekable
        /\ validator' = conn["fresh"].validator
        /\ UNCHANGED <<server, position, retries, lastError, fruitless>>
    BY <1>9 DEF FirstOpenSucceeds, Rest
  <2>2. /\ position' = conn["fresh"].offset /\ conn["fresh"].offset = 0
        /\ conn["fresh"].seekable \in BOOLEAN
    BY <2>1, TwoConnections DEF SourceInv, AskedFor, Connections
  <2> QED
    BY <2>1, <2>2, Replaces
<1>10. CASE OpenReturns
  BY <1>10, TwoConnections, Cancels DEF OpenReturns
<1>11. CASE ResumeSucceeds
  <2>1. /\ client = "joining" /\ purpose = "resume" /\ conn["fresh"].opened = "OK"
        /\ conn' = Replaced /\ client' = "reading"
        /\ UNCHANGED <<server, purpose, avio, fruitless>>
    BY <1>11 DEF ResumeSucceeds, Joined
  <2>2. /\ conn["fresh"].ready /\ conn["fresh"].offset = position
        /\ conn["fresh"].required = validator
    BY <2>1 DEF SourceInv, AskedFor
  <2> QED
    BY <2>1, <2>2, TwoConnections, Replaces DEF avio
<1>12. CASE ResumeFails
  <2>1. /\ client = "joining" /\ purpose = "resume" /\ conn["fresh"].opened # "OK"
        /\ UNCHANGED server
    BY <1>12 DEF ResumeFails, Joined
  <2>2. InUse
    BY <2>1 DEF InUse
  <2>3. CASE conn["fresh"].opened = "PROTOCOL"
    BY <1>12, <2>1, <2>2, <2>3, ReadsOn DEF ResumeFails, GiveUp, Rest, Errors
  <2>4. CASE conn["fresh"].opened # "PROTOCOL"
    <3>1. conn["fresh"].opened \in Errors
      BY <2>1, TwoConnections DEF Connections
    <3> QED
      BY <1>12, <2>1, <2>2, <2>4, <3>1, TryResumeWell DEF ResumeFails
  <2> QED
    BY <2>3, <2>4
<1>13. CASE SeekSucceeds
  <2>1. /\ client = "joining" /\ purpose = "seek" /\ conn["fresh"].opened = "OK"
        /\ conn' = Replaced /\ client' = "idle" /\ purpose' = "none"
        /\ position' = conn["fresh"].offset
        /\ UNCHANGED <<server, seekable, validator, retries, lastError, fruitless>>
    BY <1>13 DEF SeekSucceeds, Joined, Rest
  <2>2. conn["fresh"].ready /\ conn["fresh"].required = validator
    BY <2>1 DEF SourceInv, AskedFor
  <2> QED
    BY <2>1, <2>2, TwoConnections, Replaces
<1>14. CASE SeekFails
  <2>1. /\ client = "joining" /\ purpose = "seek" /\ conn["fresh"].opened # "OK"
        /\ conn' = [conn EXCEPT !["fresh"] = NoConnection] /\ client' = "idle"
        /\ purpose' = "none" /\ UNCHANGED <<server, avio, fruitless>>
    BY <1>14 DEF SeekFails, Joined, Rest
  <2> QED
    BY <1>1, <2>1, ReadsOn DEF InUse, avio
<1>15. CASE ClosesForGood
  <2>1. /\ conn' = [c \in Slots |-> NoConnection] /\ client' = "closed"
        /\ UNCHANGED <<server, purpose, avio, fruitless>>
    BY <1>15 DEF ClosesForGood
  <2>2. /\ conn' \in [Slots -> Connections]
        /\ conn'["current"] = NoConnection /\ conn'["fresh"] = NoConnection
    BY <2>1, NoConnectionWell, TwoConnections
  <2>3. RetriesOK' /\ CurrentOK' /\ FreshOK' /\ AskedFor'
    BY <2>1, <2>2, NoConnectionWell
       DEF SourceInv, RetriesOK, CurrentOK, InUse, FreshOK, AskedFor, avio
  <2>4. purpose \in {"none", "open", "resume", "seek", "close"}
    BY DEF SourceInv, SourceTypeOK
  <2> QED
    BY <1>1, <2>1, <2>2, <2>3, <2>4, NoConnectionWell, TwoConnections,
       ReaderStep DEF avio
<1> QED
  BY <1>2, <1>3, <1>4, <1>5, <1>6, <1>7, <1>8, <1>9, <1>10, <1>11, <1>12,
     <1>13, <1>14, <1>15 DEF ReaderCalls, ReaderRuns

LEMMA SourceStepInv == SourceInv /\ [Next]_vars => SourceInv'
<1> SUFFICES ASSUME SourceInv, [Next]_vars PROVE SourceInv'
  OBVIOUS
<1>1. CASE ReaderCalls \/ ReaderRuns
  BY <1>1, ReaderSteps
<1>2. CASE ResourceChanges
  <2>1. version' \in Nat /\ UNCHANGED <<framed, habit, conn, reader, avio, fruitless>>
    BY <1>2 DEF ResourceChanges, SourceInv, SourceTypeOK
  <2> QED
    BY <2>1 DEF SourceInv, SourceTypeOK, RetriesOK, ConnectionOK, CurrentOK,
       InUse, FreshOK,
                AskedFor, reader, avio
<1>3. ASSUME NEW c \in Slots, NetworkRuns(c) \/ WorkerRuns(c) PROVE SourceInv'
  BY <1>3, WorkerSteps
<1>4. CASE UNCHANGED vars
  BY <1>4 DEF vars, server, reader, avio, SourceInv, SourceTypeOK, RetriesOK,
     ConnectionOK,
              CurrentOK, InUse, FreshOK, AskedFor
<1> QED
  BY <1>1, <1>2, <1>3, <1>4 DEF Next

LEMMA SourceInvariant == LocalSpec => []SourceInv
BY SourceInitInv, SourceStepInv, PTL DEF LocalSpec

-----------------------------------------------------------------------------
(* The theorems                                                            *)

(* A read never takes bytes of another version of a resource that has a    *)
(* validator, and takes those that follow the last one's, through drops    *)
(* and resumes (http_avio.c: try_resume) and seeks; without a validator as *)
(* long as the server answers with none of the 2xx statuses that           *)
(* http_header_callback accepts unseen.                                    *)
THEOREM NeverASplice == LocalSpec => []NoGapNoSplice
<1>1. SourceInv => NoGapNoSplice
  <2> SUFFICES ASSUME SourceInv, client \in {"idle", "reading"},
                      NEW k \in DOMAIN conn["current"].queue
               PROVE  /\ validator \in {0, conn["current"].queue[k][1]}
                      /\ validator # 0 \/ habit # "any" =>
                           conn["current"].queue[k][2] = position + k - 1
    BY DEF NoGapNoSplice
  <2> DEFINE now == conn["current"]
  <2>1. /\ validator # 0 \/ habit # "any" => position = now.next - Len(now.queue)
        /\ validator \in {0, now.body} /\ position \in Nat
        /\ now.next \in Nat /\ now.queue \in Seq(Bytes)
        /\ Consecutive(now.body, now.next, now.queue)
    BY TwoConnections DEF SourceInv, CurrentOK, InUse, ConnectionOK, Connections
  <2>2. k \in 1 .. Len(now.queue)
    BY <2>1
  <2>3. now.queue[k][1] = now.body /\ now.queue[k][2] = now.next - Len(now.queue) + k - 1
    BY <2>1, <2>2 DEF Consecutive
  <2> QED
    BY <2>1, <2>3
<1> QED
  BY <1>1, SourceInvariant, PTL

(* avio_read_packet: a lost connection never looks like a clean end of the *)
(* stream, where responses tell where they end: all that the response      *)
(* carries has been read, which is all of the resource with a server that  *)
(* sends what it is asked for.                                             *)
THEOREM LossNeverLooksLikeEnd == LocalSpec => []LossIsNotTheEnd
<1>1. SourceInv => LossIsNotTheEnd
  <2> SUFFICES ASSUME SourceInv, framed, Drained("eof")
               PROVE  /\ conn["current"].next = conn["current"].last
                      /\ habit = "full" => position = Size
    BY DEF LossIsNotTheEnd
  <2>1. /\ habit = "full" => position = conn["current"].next - Len(conn["current"].queue)
        /\ conn["current"].queue = <<>> /\ conn["current"].next \in Nat
        /\ conn["current"].next = conn["current"].last
        /\ habit = "full" => conn["current"].last = Size
    BY TwoConnections DEF Drained, SourceInv, CurrentOK, InUse, ConnectionOK,
       Connections
  <2>2. Len(conn["current"].queue) = 0
    BY <2>1, EmptyQueue
  <2> QED
    BY <2>1, <2>2
<1> QED
  BY <1>1, SourceInvariant, PTL

(* CRTMEDIA_HTTP_MAX_CONSECUTIVE_RETRIES: at most three connections are    *)
(* made to resume between two bytes.                                       *)
THEOREM RetriesStop == LocalSpec => []RetriesBounded
<1>1. SourceInv => RetriesBounded
  BY DEF SourceInv, RetriesOK, RetriesBounded, MaxRetries
<1> QED
  BY <1>1, SourceInvariant, PTL
=============================================================================
