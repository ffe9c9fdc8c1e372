----------------------------- MODULE HttpSource -----------------------------
(***************************************************************************)
(* The HTTP source of libcrtmedia: http_transport.c, one GET request whose *)
(* body a worker thread moves into a transport queue, and http_avio.c, the *)
(* byte stream a demuxer reads from it, which reopens the resource after a *)
(* lost connection and to seek.  The queue is taken at the level of the    *)
(* byte stream that it implements (module TransportQueue).                 *)
(*                                                                         *)
(* curl and the server are external.  The server describes truly what it   *)
(* sends but is free otherwise: it may ignore Range and If-Range, redirect *)
(* with any headers, refuse, stall and drop connections, replace the       *)
(* resource by its next version and, as its habit is, send less than was   *)
(* asked for.  Byte i of version v is <<v, i>>, and the validator (strong  *)
(* ETag or date) of version v is v, 0 being none.                          *)
(***************************************************************************)
EXTENDS Integers, Sequences

CONSTANTS Size,        (* bytes of the resource, in every version          *)
          Versions,    (* bound on the versions in a run                   *)
          Capacity     (* of a connection's queue                          *)

ASSUME SourceAssumption == Size \in Nat /\ Versions \in Nat

MaxRetries == 3        (* CRTMEDIA_HTTP_MAX_CONSECUTIVE_RETRIES            *)

VARIABLES
  version, framed,     (* the server: the resource's version, whether its  *)
                       (*   responses tell where they end, and             *)
  habit,               (*   "full": it answers 200, 206 up to the end of   *)
                       (*     the resource, or with an error,              *)
                       (*   "short": a 206 may end before the resource,    *)
                       (*   "any": and it answers with any 2xx status      *)
  conn,                (* the connection in use and the one being opened   *)
  client, purpose,     (* what the reader does, and why it opens or closes *)
  position, seekable, validator, retries, lastError,   (* of the avio      *)
  fruitless            (* history: resumptions tried since a byte was read *)

server == <<version, framed, habit>>
reader == <<client, purpose>>
avio == <<position, seekable, validator, retries, lastError>>
vars == <<server, conn, reader, avio, fruitless>>

Habits == {"full", "short", "any"}
Slots == {"current", "fresh"}
Errors == {"IO", "PROTOCOL"}   (* IO: TIMEOUT too, they are treated alike  *)

(* A connection: the request, the open handshake, the body, the queue.     *)
Request(offset, required) ==
  [worker |-> "connecting", offset |-> offset, required |-> required,
   ready |-> FALSE, opened |-> "OK", seekable |-> FALSE, validator |-> 0,
   body |-> 0, next |-> 0, last |-> 0, queue |-> <<>>, ending |-> "open",
   cancelled |-> FALSE]
NoConnection == [Request(0, 0) EXCEPT !.worker = "none"]

(* crtmedia_http_avio_open: a plain request from the start.                *)
Init ==
  /\ version = 1 /\ framed \in BOOLEAN /\ habit \in Habits
  /\ conn = [current |-> NoConnection, fresh |-> Request(0, 0)]
  /\ client = "opening" /\ purpose = "open"
  /\ position = 0 /\ seekable = FALSE /\ validator = 0
  /\ retries = 0 /\ lastError = "OK"
  /\ fruitless = 0

-----------------------------------------------------------------------------
(* The worker and the server                                               *)

(* The header fields of one hop: Content-Range's start, or -1; validator.  *)
Headers == [start : -1 .. Size - 1, validator : 0 .. Versions]

(* Fault: fields that a hop lacks are those of the redirect before it.     *)
HopFieldsKept(before, hop) ==
  [start |-> IF hop.start = -1 THEN before.start ELSE hop.start,
   validator |-> IF hop.validator = 0 THEN before.validator ELSE hop.validator]

(* A status line forgets the fields of the hop before.                     *)
HopFields(before, hop) == hop

(* The statuses of a final response: 203 and 204 stand for those of 2xx    *)
(* that the code does not name, with a body and without one, 500 for those *)
(* that it refuses.                                                        *)
Statuses == {200, 203, 204, 206, 500}

(* http_header_callback's verdict on the last hop                          *)
Verdict(c, status, hop) ==
  IF \/ /\ conn[c].required # 0
        /\ \/ status # 206 \/ hop.start # conn[c].offset
           \/ hop.validator # conn[c].required
     \/ status = 206 /\ hop.start # conn[c].offset
     \/ status = 200 /\ conn[c].offset # 0
     \/ status \notin 200 .. 299
  THEN "PROTOCOL" ELSE "OK"

(* What a response may carry: the byte it starts with, and where it ends.  *)
Carried(status, start) ==
  CASE status = 206 -> {start} \X (IF habit = "full" THEN {Size} ELSE start + 1 .. Size)
    [] status \in {200, 203} -> {<<0, Size>>}
    [] OTHER -> {<<0, 0>>}

(* The end of the last hop's headers: open learns the outcome, and the     *)
(* body begins.  Where a range ends, Content-Range tells nobody.           *)
Respond(c, status, sent, before) ==
  /\ conn[c].worker = "connecting"
  /\ status \in {203, 204} => habit = "any"
  /\ status = 206 <=> sent.start # -1
  /\ sent.validator \in {0, version}
  /\ \E range \in Carried(status, sent.start) :
       LET hop == HopFields(before, sent)
       IN  conn' = [conn EXCEPT ![c] =
                      [@ EXCEPT !.worker = "streaming", !.ready = TRUE,
                                !.opened = Verdict(c, status, hop),
                                !.seekable = (status = 206 /\ hop.start = conn[c].offset),
                                !.validator = hop.validator, !.body = version,
                                !.next = range[1], !.last = range[2]]]
  /\ UNCHANGED <<server, reader, avio, fruitless>>

(* http_worker_main after curl_easy_perform: the end goes into the queue,  *)
(* unless that has been cancelled.                                         *)
Ended(c, ending) ==
  [conn[c] EXCEPT !.worker = "done",
                  !.ending = IF conn[c].cancelled THEN @ ELSE ending]

(* No response was ever seen.                                              *)
ConnectFails(c, error) ==
  /\ conn[c].worker = "connecting"
  /\ conn' = [conn EXCEPT ![c] = [Ended(c, error) EXCEPT !.ready = TRUE, !.opened = error]]
  /\ UNCHANGED <<server, reader, avio, fruitless>>

(* A byte arrives, and curl calls http_write_callback...                   *)
Arrives(c) ==
  /\ conn[c].worker = "streaming" /\ conn[c].next < conn[c].last
  /\ conn' = [conn EXCEPT ![c].worker = "callback"]
  /\ UNCHANGED <<server, reader, avio, fruitless>>

(* ... which puts it into the queue when there is room...                  *)
CallbackWrites(c) ==
  /\ conn[c].worker = "callback" /\ ~ conn[c].cancelled /\ Len(conn[c].queue) < Capacity
  /\ conn' = [conn EXCEPT ![c] =
                [@ EXCEPT !.worker = "streaming", !.next = conn[c].next + 1,
                          !.queue = Append(conn[c].queue, <<conn[c].body, conn[c].next>>)]]
  /\ UNCHANGED <<server, reader, avio, fruitless>>

(* ... or learns of the cancellation, and curl gives up.                   *)
CallbackAborts(c) ==
  /\ conn[c].worker = "callback" /\ conn[c].cancelled
  /\ conn' = [conn EXCEPT ![c].worker = "done"]
  /\ UNCHANGED <<server, reader, avio, fruitless>>

BodyEnds(c) ==
  /\ conn[c].worker = "streaming" /\ conn[c].next = conn[c].last
  /\ conn' = [conn EXCEPT ![c] = Ended(c, "eof")]
  /\ UNCHANGED <<server, reader, avio, fruitless>>

(* Fault: the worker does not look at curl's result.                       *)
BreaksUnnoticed(c, error) ==
  /\ conn[c].worker = "streaming" /\ conn[c].next < conn[c].last
  /\ conn' = [conn EXCEPT ![c] = Ended(c, "eof")]
  /\ UNCHANGED <<server, reader, avio, fruitless>>

(* The connection breaks.  curl notices, unless only the close of the      *)
(* connection marks the body's end.                                        *)
Breaks(c, error) ==
  /\ conn[c].worker = "streaming" /\ conn[c].next < conn[c].last
  /\ conn' = [conn EXCEPT ![c] = Ended(c, IF framed THEN error ELSE "eof")]
  /\ UNCHANGED <<server, reader, avio, fruitless>>

ResourceChanges ==
  /\ version < Versions /\ version' = version + 1
  /\ UNCHANGED <<framed, habit, conn, reader, avio, fruitless>>

-----------------------------------------------------------------------------
(* The reader                                                              *)

Rest == client' = "idle" /\ purpose' = "none"

(* A connection is opened (http_transport_open_internal).                  *)
Open(why, offset) ==
  /\ conn' = [conn EXCEPT !.fresh = Request(offset, validator)]
  /\ client' = "opening" /\ purpose' = why

Read ==
  /\ client = "idle" /\ lastError = "OK" /\ client' = "reading"
  /\ UNCHANGED <<server, conn, purpose, avio, fruitless>>

Drained(ending) ==
  client = "reading" /\ conn.current.queue = <<>> /\ conn.current.ending = ending

ReadData(n) ==
  /\ client = "reading" /\ Rest
  /\ conn' = [conn EXCEPT !.current.queue = SubSeq(@, n + 1, Len(@))]
  /\ position' = position + n /\ retries' = 0 /\ fruitless' = 0
  /\ UNCHANGED <<server, seekable, validator, lastError>>

ReadEof ==
  /\ Drained("eof") /\ Rest /\ UNCHANGED <<server, conn, avio, fruitless>>

(* The failure is final: later reads report it at once.                    *)
GiveUp(error) ==
  /\ Rest /\ lastError' = error
  /\ UNCHANGED <<position, seekable, validator, retries, fruitless>>

ReadFails ==
  /\ Drained("PROTOCOL") /\ GiveUp("PROTOCOL")
  /\ UNCHANGED <<server, conn>>

(* A round of try_resume's loop, or its end; a fresh connection that has   *)
(* failed is gone by then.                                                 *)
TryResume(error) ==
  IF retries < MaxRetries
  THEN /\ Open("resume", position)
       /\ retries' = retries + 1 /\ fruitless' = fruitless + 1
       /\ UNCHANGED <<position, seekable, validator, lastError>>
  ELSE GiveUp(error) /\ conn' = [conn EXCEPT !.fresh = NoConnection]

ReadLosesConnection ==
  /\ Drained("IO")
  /\ IF seekable /\ validator # 0 THEN TryResume("IO") ELSE GiveUp("IO") /\ UNCHANGED conn
  /\ UNCHANGED server

(* avio_seek_callback, to any byte or behind them all                      *)
Seek(t) ==
  /\ client = "idle" /\ seekable /\ t # position /\ Open("seek", t)
  /\ UNCHANGED <<server, avio, fruitless>>

(* Fault: the queue is not cancelled.                                      *)
CancelledNot(c) == conn

(* crtmedia_http_transport_close, up to the join: of the connection in     *)
(* use, or of a fresh one that has failed.  Its queue is not read again,   *)
(* and of the rest only matters what the worker has still to do.           *)
Cancelled(c) ==
  [conn EXCEPT ![c] = [NoConnection EXCEPT !.worker = conn[c].worker,
                         !.ready = conn[c].ready, !.opened = conn[c].opened,
                         !.next = conn[c].next, !.last = conn[c].last,
                         !.cancelled = TRUE]]

(* The fresh connection takes the other's place; what its request and      *)
(* handshake were about is not looked at again.                            *)
Replaced ==
  [current |-> [conn.fresh EXCEPT !.offset = 0, !.required = 0, !.seekable = FALSE,
                                  !.validator = 0],
   fresh |-> NoConnection]

Close ==
  /\ client = "idle" /\ client' = "joining" /\ purpose' = "close"
  /\ conn' = Cancelled("current")
  /\ UNCHANGED <<server, avio, fruitless>>

(* The first open of all has succeeded.                                    *)
FirstOpenSucceeds ==
  /\ client = "opening" /\ purpose = "open"
  /\ conn.fresh.ready /\ conn.fresh.opened = "OK"
  /\ conn' = Replaced
  /\ seekable' = conn.fresh.seekable /\ validator' = conn.fresh.validator
  /\ Rest
  /\ UNCHANGED <<server, position, retries, lastError, fruitless>>

(* Any other open has returned, and one of the connections is closed.      *)
OpenReturns ==
  /\ client = "opening" /\ conn.fresh.ready
  /\ ~ (purpose = "open" /\ conn.fresh.opened = "OK")
  /\ client' = "joining"
  /\ conn' = Cancelled(IF conn.fresh.opened = "OK" THEN "current" ELSE "fresh")
  /\ UNCHANGED <<server, purpose, avio, fruitless>>

(* The worker of connection c has been joined, and c is freed.             *)
Joined(c) == client = "joining" /\ conn[c].worker = "done"

(* Fault: reaching the server counts as progress.                          *)
ResumeSucceedsAfresh ==
  /\ Joined("current") /\ purpose = "resume" /\ conn.fresh.opened = "OK"
  /\ conn' = Replaced /\ client' = "reading" /\ retries' = 0
  /\ UNCHANGED <<server, purpose, position, seekable, validator,
                 lastError, fruitless>>

ResumeSucceeds ==
  /\ Joined("current") /\ purpose = "resume" /\ conn.fresh.opened = "OK"
  /\ conn' = Replaced /\ client' = "reading"
  /\ UNCHANGED <<server, purpose, avio, fruitless>>

(* A changed resource ends the retries.                                    *)
ResumeFails ==
  /\ Joined("fresh") /\ purpose = "resume" /\ conn.fresh.opened # "OK"
  /\ IF conn.fresh.opened = "PROTOCOL"
     THEN GiveUp("PROTOCOL") /\ conn' = [conn EXCEPT !.fresh = NoConnection]
     ELSE TryResume(conn.fresh.opened)
  /\ UNCHANGED server

SeekSucceeds ==
  /\ Joined("current") /\ purpose = "seek" /\ conn.fresh.opened = "OK"
  /\ conn' = Replaced /\ Rest /\ position' = conn.fresh.offset
  /\ UNCHANGED <<server, seekable, validator, retries,
                 lastError, fruitless>>

(* A seek or a first open has failed, a source is closed.                  *)
SeekFails ==
  /\ Joined("fresh") /\ purpose = "seek" /\ conn.fresh.opened # "OK"
  /\ conn' = [conn EXCEPT !.fresh = NoConnection] /\ Rest
  /\ UNCHANGED <<server, avio, fruitless>>

ClosesForGood ==
  /\ \/ Joined("fresh") /\ purpose = "open"
     \/ Joined("current") /\ purpose = "close"
  /\ conn' = [c \in Slots |-> NoConnection] /\ client' = "closed"
  /\ UNCHANGED <<server, purpose, avio, fruitless>>

-----------------------------------------------------------------------------
(* The last hop and a redirect before it.                                  *)
Responds(c) ==
  /\ conn[c].worker = "connecting"
  /\ \E status \in Statuses, sent, before \in Headers : Respond(c, status, sent, before)

NetworkRuns(c) ==
  \/ Responds(c) \/ Arrives(c) \/ BodyEnds(c)
  \/ \E error \in Errors : ConnectFails(c, error) \/ Breaks(c, error)
WorkerRuns(c) == CallbackWrites(c) \/ CallbackAborts(c)
ReaderCalls == Read \/ Close \/ \E t \in 0 .. Size : Seek(t)
ReaderRuns ==
  \/ \E n \in 1 .. Len(conn.current.queue) : ReadData(n)
  \/ ReadEof \/ ReadFails \/ ReadLosesConnection \/ FirstOpenSucceeds \/ OpenReturns
  \/ ResumeSucceeds \/ ResumeFails \/ SeekSucceeds \/ SeekFails \/ ClosesForGood

Next ==
  \/ ReaderCalls \/ ReaderRuns \/ ResourceChanges
  \/ \E c \in Slots : NetworkRuns(c) \/ WorkerRuns(c)

(* The threads of the program go on; no request sets a time limit to curl, *)
(* so that the network need not.                                           *)
LocalSpec ==
  /\ Init /\ [][Next]_vars
  /\ WF_vars(ReaderRuns) /\ \A c \in Slots : WF_vars(WorkerRuns(c))

(* A network in which a connection goes on, to its end or till it breaks.  *)
FairSpec == LocalSpec /\ \A c \in Slots : WF_vars(NetworkRuns(c))

-----------------------------------------------------------------------------
(* http_avio.h: a read resumes at the exact next byte.  What the next read *)
(* takes from the queue is never of another version of a resource that has *)
(* a validator, and goes on where the last one stopped, through drops,     *)
(* resumes and seeks - also without a validator, unless the server answers *)
(* a seek with one of the 2xx statuses that the code accepts unseen.       *)
NoGapNoSplice ==
  client \in {"idle", "reading"} =>
    \A k \in DOMAIN conn.current.queue :
      LET byte == conn.current.queue[k]
      IN  /\ validator \in {0, byte[1]}
          /\ validator # 0 \/ habit # "any" => byte[2] = position + k - 1

(* http_avio.c: a lost connection must never look like a clean end of      *)
(* stream.  With responses that tell where they end, the end is reported   *)
(* only when all that the last one carries has been read, and that is the  *)
(* end of the resource with a server that sends all that is asked for.     *)
LossIsNotTheEnd ==
  framed /\ Drained("eof") =>
    /\ conn.current.next = conn.current.last
    /\ habit = "full" => position = Size

(* A server that keeps failing without delivering anything is given up on: *)
(* between two bytes at most three connections are made to resume.         *)
RetriesBounded == fruitless <= MaxRetries

(* In a network that goes on every call comes to its end, reads that meet  *)
(* drop after drop included.                                               *)
CallsReturn ==
  (client \in {"reading", "opening", "joining"}) ~> (client \in {"idle", "closed"})

(* http_transport.h, http_transport.c:378: a close cancels the request in  *)
(* flight, so that curl returns promptly, mid-transfer too.                *)
CloseIsPrompt == (client = "joining" /\ purpose = "close") ~> (client = "closed")
=============================================================================
