----------------------------- MODULE HttpUpload -----------------------------
(***************************************************************************)
(* The HTTP upload of libcrtmedia/src/http_upload.c on the transport queue *)
(* it is built from: the client (the muxer's write callback, finish and    *)
(* close) is the queue's producer and its owner, the worker thread, inside *)
(* curl_easy_perform, its consumer.  curl and the server are external: a   *)
(* transfer may fail at any moment, hang, or be answered early, with an    *)
(* error or with a 2xx status, after which curl sends no more and reports  *)
(* success.  A patient server answers 2xx only after the whole body.       *)
(*                                                                         *)
(* Every action is a step of one side joined with what it does to the      *)
(* queue.  Errors of the network are one value, "IO", and all that a       *)
(* write or a finish reports is OK or not.                                 *)
(***************************************************************************)
EXTENDS TransportQueue

VARIABLES patient,           (* the server's habit, the same throughout    *)
          client,            (* where the client is                        *)
          rest,              (* bytes its write has yet to hand over       *)
          eofWritten, joined, finished, cancelRequested,
          worker,            (* where the worker is                        *)
          curlResult, status,
          joins, broken      (* history: joins done; a call has failed     *)

upload == <<patient, client, rest, eofWritten, joined, finished, cancelRequested,
            worker, curlResult, status, joins, broken>>
uploadVars == <<vars, upload>>

(* curl_result starts as 0, which is CURLE_OK.                             *)
UploadOpens ==
  /\ patient \in BOOLEAN
  /\ client = "ready" /\ rest = 0
  /\ eofWritten = FALSE /\ joined = FALSE /\ finished = FALSE /\ cancelRequested = FALSE
  /\ worker = "perform" /\ curlResult = "OK" /\ status = "none"
  /\ joins = 0 /\ broken = FALSE

UploadInit == Init /\ high = HighFor(0) /\ low = LowFor(0, high) /\ UploadOpens

(* The client goes to a step, and nothing else of the upload changes.      *)
ClientAt(step) ==
  /\ client' = step
  /\ UNCHANGED <<patient, rest, eofWritten, joined, finished, cancelRequested, worker,
                 curlResult, status, joins, broken>>

WorkerAt(step) ==
  /\ worker' = step
  /\ UNCHANGED <<patient, client, rest, eofWritten, joined, finished, cancelRequested,
                 curlResult, status, joins, broken>>

-----------------------------------------------------------------------------
(* crtmedia_http_upload_write: chunk after chunk until all has gone in.    *)
Write(n) ==
  /\ client = "ready" /\ ~ eofWritten /\ Call("producer", n, "forever")
  /\ client' = "writing" /\ rest' = n
  /\ UNCHANGED <<patient, eofWritten, joined, finished, cancelRequested, worker, curlResult,
                 status, joins, broken>>

WriteNextChunk ==
  /\ client = "writing" /\ Call("producer", rest, "forever") /\ ClientAt("writing")

WriteSleeps == client = "writing" /\ WriteBlocks /\ UNCHANGED upload

WriteHandsOver ==
  /\ client = "writing" /\ WriteCopies
  /\ rest' = rest - (count' - count)
  /\ client' = IF rest' = 0 THEN "ready" ELSE "writing"
  /\ UNCHANGED <<patient, eofWritten, joined, finished, cancelRequested, worker, curlResult,
                 status, joins, broken>>

(* The queue was cancelled: the first write to learn of it joins the       *)
(* worker to learn why.                                                    *)
WriteIsRefused ==
  /\ client = "writing" /\ Refused("producer")
  /\ client' = IF joined THEN "ready" ELSE "writeJoins"
  /\ broken' = (broken \/ joined)
  /\ UNCHANGED <<patient, rest, eofWritten, joined, finished, cancelRequested, worker,
                 curlResult, status, joins>>

(* Fault: the write does not note that the worker is gone.                 *)
WriteJoinsUnnoted ==
  /\ client = "writeJoins" /\ worker = "done"
  /\ joins' = joins + 1 /\ client' = "ready" /\ broken' = TRUE
  /\ UNCHANGED <<vars, patient, rest, eofWritten, joined, finished, cancelRequested, worker,
                 curlResult, status>>

WriteJoins ==
  /\ client = "writeJoins" /\ worker = "done"
  /\ joins' = joins + 1 /\ joined' = TRUE /\ client' = "ready" /\ broken' = TRUE
  /\ UNCHANGED <<vars, patient, rest, eofWritten, finished, cancelRequested, worker,
                 curlResult, status>>

(* crtmedia_http_upload_finish: the end goes into the queue once (refused  *)
(* or not), then the worker's end is awaited and judged.                   *)
Finish ==
  /\ client = "ready" /\ ~ finished
  /\ IF eofWritten THEN UNCHANGED vars ELSE WriteEof
  /\ eofWritten' = TRUE /\ client' = "finishing"
  /\ UNCHANGED <<patient, rest, joined, finished, cancelRequested, worker, curlResult, status,
                 joins, broken>>

(* Fault: the answer's status is not looked at.                            *)
SucceededAnyhow == curlResult = "OK"

Succeeded == curlResult = "OK" /\ status = "2xx"

FinishJudges ==
  /\ client = "finishing" /\ (joined \/ worker = "done")
  /\ joins' = (IF joined THEN joins ELSE joins + 1) /\ joined' = TRUE
  /\ finished' = Succeeded /\ broken' = (broken \/ ~ Succeeded)
  /\ client' = "ready"
  /\ UNCHANGED <<vars, patient, rest, eofWritten, cancelRequested, worker, curlResult, status>>

(* crtmedia_http_upload_close: unless it has been joined the worker is     *)
(* told to stop, through curl's progress callback and through the queue,   *)
(* and joined; then the queue is released, in whose waits nobody is left.  *)
Close ==
  /\ client = "ready"
  /\ client' = IF joined THEN "releasing" ELSE "cancelling"
  /\ cancelRequested' = (cancelRequested \/ ~ joined)
  /\ UNCHANGED <<vars, patient, rest, eofWritten, joined, finished, worker, curlResult, status,
                 joins, broken>>

CloseCancels == client = "cancelling" /\ Cancel("owner") /\ ClientAt("closeJoins")

CloseJoins ==
  /\ client = "closeJoins" /\ worker = "done"
  /\ joins' = joins + 1 /\ client' = "releasing"
  /\ UNCHANGED <<vars, patient, rest, eofWritten, joined, finished, cancelRequested, worker,
                 curlResult, status, broken>>

CloseReleases == client = "releasing" /\ Release /\ ClientAt("freeing")
CloseFrees == client = "freeing" /\ ReleaseFrees /\ ClientAt("closed")

-----------------------------------------------------------------------------
(* upload_read_callback, called by curl while it has body to send          *)
CurlAsksForData(n) ==
  /\ worker = "perform" /\ told # "eof"
  /\ Call("consumer", n, "forever") /\ WorkerAt("callback")

CallbackSleeps == worker = "callback" /\ ReadBlocks /\ UNCHANGED upload
CallbackReads == worker = "callback" /\ (ReadCopies \/ ReadEnds) /\ WorkerAt("perform")

(* curl_easy_perform returns, upload_worker_main goes on.                  *)
Performed(code, answer) ==
  /\ curlResult' = code /\ status' = answer
  /\ worker' = IF code # "OK" \/ answer # "2xx" THEN "failing" ELSE "done"
  /\ UNCHANGED <<patient, client, rest, eofWritten, joined, finished, cancelRequested, joins,
                 broken>>

(* CURL_READFUNC_ABORT                                                     *)
CallbackAborts ==
  /\ worker = "callback" /\ Refused("consumer") /\ Performed("CANCELLED", "none")

(* curl or the server ends the transfer.                                   *)
CurlEnds ==
  /\ worker = "perform" /\ UNCHANGED vars
  /\ \/ Performed("IO", "none")
     \/ Performed("OK", "other")
     \/ (patient => told = "eof") /\ Performed("OK", "2xx")

(* upload_progress_callback, called by curl at least once a second.        *)
ProgressAborts ==
  /\ worker = "perform" /\ cancelRequested
  /\ UNCHANGED vars /\ Performed("CANCELLED", "none")

(* Fault: only a transfer that curl calls a failure is made known.         *)
WorkerCancelsErrorsOnly ==
  /\ worker = "failing" /\ WorkerAt("done")
  /\ IF curlResult # "OK" THEN Cancel("consumer") ELSE UNCHANGED vars

WorkerCancels == worker = "failing" /\ Cancel("consumer") /\ WorkerAt("done")

-----------------------------------------------------------------------------
ClientCalls == Finish \/ Close \/ \E n \in 1 .. MaxBytes - Len(accepted) : Write(n)
ClientRuns ==
  \/ WriteNextChunk \/ WriteSleeps \/ WriteHandsOver \/ WriteIsRefused \/ WriteJoins
  \/ FinishJudges \/ CloseCancels \/ CloseJoins \/ CloseReleases \/ CloseFrees
WorkerRuns ==
  CallbackSleeps \/ CallbackReads \/ CallbackAborts \/ ProgressAborts \/ WorkerCancels
NetworkRuns == CurlEnds \/ \E n \in 1 .. Capacity : CurlAsksForData(n)

UploadNext ==
  \/ ClientCalls \/ ClientRuns \/ WorkerRuns \/ NetworkRuns
  \/ \E t \in Roles : SpuriousReturn(t) /\ UNCHANGED upload

(* A call that was made and the worker's own code go on; curl's business   *)
(* with the server need not.                                               *)
UploadFairness == WF_uploadVars(ClientRuns) /\ WF_uploadVars(WorkerRuns)

UploadSpec == UploadInit /\ [][UploadNext]_uploadVars /\ UploadFairness

-----------------------------------------------------------------------------
(* A finish that reports success tells the truth: no call has failed, all  *)
(* bytes of every write have gone into the queue, and the server answered  *)
(* with a 2xx status; if it is one that reads the body first, curl has     *)
(* read every byte in order, up to the end.  The worker does not look      *)
(* whether it has: a 2xx that comes early is a success.                    *)
FinishIsHonest ==
  finished => /\ ~ broken /\ rest = 0 /\ curlResult = "OK" /\ status = "2xx"
              /\ patient => told = "eof" /\ delivered = accepted

(* The worker is joined once, by whichever of write, finish and close      *)
(* comes first, and is gone before the queue and the upload are freed.     *)
JoinedOnceBeforeFree ==
  /\ joins <= 1
  /\ client \in {"releasing", "freeing", "closed"} => joins = 1 /\ worker = "done"

(* A close comes to its end whatever curl and the server do; a finish, and *)
(* a write that has to ask why, do once the worker has ended; a write that *)
(* is handing bytes over does unless the worker ended well: it cancels the *)
(* queue only when it did not.                                             *)
UploadCallsReturn ==
  /\ (client = "cancelling") ~> (client = "closed")
  /\ (client \in {"writeJoins", "finishing"} /\ worker = "done") ~> (client = "ready")
  /\ (client = "writing" /\ worker = "done" /\ (patient \/ ~ Succeeded))
       ~> (client = "ready")
=============================================================================
