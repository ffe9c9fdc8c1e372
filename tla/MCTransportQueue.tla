-------------------------- MODULE MCTransportQueue --------------------------
(* The transport queue with any producer, consumer and owner, and as the   *)
(* upload uses it: the first state chooses.  A ring of three bytes and     *)
(* four bytes to send: chunks wrap around the end, are cut short by the    *)
(* capacity and are taken out in other portions, under every pair of       *)
(* watermarks a caller can get; an upload's write waits for the worker in  *)
(* the middle of its own bytes.                                            *)
EXTENDS HttpUpload

VARIABLE alone

transportVars == <<uploadVars, alone>>

TransportInit ==
  \/ alone = TRUE /\ Init /\ UploadOpens /\ patient
  \/ alone = FALSE /\ UploadInit

QueueAlone(A) == alone /\ A /\ UNCHANGED <<upload, alone>>

TransportNext ==
  \/ QueueAlone(Next)
  \/ ~ alone /\ UploadNext /\ UNCHANGED alone

(* Each under its own fairness.                                            *)
TransportSpec ==
  /\ TransportInit /\ [][TransportNext]_transportVars
  /\ WF_transportVars(QueueAlone(ProducerRuns)) /\ WF_transportVars(QueueAlone(ConsumerRuns))
  /\ WF_transportVars(QueueAlone(OwnerRuns))
  /\ WF_transportVars(~ alone /\ ClientRuns /\ UNCHANGED alone)
  /\ WF_transportVars(~ alone /\ WorkerRuns /\ UNCHANGED alone)
=============================================================================
