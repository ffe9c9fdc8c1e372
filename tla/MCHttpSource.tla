---------------------------- MODULE MCHttpSource ----------------------------
(* A resource of two bytes in two versions, behind queues of one byte:     *)
(* connections break before and between bytes that are still queued, a     *)
(* range ends before the resource, and a worker waits for room.            *)
EXTENDS HttpSource
=============================================================================
