----------------------------- MODULE ByteStream -----------------------------
(***************************************************************************)
(* What libcrtmedia/src/transport_queue.h promises a producer and a        *)
(* consumer: the bytes come out in the order in which they went in, none   *)
(* lost and none twice, never more of them in transit than the capacity,   *)
(* and the end of the stream, clean or not, is reported after the last     *)
(* byte and never turns into the other kind of end.                        *)
(***************************************************************************)
EXTENDS Naturals, SequencesExt

CONSTANT Capacity

VARIABLES accepted,    (* the bytes taken from the producer so far         *)
          delivered,   (* the bytes handed to the consumer so far          *)
          ending,      (* "open", "eof", "error" or "cancelled"            *)
          told         (* the end the consumer has been told of            *)

stream == <<accepted, delivered, ending, told>>

Init ==
  /\ accepted = <<>> /\ delivered = <<>>
  /\ ending = "open" /\ told = "nothing"

Accept ==
  /\ ending = "open"
  /\ IsStrictPrefix(accepted, accepted')
  /\ Len(accepted') - Len(delivered) <= Capacity
  /\ UNCHANGED <<delivered, ending, told>>

Deliver ==
  /\ ending # "cancelled"
  /\ IsStrictPrefix(delivered, delivered') /\ IsPrefix(delivered', accepted)
  /\ UNCHANGED <<accepted, ending, told>>

End ==
  /\ ending = "open" /\ ending' \in {"eof", "error"}
  /\ UNCHANGED <<accepted, delivered, told>>

Cancel == ending' = "cancelled" /\ UNCHANGED <<accepted, delivered, told>>

Tell ==
  /\ ending \in {"eof", "error"} /\ delivered = accepted /\ told' = ending
  /\ UNCHANGED <<accepted, delivered, ending>>

Spec == Init /\ [][Accept \/ Deliver \/ End \/ Cancel \/ Tell]_stream
=============================================================================
