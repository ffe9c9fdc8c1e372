-------------------------- MODULE MCThreadRegistry --------------------------
(* Three threads over three slots and every hash function.                 *)
EXTENDS ThreadRegistry

CONSTANTS t1, t2, t3
MCThreads == {t1, t2, t3}
=============================================================================
