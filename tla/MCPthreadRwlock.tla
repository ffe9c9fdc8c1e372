-------------------------- MODULE MCPthreadRwlock --------------------------
(* Three threads, each reading (twice over if it likes), writing, or both  *)
(* in turn.                                                                *)
EXTENDS PthreadRwlock, TLC

CONSTANTS t1, t2, t3

MCThreads == {t1, t2, t3}
Symmetry == Permutations(MCThreads)
=============================================================================
