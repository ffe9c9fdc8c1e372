---------------------- MODULE MCNativePthreadLifecycle ----------------------
(* Threads share nothing but the host: one thread, with its creator, shows *)
(* every interleaving, and a second one that they do not disturb it.       *)
EXTENDS NativePthreadLifecycle, TLC

CONSTANTS t1, t2
MCThreads == {t1, t2}
Symmetry == Permutations(MCThreads)
=============================================================================
