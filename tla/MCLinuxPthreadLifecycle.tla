---------------------- MODULE MCLinuxPthreadLifecycle ----------------------
(* Two threads: the reaper can hold one while the other is queued, joined, *)
(* detached or still running.                                              *)
EXTENDS LinuxPthreadLifecycle, TLC

CONSTANTS t1, t2
MCThreads == {t1, t2}
Symmetry == Permutations(MCThreads)
=============================================================================
