-------------------------- MODULE MCRuntimeObjects --------------------------
(* cond      three threads: one asleep, one that signals, and one that     *)
(*           starts to wait between the two halves of the signal;          *)
(* registry  three threads over three slots and every hash function;       *)
(* fork      three threads: one forks while the others hold two locks;     *)
(* keys      three threads, two slots, two keys: a slot is used again      *)
(*           while a thread is in its destructors;                         *)
(* heap      two mappings, side by side or in the wrong order, and two     *)
(*           allocations at a time of two sizes, of which a mapping holds  *)
(*           two or three: blocks are split, merged in both directions     *)
(*           and over the border of the mappings, moved, and over-aligned  *)
(*           where a block used to begin.                                  *)
EXTENDS RuntimeObjects, TLC

CONSTANTS t1, t2, t3

MCThreads == {t1, t2, t3}
Symmetry == Permutations(MCThreads)
=============================================================================
