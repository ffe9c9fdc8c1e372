-------------------------- MODULE MCPthreadObjects --------------------------
(* semaphore  three threads in any role and three posts: two posts can be  *)
(*            in flight beside a waiter, or two sleepers beside posts one  *)
(*            after another;                                               *)
(* rwlock     three threads, each reading, writing, or both in turn;       *)
(* barrier    three threads and two rounds under a count of two, three or  *)
(*            four: one thread too many, so that one can arrive between    *)
(*            the reset and the advance; as many as are counted, one of    *)
(*            them asleep in the round before; and one too few;            *)
(* native     one thread with its creator, on both hosts: threads share    *)
(*            nothing, so a second one adds no interleaving.               *)
EXTENDS PthreadObjects

CONSTANTS t1, t2, t3

MCThreads == {t1, t2, t3}
MCNativeThreads == {t1}
=============================================================================
