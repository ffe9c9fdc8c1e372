------------------------------- MODULE CrtWait -------------------------------
(***************************************************************************)
(* The wait-by-address layer of libc/src/wait.c that every blocking        *)
(* primitive of the runtime is built on.  A 32-bit word is compared and    *)
(* the caller put to sleep in one atomic step of the host (futex,          *)
(* WaitOnAddress, os_sync_wait_on_address); the load made before that call *)
(* only returns earlier with the same result, so it is not a step here.    *)
(*                                                                         *)
(* A wait also returns without a wake: EINTR and EAGAIN are turned into 0  *)
(* on Linux, a thread-directed signal returns 0 on Windows.  The modules   *)
(* below therefore let any sleeper return at any time.                     *)
(***************************************************************************)
EXTENDS FiniteSets

(* __crt_wait32(addr, expected) puts its caller to sleep, instead of       *)
(* returning 0 at once, exactly when the word still holds `expected'.      *)
WaitSleeps(word, expected) == word = expected

(* The sets of sleepers that __crt_wake32_one may release: one of them,    *)
(* chosen by the host, or nobody when nobody sleeps.                       *)
WakeOne(asleep) == IF asleep = {} THEN {{}} ELSE {{t} : t \in asleep}

(* __crt_wake32_all releases every sleeper.                                *)
WakeAll(asleep) == {asleep}
=============================================================================
