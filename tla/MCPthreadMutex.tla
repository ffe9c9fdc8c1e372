--------------------------- MODULE MCPthreadMutex ---------------------------
(* Three threads; two of them agree in the high half of their handle, and  *)
(* the third one is the initial thread, whose handle is a small tid.       *)
EXTENDS PthreadMutex, TLC

CONSTANTS main, t1, t2

MCThreads == {main, t1, t2}
MCLowWord == (main :> 1) @@ (t1 :> 2) @@ (t2 :> 3)
MCHighWord == (main :> 0) @@ (t1 :> 9) @@ (t2 :> 9)
=============================================================================
