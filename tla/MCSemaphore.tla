----------------------------- MODULE MCSemaphore -----------------------------
(* Three threads, two of them of the same priority.                           *)
EXTENDS Semaphore, TLC

CONSTANTS t1, t2, t3

MCThread == {t1, t2, t3}
MCInitPrio == t1 :> 0 @@ t2 :> 1 @@ t3 :> 1
=============================================================================
