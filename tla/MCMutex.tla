------------------------------- MODULE MCMutex -------------------------------
(* A high, a middle and a low priority thread, and two mutexes.               *)
EXTENDS Mutex, TLC

CONSTANTS high, mid, low, m1, m2

MCThread == {high, mid, low}
MCMutexes == {m1, m2}
MCInitPrio == high :> 1 @@ mid :> 2 @@ low :> 3

\* Never read: what a nudged thread believes, the result of a take that has returned, the
\* count and priorities of a detached mutex, and whether an owner was passed over once a
\* thread is nudged.  Nothing is said of a raced state.
View ==
    IF raced THEN <<>>
    ELSE <<owner, waiters, live, [m \in live |-> <<hold[m], mprio[m], ceiling[m]>>],
           prio, taken, pending, stat, armed, op, pc,
           [t \in Thread |-> IF pc[t] # None THEN error[t] ELSE ""],
           [t \in Thread \ nudged |-> held[t]], nudged, skipped /\ nudged = {}>>
=============================================================================
