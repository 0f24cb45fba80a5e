----------------------------- MODULE Completion -----------------------------
(***************************************************************************)
(* The completion of completion.c, with the one waiter that it allows: a     *)
(* flag and the waiting thread.  The waiter is resumed by rt_completion_done *)
(* or by its timer, and finds in thread->error which it was.                 *)
(***************************************************************************)
VARIABLES
    flag,    \* completion->flag = RT_COMPLETED
    waiter   \* "none", "listed", or why it was resumed: "EOK", "ETIMEOUT"

completion == <<flag, waiter>>

CompletionInit == flag = FALSE /\ waiter = "none"

\* rt_completion_init
Renew == flag' = FALSE /\ waiter' = "none"

\* rt_completion_wait: the flag is there and is taken, or the thread suspends itself
WaitNow == flag /\ flag' = FALSE /\ UNCHANGED waiter
WaitBlock == ~flag /\ waiter' = "listed" /\ UNCHANGED flag

\* _thread_timeout
Elapse == waiter = "listed" /\ waiter' = "ETIMEOUT" /\ UNCHANGED flag

\* rt_completion_wait goes on with the result r; a flag set meanwhile is cleared
WaitReturns(r) ==
    /\ waiter = r
    /\ waiter' = "none"
    /\ flag' = FALSE

\* rt_completion_done
Done ==
    /\ flag' = TRUE
    /\ waiter' = IF ~flag /\ waiter = "listed" THEN "EOK" ELSE waiter

=============================================================================
