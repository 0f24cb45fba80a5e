----------------------------- MODULE MCScheduler -----------------------------
(* A controller `ctl` that starts, resumes, re-prioritises and deletes a      *)
(* worker, the worker, which sleeps and waits, a driver thread `drv` that      *)
(* wakes and resumes it, and the idle thread.                                 *)
EXTENDS SchedulerInvariants, TLC

CONSTANTS ctl, wrk, drv, idle

MCThread == {ctl, wrk, drv, idle}
MCBoot == {ctl, drv, idle}
MCInitPrio == ctl :> 1 @@ wrk :> 1 @@ drv :> 0 @@ idle :> 2
MCInitTick == ctl :> 1 @@ wrk :> 2 @@ drv :> 1 @@ idle :> 1
MCCalls == ctl :> {"startup", "create", "resume", "kill", "critical", "control",
               "sleep"}
        @@ wrk :> {"wait", "sleep", "exit", "critical"}
        @@ drv :> {"sleep", "wait", "yield", "wake", "resume", "kill"}
        @@ idle :> {}
MCTarget == ctl :> {wrk} @@ wrk :> {} @@ drv :> {wrk} @@ idle :> {}

\* left out: thread->error, which nothing but the return value of a sleep reads,
\* the ticks of a timer that is not running, the argument of a call that has ended
MCView ==
    <<tcb, queue, current, lock_nest, armed,
      [t \in armed |-> left[t]], pc,
      [t \in {c \in MCThread : InKill(c) \/ InResume(c) \/ pc[c] = "reap"} |-> tgt[t]],
      isr, reprio>>
=============================================================================
