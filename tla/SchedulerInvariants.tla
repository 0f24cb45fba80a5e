------------------------- MODULE SchedulerInvariants -------------------------
(***************************************************************************)
(* The inductive invariant of the scheduler: what holds of it as long as no  *)
(* region of rt_thread_resume or rt_thread_delete has acted on a thread that *)
(* changed under it.                                                        *)
(***************************************************************************)
EXTENDS Scheduler

\* A thread is inside a call about another one.
InKill(c) == pc[c] \in {"kill0", "kill"}
InResume(c) == pc[c] \in {"start", "res_cs", "res_ins"}

InvTable ==
    \A p \in Prio : /\ IsInjective(ready[p])
                    /\ \A t \in Range(ready[p]) : stat[t] = "READY" /\ prio[t] = p

InvReady ==
    \A t \in Thread : stat[t] = "READY" /\ t \notin doomed => t \in Range(ready[prio[t]])

InvBitmap == \A p \in Prio : p \in group <=> ready[p] # <<>>

InvWaiting == \A t \in waiting : stat[t] = "SUSPEND"

InvDefunct ==
    /\ IsInjective(defunct)
    /\ \A t \in Thread : t \in Range(defunct) <=> stat[t] = "CLOSE"

\* What the lists hold.
InvLists == InvTable /\ InvReady /\ InvBitmap /\ InvWaiting /\ InvDefunct

\* The current thread has blocked or ended only on its way to rt_schedule, and
\* then the scheduler is not locked, unless the thread has ended.
InvRun ==
    /\ \A t \in Thread : stat[t] = "RUNNING" => t = current
    /\ current \in Thread =>
         /\ stat[current] \in {"RUNNING", "SUSPEND", "CLOSE"}
         /\ pc[current] \notin {"sched", "nap", "slept", "exit", "end"}
              => stat[current] = "RUNNING"
         /\ stat[current] = "SUSPEND" => lock_nest = 0
         /\ stat[current] = "CLOSE" => pc[current] \in {"exit", "end"}
         /\ pc[current] = "end" => lock_nest > 0
    /\ \A t \in Thread : pc[t] \in {"exit", "end"} => stat[t] \in {"CLOSE", "FREE"}

\* The idle thread never blocks, so that there is always a thread to run.
InvIdle ==
    /\ prio[Idle] = PRIORITY_MAX - 1
    /\ \A t \in Thread \ {Idle} : prio[t] < PRIORITY_MAX - 1
    /\ pc[Idle] \in {"user", "reap"}
    /\ Idle \notin doomed
    /\ stat[Idle] \in IF current = NoThread THEN {"INIT", "READY"}
                      ELSE {"READY", "RUNNING"}

InvBoot ==
    current = NoThread =>
        /\ isr = "none" /\ lock_nest = 0 /\ armed = {} /\ defunct = <<>>
        /\ waiting = {} /\ doomed = {}
        /\ \A t \in Thread : pc[t] = "user" /\ stat[t] \in {"FREE", "INIT", "READY"}

InvTimer ==
    \A t \in armed : /\ stat[t] = "SUSPEND"
                     /\ isr \in {"none", "wake"} => left[t] > 0

\* A delete or a resume is about a thread the caller may delete or resume.
InvControl == \A c \in Thread : InKill(c) \/ InResume(c) => tgt[c] \in Target[c]

\* The thread the idle thread is about to release stays on the defunct list.
InvReap == pc[Idle] = "reap" => stat[tgt[Idle]] = "CLOSE"

InvHigh ==
    /\ current \in Thread /\ lock_nest = 0 /\ ~reprio
    /\ isr \notin {"expired", "wake"} /\ pc[current] \notin {"sched", "nap", "exit"}
    => \A p \in group : prio[current] <= p

Sound ==
    /\ InvLists /\ InvRun /\ InvIdle /\ InvBoot /\ InvTimer /\ InvControl /\ InvReap
    /\ InvHigh

IInv ==
    /\ TypeOK
    /\ ~raced => Sound
    /\ raced => isr = "none" /\ current \in Thread
=============================================================================
