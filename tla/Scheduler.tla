------------------------------ MODULE Scheduler ------------------------------
(***************************************************************************)
(* The uniprocessor scheduler and the thread life cycle of the kernel       *)
(* (scheduler_up.c, thread.c, idle.c, clock.c, the boot of components.c).   *)
(*                                                                          *)
(* One processor executes one instruction stream: the thread `current`, or  *)
(* an interrupt handler (isr # "none").  A region between                   *)
(* rt_hw_interrupt_disable and rt_hw_interrupt_enable is one action.  The   *)
(* places of a call at which interrupts are enabled again are values of     *)
(* pc[t], and there the tick interrupt, a device interrupt and, through     *)
(* them, every other thread may step in.                                    *)
(*                                                                          *)
(* rt_thread_resume, rt_thread_delete and rt_thread_detach test a thread,    *)
(* and act on it in later regions.  A region that finds the thread not as    *)
(* the one before left it links a linked node once more, frees what is free  *)
(* or leaves a stale bit: `raced` records it, and the behaviour ends there,  *)
(* with lists that lead anywhere.                                           *)
(***************************************************************************)
EXTENDS KernelList, FiniteSets

CONSTANTS
    Thread,        \* thread control blocks
    NoThread,      \* RT_NULL: rt_current_thread before the scheduler starts
    Idle,          \* the idle thread
    Boot,          \* the threads rtthread_startup starts before the scheduler
    PRIORITY_MAX,  \* RT_THREAD_PRIORITY_MAX; 0 is the most urgent priority
    InitPrio,      \* [Thread -> Prio], the priority given to rt_thread_init
    InitTick,      \* [Thread -> ticks], the time slice given to rt_thread_init
    MaxSleep,      \* bound on the ticks a thread asks to sleep or to wait
    MaxNest,       \* bound on nested rt_enter_critical calls
    Calls,         \* [Thread -> SUBSET Call], the kernel calls a thread makes
    Target         \* [Thread -> SUBSET Thread], whom it starts, resumes, deletes

Prio == 0 .. PRIORITY_MAX - 1

Call == {"yield", "sleep", "wait", "wake", "resume", "startup", "create",
         "kill", "exit", "control", "critical"}

ASSUME ConstantsAssumption ==
    /\ IsFiniteSet(Thread)
    /\ NoThread \notin Thread
    /\ Idle \in Boot
    /\ Boot \subseteq Thread
    /\ PRIORITY_MAX \in Nat \ {0}
    /\ MaxSleep \in Nat \ {0}
    /\ MaxNest \in Nat
    /\ InitPrio \in [Thread -> Prio]
    /\ InitTick \in [Thread -> Nat \ {0}]
    /\ Calls \in [Thread -> SUBSET Call]
    /\ Target \in [Thread -> SUBSET Thread]
    \* the idle thread keeps the lowest priority for itself and calls nothing
    /\ InitPrio[Idle] = PRIORITY_MAX - 1
    /\ \A t \in Thread \ {Idle} : InitPrio[t] < PRIORITY_MAX - 1
    /\ Calls[Idle] = {}
    /\ \A t \in Thread : Idle \notin Target[t] /\ t \notin Target[t]

VARIABLES
    stat,          \* thread->stat & RT_THREAD_STAT_MASK; "FREE" once released
    yield,         \* the RT_THREAD_STAT_YIELD bit of thread->stat
    prio,          \* thread->current_priority (number_mask is 1 << prio)
    slice,         \* thread->remaining_tick
    ready,         \* rt_thread_priority_table
    group,         \* the bits set in rt_thread_ready_priority_group
    current,       \* rt_current_thread
    lock_nest,     \* rt_scheduler_lock_nest
    defunct,       \* _rt_thread_defunct
    waiting,       \* the threads linked in the list of an IPC object
    armed,         \* the threads whose thread_timer is on the timer list
    left,          \* timeout_tick - rt_tick of such a timer
    error,         \* thread->error
    pc,            \* where the thread is when interrupts are enabled
    tgt,           \* the thread its call is about
    isr,           \* where the interrupt handler is
    reprio,        \* history: a priority was changed since the last rt_schedule
    doomed,        \* history: threads a delete has unlinked and not closed yet
    raced          \* a region acted on a thread that had changed under it

tcb   == <<stat, yield, prio, slice>>
queue == <<ready, group, defunct, waiting, doomed, raced>>
time  == <<armed, left>>
flow  == <<error, pc, tgt>>
vars  == <<stat, yield, prio, slice, ready, group, current, lock_nest, defunct,
           waiting, armed, left, error, pc, tgt, isr, reprio, doomed, raced>>

Stat  == {"FREE", "INIT", "READY", "RUNNING", "SUSPEND", "CLOSE"}
Error == {"EOK", "EINTR", "ETIMEOUT"}
Place == {"user", "sched", "slept", "nap", "woke", "start", "res_cs", "res_ins",
          "kill0", "kill", "exit", "end", "reap"}
Isr   == {"none", "slice", "check", "expired", "wake"}

-----------------------------------------------------------------------------
(* The ready table.                                                         *)

\* rt_list_remove(&thread->tlist) with respect to the ready lists.
Unlinked(rd, t) == [p \in Prio |-> Unlink(rd[p], t)]

\* rt_schedule_insert_thread's choice of the end of the list: "there is no
\* time slices left(YIELD)" goes last, a preempted thread goes first.
Linked(rd, t, p, yielded) ==
    [rd EXCEPT ![p] = IF yielded THEN InsertBefore(@, t) ELSE InsertAfter(@, t)]

\* _scheduler_get_highest_priority_thread: __rt_ffs of the bitmap.
HighestPriority(g) == CHOOSE p \in g : \A q \in g : p <= q

\* Mutant: the bit of an emptied list stays set.
rt_schedule_remove_thread_KeepsBit(t) ==
    /\ ready' = Unlinked(ready, t)
    /\ defunct' = Unlink(defunct, t)
    /\ group' = group

\* rt_schedule_remove_thread: the bit is cleared when t's list is left empty.
rt_schedule_remove_thread(t) ==
    /\ ready' = Unlinked(ready, t)
    /\ defunct' = Unlink(defunct, t)
    /\ group' = IF ready'[prio[t]] = <<>> THEN group \ {prio[t]} ELSE group

\* rt_schedule_insert_thread for a thread whose node is unlinked (rd is the
\* table after the caller's own rt_list_remove).  The current thread is not
\* queued: it only becomes RUNNING again.
rt_schedule_insert_thread(t, rd) ==
    /\ doomed' = doomed \ {t}
    /\ IF t = current
       THEN /\ stat' = [stat EXCEPT ![t] = "RUNNING"]
            /\ ready' = rd
            /\ group' = group
       ELSE /\ stat' = [stat EXCEPT ![t] = "READY"]
            /\ ready' = Linked(rd, t, prio[t], yield[t])
            /\ group' = group \cup {prio[t]}

\* Mutant: rt_schedule does not ask whether the current thread still runs.
KeepsProcessor_AnyStat ==
    \/ prio[current] < HighestPriority(group)
    \/ prio[current] = HighestPriority(group) /\ ~yield[current]

\* The running thread keeps the processor: nothing more urgent is ready, and
\* no peer if its slice is used up.
KeepsProcessor ==
    /\ stat[current] = "RUNNING"
    /\ \/ prio[current] < HighestPriority(group)
       \/ prio[current] = HighestPriority(group) /\ ~yield[current]

\* The switch in rt_schedule.  The YIELD bit is cleared before the thread that
\* loses the processor is queued; one that is no longer RUNNING is not queued.
\* The thread that gets it is READY, so its node is on its ready list only.
SwitchTo(to) ==
    LET preempted == stat[current] = "RUNNING"
        cleared == [yield EXCEPT ![current] = ~preempted /\ @]
        rd == IF preempted
              THEN Linked(ready, current, prio[current], cleared[current])
              ELSE ready
        g == IF preempted THEN group \cup {prio[current]} ELSE group
    IN  /\ yield' = cleared
        /\ ready' = Unlinked(rd, to)
        /\ group' = IF ready'[prio[to]] = <<>> THEN g \ {prio[to]} ELSE g
        /\ stat' = [stat EXCEPT ![current] = IF preempted THEN "READY" ELSE @,
                                ![to] = "RUNNING"]
        /\ current' = to
        /\ UNCHANGED defunct

\* Mutant: rt_schedule ignores rt_scheduler_lock_nest.
rt_schedule_Unlocked ==
    /\ IF group # {}
       THEN IF KeepsProcessor
            THEN /\ yield' = [yield EXCEPT ![current] = FALSE]
                 /\ rt_schedule_remove_thread(current)
                 /\ UNCHANGED <<stat, current>>
            ELSE SwitchTo(Head(ready[HighestPriority(group)]))
       ELSE UNCHANGED <<stat, yield, ready, group, defunct, current>>
    /\ reprio' = FALSE
    /\ UNCHANGED <<prio, slice, lock_nest, waiting, armed, left, doomed, raced>>

\* rt_schedule: does nothing while the scheduler is locked or nobody is ready.
rt_schedule ==
    /\ IF lock_nest = 0 /\ group # {}
       THEN IF KeepsProcessor
            THEN /\ yield' = [yield EXCEPT ![current] = FALSE]
                 /\ rt_schedule_remove_thread(current)
                 /\ UNCHANGED <<stat, current>>
            ELSE SwitchTo(Head(ready[HighestPriority(group)]))
       ELSE UNCHANGED <<stat, yield, ready, group, defunct, current>>
    /\ reprio' = (lock_nest # 0 /\ reprio)
    /\ UNCHANGED <<prio, slice, lock_nest, waiting, armed, left, doomed, raced>>

-----------------------------------------------------------------------------
(* Boot: interrupts are disabled, no thread runs.                           *)

Init ==
    /\ stat = [t \in Thread |-> IF t \in Boot THEN "INIT" ELSE "FREE"]
    /\ yield = [t \in Thread |-> FALSE]
    /\ prio = InitPrio
    /\ slice = InitTick
    /\ ready = [p \in Prio |-> <<>>]
    /\ group = {}
    /\ current = NoThread
    /\ lock_nest = 0
    /\ defunct = <<>>
    /\ waiting = {}
    /\ armed = {}
    /\ left = [t \in Thread |-> 0]
    /\ error = [t \in Thread |-> "EOK"]
    /\ pc = [t \in Thread |-> "user"]
    /\ tgt = [t \in Thread |-> t]
    /\ isr = "none"
    /\ reprio = FALSE
    /\ doomed = {}
    /\ raced = FALSE

\* rt_thread_startup before the scheduler runs: no rt_schedule at its end.
BootStartup(t) ==
    /\ current = NoThread
    /\ t \in Boot
    /\ stat[t] = "INIT"
    /\ rt_schedule_insert_thread(t, ready)
    /\ UNCHANGED <<yield, prio, slice, current, lock_nest, defunct, waiting, armed,
                   left, error, pc, tgt, isr, reprio, raced>>

\* rt_system_scheduler_start
SchedulerStart ==
    /\ current = NoThread
    /\ \A t \in Boot : stat[t] # "INIT"
    /\ LET to == Head(ready[HighestPriority(group)]) IN
         /\ current' = to
         /\ stat' = [stat EXCEPT ![to] = "RUNNING"]
         /\ rt_schedule_remove_thread(to)
    /\ UNCHANGED <<yield, prio, slice, lock_nest, waiting, armed, left, error, pc,
                   tgt, isr, reprio, doomed, raced>>

-----------------------------------------------------------------------------
(* What a running thread does.                                              *)

\* t executes, outside an interrupt handler.
Executes(t) == ~raced /\ isr = "none" /\ current = t

At(t, place) == Executes(t) /\ pc[t] = place

Goto(t, place) == pc' = [pc EXCEPT ![t] = place]

\* t makes the call: it is in its own code and still alive.
Enters(t, call) == At(t, "user") /\ call \in Calls[t]

\* rt_schedule called from a thread; it returns when t runs again.  A thread
\* that has ended never does, unless the scheduler is locked: then nothing of
\* it is left to execute, and the lock stays.
Schedule(t) ==
    /\ Executes(t)
    /\ pc[t] \in {"sched", "nap", "exit"}
    /\ rt_schedule
    /\ Goto(t, CASE pc[t] = "nap" -> "woke"
                 [] pc[t] = "exit" -> "end"
                 [] OTHER -> "user")
    /\ UNCHANGED <<error, tgt, isr>>

\* rt_thread_yield up to its rt_schedule
Yield(t) ==
    /\ Enters(t, "yield")
    /\ slice' = [slice EXCEPT ![t] = InitTick[t]]
    /\ yield' = [yield EXCEPT ![t] = TRUE]
    /\ Goto(t, "sched")
    /\ UNCHANGED <<stat, prio, queue, current, lock_nest, time, error, tgt, isr,
                   reprio>>

\* rt_thread_suspend_with_flag(self): off the ready list, SUSPEND, timer stopped.
rt_thread_suspend(t) ==
    /\ rt_schedule_remove_thread(t)
    /\ stat' = [stat EXCEPT ![t] = "SUSPEND"]

\* An IPC object or a driver blocks its caller, for ever (n = 0) or for n
\* ticks; the caller then calls rt_schedule.
Wait(t, n) ==
    /\ Enters(t, "wait")
    /\ lock_nest = 0                     \* RT_DEBUG_SCHEDULER_AVAILABLE
    /\ stat[t] \in {"READY", "RUNNING"}
    /\ rt_thread_suspend(t)
    /\ waiting' = waiting \cup {t}
    /\ armed' = IF n = 0 THEN armed \ {t} ELSE armed \cup {t}
    /\ left' = [left EXCEPT ![t] = n]
    /\ Goto(t, "sched")
    /\ UNCHANGED <<yield, prio, slice, current, lock_nest, error, tgt, isr, reprio,
                   doomed, raced>>

\* rt_thread_sleep: suspended and its timer started with interrupts disabled.
Sleep(t, n) ==
    /\ Enters(t, "sleep")
    /\ lock_nest = 0                     \* RT_DEBUG_SCHEDULER_AVAILABLE
    /\ stat[t] \in {"READY", "RUNNING"}
    /\ rt_thread_suspend(t)
    /\ armed' = armed \cup {t}
    /\ left' = [left EXCEPT ![t] = n]
    /\ error' = [error EXCEPT ![t] = "EOK"]
    /\ Goto(t, "slept")
    /\ UNCHANGED <<yield, prio, slice, current, lock_nest, waiting, tgt, isr, reprio,
                   doomed, raced>>

\* thread->error = -RT_EINTR, written with interrupts enabled
SleepMark(t) ==
    /\ At(t, "slept")
    /\ error' = [error EXCEPT ![t] = "EINTR"]
    /\ Goto(t, "nap")
    /\ UNCHANGED <<tcb, queue, current, lock_nest, time, tgt, isr, reprio>>

\* the end of rt_thread_sleep: "clear error number of this thread to RT_EOK"
SleepReturn(t) ==
    /\ At(t, "woke")
    /\ error' = [error EXCEPT ![t] = IF @ = "ETIMEOUT" THEN "EOK" ELSE @]
    /\ Goto(t, "user")
    /\ UNCHANGED <<tcb, queue, current, lock_nest, time, tgt, isr, reprio>>

\* Mutant: the thread timer is not stopped.
ResumeAtomically_TimerRuns(t) ==
    /\ t \in waiting
    /\ stat[t] = "SUSPEND"
    /\ rt_schedule_insert_thread(t, Unlinked(ready, t))
    /\ waiting' = waiting \ {t}
    /\ UNCHANGED <<yield, prio, slice, defunct, current, lock_nest, time, error,
                   tgt, reprio, raced>>

\* rt_thread_resume of a waiting thread inside a caller's interrupt-disabled
\* region (_ipc_list_resume and the like): list, timer and ready table at once.
ResumeAtomically(t) ==
    /\ t \in waiting
    /\ stat[t] = "SUSPEND"
    /\ rt_schedule_insert_thread(t, Unlinked(ready, t))
    /\ waiting' = waiting \ {t}
    /\ armed' = armed \ {t}
    /\ UNCHANGED <<yield, prio, slice, defunct, current, lock_nest, left, error,
                   tgt, reprio, raced>>

\* a thread releases an IPC object another thread is blocked on
Wake(c, t) ==
    /\ Enters(c, "wake")
    /\ ResumeAtomically(t)
    /\ Goto(c, "sched")
    /\ UNCHANGED isr

\* rt_thread_resume called directly: its test of thread->stat ...
Resume(c, t) ==
    /\ Enters(c, "resume")
    /\ t \in Target[c]
    /\ stat[t] = "SUSPEND"
    /\ tgt' = [tgt EXCEPT ![c] = t]
    /\ Goto(c, "res_cs")
    /\ UNCHANGED <<tcb, queue, current, lock_nest, time, error, isr, reprio>>

\* ... its critical section, which unlinks also a thread that has become READY
\* since, leaving its bit, or that has been closed ...
ResumeUnlink(c) ==
    /\ At(c, "res_cs")
    /\ ready' = Unlinked(ready, tgt[c])
    /\ defunct' = Unlink(defunct, tgt[c])
    /\ waiting' = waiting \ {tgt[c]}
    /\ armed' = armed \ {tgt[c]}
    /\ raced' = (stat[tgt[c]] # "SUSPEND")
    /\ Goto(c, "res_ins")
    /\ UNCHANGED <<tcb, group, current, lock_nest, left, error, tgt, isr, reprio,
                   doomed>>

\* ... and rt_schedule_insert_thread, which links also a thread that is linked
\* again, or asleep again; afterwards the caller reschedules.
ResumeInsert(c) ==
    /\ At(c, "res_ins")
    /\ rt_schedule_insert_thread(tgt[c], ready)
    /\ raced' = ~(stat[tgt[c]] = "SUSPEND" /\ tgt[c] \notin waiting \cup armed)
    /\ Goto(c, "sched")
    /\ UNCHANGED <<yield, prio, slice, defunct, waiting, current, lock_nest, time,
                   error, tgt, isr, reprio>>

\* rt_thread_startup: SUSPEND with every other bit of stat cleared ...
Startup(c, t) ==
    /\ Enters(c, "startup")
    /\ t \in Target[c]
    /\ stat[t] = "INIT"
    /\ stat' = [stat EXCEPT ![t] = "SUSPEND"]
    /\ yield' = [yield EXCEPT ![t] = FALSE]
    /\ tgt' = [tgt EXCEPT ![c] = t]
    /\ Goto(c, "start")
    /\ UNCHANGED <<prio, slice, queue, current, lock_nest, time, error, isr, reprio>>

\* ... then rt_thread_resume, which does nothing if somebody else has resumed
\* it, and rt_schedule
StartupResume(c) ==
    /\ At(c, "start")
    /\ Goto(c, IF stat[tgt[c]] = "SUSPEND" THEN "res_cs" ELSE "sched")
    /\ UNCHANGED <<tcb, queue, current, lock_nest, time, error, tgt, isr, reprio>>

\* rt_thread_create or rt_thread_init on a released object: _thread_init
Create(c, t) ==
    /\ Enters(c, "create")
    /\ t \in Target[c]
    /\ stat[t] = "FREE"
    /\ stat' = [stat EXCEPT ![t] = "INIT"]
    /\ yield' = [yield EXCEPT ![t] = FALSE]
    /\ prio' = [prio EXCEPT ![t] = InitPrio[t]]
    /\ slice' = [slice EXCEPT ![t] = InitTick[t]]
    /\ error' = [error EXCEPT ![t] = "EOK"]
    /\ pc' = [pc EXCEPT ![t] = "user"]
    /\ UNCHANGED <<queue, current, lock_nest, time, tgt, isr, reprio>>

\* rt_thread_delete and rt_thread_detach: the tests of thread->stat.  A CLOSE
\* thread is left alone, an INIT one is on no list.
Kill(c, t) ==
    /\ Enters(c, "kill")
    /\ t \in Target[c]
    /\ stat[t] \notin {"FREE", "CLOSE"}
    /\ tgt' = [tgt EXCEPT ![c] = t]
    /\ Goto(c, IF stat[t] = "INIT" THEN "kill" ELSE "kill0")
    /\ UNCHANGED <<tcb, queue, current, lock_nest, time, error, isr, reprio>>

\* rt_schedule_remove_thread, before interrupts are disabled ...
KillRemove(c) ==
    /\ At(c, "kill0")
    /\ rt_schedule_remove_thread(tgt[c])
    /\ waiting' = waiting \ {tgt[c]}
    /\ doomed' = doomed \cup {tgt[c]}
    /\ raced' = (stat[tgt[c]] \in {"FREE", "CLOSE"})
    /\ Goto(c, "kill")
    /\ UNCHANGED <<tcb, current, lock_nest, time, error, tgt, isr, reprio>>

\* t's node is linked in some list.
IsLinked(t) ==
    \/ \E p \in Prio : t \in Range(ready[p])
    \/ t \in waiting
    \/ t \in Range(defunct)

\* ... and the region that detaches the timer, closes the thread and queues it
\* for the idle thread, without unlinking it once more.
\* RT_THREAD_CTRL_CLOSE reschedules, a plain call does not.
KillClose(c) ==
    /\ At(c, "kill")
    /\ armed' = armed \ {tgt[c]}
    /\ stat' = [stat EXCEPT ![tgt[c]] = "CLOSE"]
    /\ yield' = [yield EXCEPT ![tgt[c]] = FALSE]
    /\ defunct' = InsertAfter(defunct, tgt[c])
    /\ doomed' = doomed \ {tgt[c]}
    /\ raced' = (IsLinked(tgt[c]) \/ stat[tgt[c]] \in {"FREE", "CLOSE"})
    /\ \E place \in {"user", "sched"} : Goto(c, place)
    /\ UNCHANGED <<prio, slice, ready, group, waiting, current, lock_nest, left,
                   error, tgt, isr, reprio>>

\* _thread_exit: a thread returns from its entry function
Exit(t) ==
    /\ Enters(t, "exit")
    /\ ready' = Unlinked(ready, t)
    /\ group' = IF ready'[prio[t]] = <<>> THEN group \ {prio[t]} ELSE group
    /\ armed' = armed \ {t}
    /\ stat' = [stat EXCEPT ![t] = "CLOSE"]
    /\ yield' = [yield EXCEPT ![t] = FALSE]
    /\ defunct' = InsertAfter(defunct, t)
    /\ Goto(t, "exit")
    /\ UNCHANGED <<prio, slice, waiting, current, lock_nest, left, error, tgt, isr,
                   reprio, doomed, raced>>

\* Mutant: the READY thread stays on the list of its old priority.
ChangePriority_OldList(c, t, p) ==
    /\ Enters(c, "control")
    /\ t \in Target[c] \cup {c}
    /\ stat[t] # "FREE"
    /\ prio' = [prio EXCEPT ![t] = p]
    /\ reprio' = TRUE
    /\ UNCHANGED <<stat, yield, slice, queue, current, lock_nest, time, flow, isr>>

\* rt_thread_control(RT_THREAD_CTRL_CHANGE_PRIORITY): a READY thread moves to
\* its new list; nobody calls rt_schedule.
ChangePriority(c, t, p) ==
    /\ Enters(c, "control")
    /\ t \in Target[c] \cup {c}
    /\ stat[t] # "FREE"
    /\ prio' = [prio EXCEPT ![t] = p]
    /\ IF stat[t] = "READY"
       THEN LET rd == Unlinked(ready, t)
                g == IF rd[prio[t]] = <<>> THEN group \ {prio[t]} ELSE group
            IN  /\ ready' = Linked(rd, t, p, yield[t])
                /\ group' = g \cup {p}
                /\ doomed' = doomed \ {t}
       ELSE UNCHANGED <<ready, group, doomed>>
    /\ reprio' = TRUE
    /\ UNCHANGED <<stat, yield, slice, defunct, waiting, current, lock_nest, time,
                   flow, isr, raced>>

\* rt_enter_critical
EnterCritical(t) ==
    /\ Enters(t, "critical")
    /\ lock_nest < MaxNest
    /\ lock_nest' = lock_nest + 1
    /\ UNCHANGED <<tcb, queue, current, time, flow, isr, reprio>>

\* Mutant: rt_exit_critical does not call rt_schedule.
ExitCritical_NoSchedule(t) ==
    /\ Enters(t, "critical")
    /\ lock_nest' = IF lock_nest > 1 THEN lock_nest - 1 ELSE 0
    /\ UNCHANGED <<tcb, queue, current, time, flow, isr, reprio>>

\* rt_exit_critical: leaving the outermost level reschedules, and so does an
\* exit without an entry, which leaves the nesting at 0
ExitCritical(t) ==
    /\ Enters(t, "critical")
    /\ lock_nest' = IF lock_nest > 1 THEN lock_nest - 1 ELSE 0
    /\ Goto(t, IF lock_nest > 1 THEN "user" ELSE "sched")
    /\ UNCHANGED <<tcb, queue, current, time, error, tgt, isr, reprio>>

-----------------------------------------------------------------------------
(* The idle thread: rt_defunct_execute.                                     *)

\* rt_thread_defunct_dequeue reads the head of the list with interrupts enabled
IdleDequeue ==
    /\ At(Idle, "user")
    /\ defunct # <<>>
    /\ tgt' = [tgt EXCEPT ![Idle] = Head(defunct)]
    /\ Goto(Idle, "reap")
    /\ UNCHANGED <<tcb, queue, current, lock_nest, time, error, isr, reprio>>

\* Mutant: the released thread stays linked in the defunct list.
IdleRelease_StaysLinked ==
    /\ At(Idle, "reap")
    /\ stat' = [stat EXCEPT ![tgt[Idle]] = "FREE"]
    /\ Goto(Idle, "user")
    /\ UNCHANGED <<yield, prio, slice, queue, current, lock_nest, time, error,
                   tgt, isr, reprio>>

\* the node is unlinked and the thread object released (cleanup, stack, object)
IdleRelease ==
    /\ At(Idle, "reap")
    /\ defunct' = Unlink(defunct, tgt[Idle])
    /\ stat' = [stat EXCEPT ![tgt[Idle]] = "FREE"]
    /\ Goto(Idle, "user")
    /\ UNCHANGED <<yield, prio, slice, ready, group, waiting, current, lock_nest,
                   time, error, tgt, isr, reprio, doomed, raced>>

-----------------------------------------------------------------------------
(* Interrupt handlers.  Their steps exclude every step of a thread.         *)

\* An interrupt may come, once the scheduler has started.
InterruptsEnabled == ~raced /\ isr = "none" /\ current # NoThread

\* Mutants: the slice is not reloaded; the clock does not advance.
TickIncrease_NoReload ==
    /\ InterruptsEnabled
    /\ slice' = [slice EXCEPT ![current] = @ - 1]
    /\ yield' = [yield EXCEPT ![current] = slice[current] = 1 \/ @]
    /\ isr' = IF slice[current] = 1 THEN "slice" ELSE "check"
    /\ left' = [t \in Thread |-> IF t \in armed THEN left[t] - 1 ELSE left[t]]
    /\ UNCHANGED <<stat, prio, queue, current, lock_nest, armed, flow, reprio>>

TickIncrease_NoTime ==
    /\ InterruptsEnabled
    /\ LET over == slice[current] = 1 IN
         /\ slice' = [slice EXCEPT ![current] = IF over THEN InitTick[current]
                                                ELSE @ - 1]
         /\ yield' = [yield EXCEPT ![current] = over \/ @]
         /\ isr' = IF over THEN "slice" ELSE "check"
    /\ UNCHANGED <<stat, prio, queue, current, lock_nest, time, flow, reprio>>

\* rt_tick_increase up to its rt_schedule; the time slice of the thread that
\* owns the processor is counted down and reloaded
TickIncrease ==
    /\ InterruptsEnabled
    /\ LET over == slice[current] = 1 IN
         /\ slice' = [slice EXCEPT ![current] = IF over THEN InitTick[current]
                                                ELSE @ - 1]
         /\ yield' = [yield EXCEPT ![current] = over \/ @]
         /\ isr' = IF over THEN "slice" ELSE "check"
    /\ left' = [t \in Thread |-> IF t \in armed THEN left[t] - 1 ELSE left[t]]
    /\ UNCHANGED <<stat, prio, queue, current, lock_nest, armed, flow, reprio>>

\* rt_schedule called in a handler; the tick handler goes on with the timers
IsrSchedule ==
    /\ isr \in {"slice", "expired", "wake"}
    /\ rt_schedule
    /\ isr' = IF isr = "wake" THEN "none" ELSE "check"
    /\ UNCHANGED flow

\* rt_timer_check runs _thread_timeout for a timer that is due
TimerExpire(t) ==
    /\ isr = "check"
    /\ t \in armed
    /\ left[t] = 0
    /\ armed' = armed \ {t}
    /\ error' = [error EXCEPT ![t] = "ETIMEOUT"]
    /\ rt_schedule_insert_thread(t, Unlinked(ready, t))
    /\ waiting' = waiting \ {t}
    /\ isr' = "expired"
    /\ UNCHANGED <<yield, prio, slice, defunct, current, lock_nest, left, pc, tgt,
                   reprio, raced>>

\* no timer is due any more: the handler returns
IsrLeave ==
    /\ isr = "check"
    /\ \A t \in armed : left[t] # 0
    /\ isr' = "none"
    /\ UNCHANGED <<tcb, queue, current, lock_nest, time, flow, reprio>>

\* a device handler releases an IPC object a thread is blocked on
IsrWake(t) ==
    /\ InterruptsEnabled
    /\ ResumeAtomically(t)
    /\ isr' = "wake"
    /\ UNCHANGED pc

-----------------------------------------------------------------------------

\* The steps of a call that is under way: nothing but an interrupt delays them.
KernelStep(t) ==
    \/ Schedule(t) \/ SleepMark(t) \/ SleepReturn(t) \/ StartupResume(t)
    \/ ResumeUnlink(t) \/ ResumeInsert(t) \/ KillRemove(t) \/ KillClose(t)

UserCall(t) ==
    \/ Yield(t) \/ Exit(t) \/ EnterCritical(t) \/ ExitCritical(t)
    \/ \E n \in 1 .. MaxSleep : Sleep(t, n)
    \/ \E n \in 0 .. MaxSleep : Wait(t, n)
    \/ \E u \in Thread : \/ Wake(t, u) \/ Resume(t, u) \/ Startup(t, u)
                         \/ Create(t, u) \/ Kill(t, u)
    \/ \E u \in Thread \ {Idle}, p \in Prio \ {PRIORITY_MAX - 1} : ChangePriority(t, u, p)

IsrStep == TickIncrease \/ IsrSchedule \/ IsrLeave \/ \E t \in Thread : TimerExpire(t)

\* Nothing is said of what a corrupted list does.
Corrupted == raced /\ UNCHANGED vars

Next ==
    \/ SchedulerStart
    \/ \E t \in Thread : BootStartup(t) \/ KernelStep(t) \/ UserCall(t) \/ IsrWake(t)
    \/ IdleDequeue \/ IdleRelease
    \/ IsrStep
    \/ Corrupted

Spec == Init /\ [][Next]_vars

\* The tick interrupt is periodic and handlers end.  Between two ticks the
\* thread that has the processor executes many instructions (strong fairness:
\* each tick disables its step for a moment), so it completes its kernel calls
\* and leaves its critical sections.
Fairness ==
    /\ WF_vars(SchedulerStart \/ \E t \in Thread : BootStartup(t))
    /\ WF_vars(IsrStep)
    /\ \A t \in Thread :
         /\ SF_vars(KernelStep(t))
         /\ SF_vars(lock_nest > 0 /\ ExitCritical(t))
         /\ SF_vars(lock_nest > 0 /\ ExitCritical(t) /\ lock_nest' = 0)
    /\ SF_vars(IdleDequeue \/ IdleRelease)

FairSpec == Spec /\ Fairness

-----------------------------------------------------------------------------
(* Properties.                                                              *)

TypeOK ==
    /\ stat \in [Thread -> Stat]
    /\ yield \in [Thread -> BOOLEAN]
    /\ prio \in [Thread -> Prio]
    /\ slice \in [Thread -> Nat \ {0}]
    /\ ready \in [Prio -> Seq(Thread)]
    /\ group \subseteq Prio
    /\ current \in Thread \cup {NoThread}
    /\ lock_nest \in 0 .. MaxNest
    /\ defunct \in Seq(Thread)
    /\ waiting \subseteq Thread
    /\ armed \subseteq Thread
    /\ left \in [Thread -> 0 .. MaxSleep]
    /\ error \in [Thread -> Error]
    /\ pc \in [Thread -> Place]
    /\ tgt \in [Thread -> Thread]
    /\ isr \in Isr
    /\ reprio \in BOOLEAN
    /\ doomed \subseteq Thread
    /\ raced \in BOOLEAN

\* Until a region has acted on a thread that changed under it (raced),
\* rt_thread_ready_priority_group has exactly the bits of the non-empty lists
\* (scheduler_up.c), through timeouts, wakeups and priority changes inside the
\* windows of a resume or a delete: a stale bit makes rt_schedule treat a list
\* head as a thread.
BitmapMatchesTable == ~raced => \A p \in Prio : p \in group <=> ready[p] # <<>>

\* Until then a ready list holds threads that are READY, at that priority, each
\* once, and never the one that runs, and a waiting thread is SUSPEND; a READY
\* thread is on its list unless a delete has just taken it off.
\* (insert, remove, change of priority, timeout, wakeup, resume, delete)
ReadyTableSound ==
    ~raced =>
      /\ \A p \in Prio : /\ IsInjective(ready[p])
                         /\ \A t \in Range(ready[p]) :
                              stat[t] = "READY" /\ prio[t] = p /\ t # current
      /\ \A t \in Thread : stat[t] = "READY" /\ t \notin doomed
                            => t \in Range(ready[prio[t]])
      /\ \A t \in waiting : stat[t] = "SUSPEND"

\* Code of a thread is executed only while that thread is RUNNING, and no other
\* thread is: rt_schedule never returns into a thread that blocked, was closed
\* or was preempted, until a list is corrupted.
OnlyRunningExecutes ==
    ~raced =>
      /\ \A t \in Thread : stat[t] = "RUNNING" => t = current
      /\ \A t \in Thread : At(t, "user") => stat[t] = "RUNNING"

\* While a thread executes its own code with the scheduler unlocked, no more
\* urgent thread is ready: every operation that makes one ready ends in
\* rt_schedule.  A change of priority alone does not, until the next one; a
\* thread that a delete has taken off its list is no longer a candidate.
HighestPriorityRuns ==
    ~raced =>
      \A t \in Thread : At(t, "user") /\ lock_nest = 0 /\ ~reprio
        => \A u \in Thread \ doomed : stat[u] = "READY" => prio[t] <= prio[u]

\* RT_ASSERT in _thread_timeout: only a suspended thread has a timer that can
\* expire, and none is overdue outside the tick handler, until a list is
\* corrupted.
TimeoutFindsSuspended ==
    ~raced =>
      \A t \in armed : stat[t] = "SUSPEND" /\ (isr = "none" => left[t] > 0)

\* Until a list is corrupted, a closed thread is on the defunct list once and on
\* no other, whoever else was about to wake or resume it, so it is released once;
\* a released one is on no list at all.
DefunctListSound ==
    ~raced =>
      /\ IsInjective(defunct)
      /\ \A t \in Thread : t \in Range(defunct) <=> stat[t] = "CLOSE"
      /\ \A t \in Thread : stat[t] \in {"CLOSE", "FREE"}
            => t \notin waiting /\ \A p \in Prio : t \notin Range(ready[p])

\* "The thread object will be removed from thread queue and deleted from system
\* object management in the idle thread" (rt_thread_delete, thread.c:524): a
\* closed thread is in no ready list.
DeletedLeavesQueue ==
    \A t \in Thread : stat[t] = "CLOSE" => \A p \in Prio : t \notin Range(ready[p])

\* rt_enter_critical: as long as the scheduler stays locked the processor does
\* not change hands, whatever the interrupt handlers make ready.
LockKeepsProcessor ==
    [][lock_nest > 0 /\ lock_nest' > 0 => current' = current]_vars

\* rt_thread_sleep by the only most urgent thread ends: it gets the processor.
SleeperRuns ==
    \A t \in Thread :
        (\A u \in Thread \ {t} : InitPrio[t] < InitPrio[u])
            => (t \in armed ~> current = t /\ stat[t] = "RUNNING")

\* "tick is the time slice if there are same priority thread": a READY thread
\* of the most urgent priority gets the processor.
EqualPriorityProgress ==
    \A t \in Thread :
        (\A u \in Thread : InitPrio[t] <= InitPrio[u])
            => (stat[t] = "READY" ~> stat[t] # "READY")

=============================================================================
