-------------------------------- MODULE Timer --------------------------------
(***************************************************************************)
(* The timers of timer.c: the list of hard timers, served by the tick        *)
(* interrupt, and the list of soft timers, served by the timer thread, which *)
(* sleeps on a hard timer of its own.  The tick wraps around.                *)
(*                                                                          *)
(* rt_timer_check runs with interrupts disabled, its callbacks included; the *)
(* timer thread may be interrupted between any two of its steps, and during  *)
(* a callback.  The functions on timers are called by threads, by interrupt  *)
(* handlers and by callbacks.                                               *)
(***************************************************************************)
EXTENDS IpcList, Integers

CONSTANTS
    AppTimer,     \* the application's timers
    Soft,         \* the ones with RT_TIMER_FLAG_SOFT_TIMER
    ThreadTimer,  \* the thread_timer of the timer thread
    None,
    TICKS,        \* RT_TICK_MAX + 1
    Delays,       \* the times given to each timer by rt_timer_init and SET_TIME
    Repeating,    \* the timers that may be made periodic
    MaxLate       \* bound on how many ticks late a soft timer is served

Timer == AppTimer \cup {ThreadTimer}
HALF == (TICKS - 1) \div 2
Tick == 0 .. TICKS - 1
Kind(t) == IF t \in Soft THEN "soft" ELSE "hard"

\* Time 0 is left out: a periodic timer of time 0 keeps rt_timer_check busy for
\* ever.  No timer is late by so much that it seems to lie in the future, nor is the
\* deadline that the timer thread has read, of a timer that was stopped since, when it
\* goes by it: half the range of the tick is for the delay and twice the lateness.
ASSUME TimerAssumption ==
    /\ Soft \subseteq AppTimer /\ Repeating \subseteq AppTimer
    /\ ThreadTimer \notin AppTimer
    /\ None \notin Timer
    /\ TICKS \in Nat \ {0} /\ MaxLate \in Nat
    /\ Delays \in [AppTimer -> SUBSET (1 .. HALF - 1 - MaxLate)]
    /\ \A t \in Soft : \A d \in Delays[t] : d + 2 * MaxLate <= HALF + 1

VARIABLES
    tick,       \* rt_tick
    lists,      \* _timer_list and _soft_timer_list
    temp,       \* the timer in the temporary list of a check, by kind
    timeout,    \* timer->timeout_tick
    init_tick,  \* timer->init_tick
    active,     \* the timers with RT_TIMER_FLAG_ACTIVATED
    periodic,   \* the timers with RT_TIMER_FLAG_PERIODIC
    isr,        \* the tick handler: "none", "check", or in a "callback"
    pc,         \* where the timer thread is
    stat,       \* its state: "READY" (or running) or "SUSPEND"
    busy,       \* _soft_timer_status = RT_SOFT_TIMER_BUSY
    next,       \* next_timeout of _timer_thread_entry
    due,        \* history: ticks until the timer should fire
    stale       \* history: what the timer thread goes to sleep by is out of date

timers == <<timeout, init_tick, active, periodic>>
thread == <<pc, stat, busy, next>>
vars == <<tick, lists, temp, timers, isr, thread, due, stale>>

-----------------------------------------------------------------------------
(* Wrapping ticks and the ordered list.                                     *)

\* a - b of rt_tick_t values
Diff(a, b) == (a - b) % TICKS

\* Mutant: deadlines are compared as plain numbers.
Position_NoWrap(list, t, to) ==
    LET later == {i \in DOMAIN list : to[list[i]] > to[t]}
    IN  IF later = {} THEN Len(list) + 1
        ELSE CHOOSE i \in later : \A j \in later : i <= j

\* rt_timer_start: before the first timer that is due later
Position(list, t, to) ==
    LET later == {i \in DOMAIN list : Diff(to[list[i]], to[t]) \in 1 .. HALF - 1}
    IN  IF later = {} THEN Len(list) + 1
        ELSE CHOOSE i \in later : \A j \in later : i <= j

\* Mutants: the tick of the deadline itself is missed; plain comparison.
Expired_Late(t) == Diff(tick, timeout[t]) \in 1 .. HALF - 1
Expired_NoWrap(t) == tick >= timeout[t]

\* the test of both checks
Expired(t) == Diff(tick, timeout[t]) < HALF

\* Mutant: nothing is removed.
Removed_Not(t) == lists

\* _timer_remove: the timer may be in its list or in the temporary one
Removed(t) == [lists EXCEPT ![Kind(t)] = Unlink(@, t)]
NotTemp(t) == [temp EXCEPT ![Kind(t)] = IF @ = t THEN None ELSE @]

\* Mutant: the sleeping timer thread is resumed and its timer runs on.
rt_timer_start_KeepsTimer(t) ==
    LET wake == t \in Soft /\ ~busy /\ stat = "SUSPEND"
        to == [timeout EXCEPT ![t] = (tick + init_tick[t]) % TICKS]
        rest == Removed(t)
    IN  /\ timeout' = to
        /\ lists' = [rest EXCEPT ![Kind(t)] = LinkAt(@, Position(@, t, to), t)]
        /\ temp' = NotTemp(t)
        /\ active' = active \cup {t}
        /\ stat' = IF wake THEN "READY" ELSE stat
        /\ due' = [due EXCEPT ![t] = init_tick[t]]

\* rt_timer_start: taken out of where it is, linked by its new deadline.  A soft timer
\* resumes the timer thread if that sleeps (rt_thread_resume stops its timer), unless
\* it sleeps in a callback.
rt_timer_start(t) ==
    LET wake == t \in Soft /\ ~busy /\ stat = "SUSPEND"
        to == [timeout EXCEPT ![t] = (tick + init_tick[t]) % TICKS]
        rest == Removed(t)
        linked == [rest EXCEPT ![Kind(t)] = LinkAt(@, Position(@, t, to), t)]
    IN  /\ timeout' = to
        /\ lists' = IF wake THEN [linked EXCEPT !["hard"] = Unlink(@, ThreadTimer)]
                    ELSE linked
        /\ temp' = NotTemp(t)
        /\ active' = IF wake THEN (active \cup {t}) \ {ThreadTimer} ELSE active \cup {t}
        /\ stat' = IF wake THEN "READY" ELSE stat
        /\ due' = [due EXCEPT ![t] = init_tick[t]]

-----------------------------------------------------------------------------

Init ==
    /\ tick = 0
    /\ lists = [k \in {"hard", "soft"} |-> <<>>]
    /\ temp = [k \in {"hard", "soft"} |-> None]
    /\ timeout = [t \in Timer |-> 0]
    /\ init_tick \in {f \in [Timer -> 0 .. HALF - 1] :
           f[ThreadTimer] = 0 /\ \A t \in AppTimer : f[t] \in Delays[t]}
    /\ active = {}
    /\ periodic \in SUBSET Repeating
    /\ isr = "none"
    /\ pc = "next"
    /\ stat = "READY"
    /\ busy = FALSE
    /\ next = 0
    /\ due = [t \in Timer |-> 0]
    /\ stale = FALSE

\* A thread, a device interrupt, a callback of a soft or of a hard timer runs.
Calling == isr = "none" \/ (isr = "callback" /\ temp["hard"] # ThreadTimer)

Start(t) ==
    /\ Calling
    /\ rt_timer_start(t)
    /\ stale' = (stale \/ (t \in Soft /\ pc \in {"empty", "found", "delay"}))
    /\ UNCHANGED <<tick, init_tick, periodic, isr, pc, busy, next>>

\* rt_timer_stop; a timer that is not active, one whose callback runs, is left alone
Stop(t) ==
    /\ Calling
    /\ t \in active
    /\ lists' = Removed(t)
    /\ temp' = NotTemp(t)
    /\ active' = active \ {t}
    /\ UNCHANGED <<tick, timeout, init_tick, periodic, isr, thread, due, stale>>

\* rt_timer_detach, rt_timer_delete, and a new rt_timer_init
Detach(t, time, per) ==
    /\ Calling
    /\ lists' = Removed(t)
    /\ temp' = NotTemp(t)
    /\ active' = active \ {t}
    /\ init_tick' = [init_tick EXCEPT ![t] = time]
    /\ periodic' = IF per THEN periodic \cup {t} ELSE periodic \ {t}
    /\ UNCHANGED <<tick, timeout, isr, thread, due, stale>>

\* rt_timer_control: the next start uses the new time
Control(t, time, per) ==
    /\ Calling
    /\ <<time, per>> # <<init_tick[t], t \in periodic>>
    /\ init_tick' = [init_tick EXCEPT ![t] = time]
    /\ periodic' = IF per THEN periodic \cup {t} ELSE periodic \ {t}
    /\ UNCHANGED <<tick, lists, temp, timeout, active, isr, thread, due, stale>>

-----------------------------------------------------------------------------
(* The tick interrupt.                                                      *)

TickIncrease ==
    /\ isr = "none"
    /\ \A t \in Range(lists["soft"]) : due[t] > -MaxLate
    /\ tick' = (tick + 1) % TICKS
    /\ isr' = "check"
    /\ LET linked == Range(lists["hard"]) \cup Range(lists["soft"])
       IN  due' = [t \in Timer |-> IF t \in linked THEN due[t] - 1 ELSE due[t]]
    /\ stale' = (stale \/ pc = "delay")
    /\ UNCHANGED <<lists, temp, timers, thread>>

\* rt_timer_check takes the first timer out and calls its function; the one of a
\* thread timer makes the thread ready
HardExpire ==
    /\ isr = "check"
    /\ lists["hard"] # <<>>
    /\ LET t == Head(lists["hard"])
       IN  /\ Expired(t)
           /\ lists' = [lists EXCEPT !["hard"] = Tail(@)]
           /\ temp' = [temp EXCEPT !["hard"] = t]
           /\ active' = IF t \in periodic THEN active ELSE active \ {t}
           /\ stat' = IF t = ThreadTimer THEN "READY" ELSE stat
    /\ isr' = "callback"
    /\ UNCHANGED <<tick, timeout, init_tick, periodic, pc, busy, next, due, stale>>

\* After the callback of a timer of kind k: unless it was started, stopped or
\* detached meanwhile, it leaves the temporary list; a periodic one starts again.
Finish(k) ==
    LET t == temp[k]
    IN  IF t # None /\ t \in periodic \cap active
        THEN rt_timer_start(t)
        ELSE temp' = [temp EXCEPT ![k] = None]
             /\ UNCHANGED <<lists, timeout, active, stat, due>>

HardDone ==
    /\ isr = "callback"
    /\ Finish("hard")
    /\ isr' = "check"
    /\ UNCHANGED <<tick, init_tick, periodic, pc, busy, next, stale>>

CheckEnd ==
    /\ isr = "check"
    /\ lists["hard"] # <<>> => ~Expired(Head(lists["hard"]))
    /\ isr' = "none"
    /\ UNCHANGED <<tick, lists, temp, timers, thread, due, stale>>

-----------------------------------------------------------------------------
(* The timer thread, _timer_thread_entry.                                   *)

Runs == isr = "none" /\ stat = "READY"

\* _timer_list_next_timeout
NextTimeout ==
    /\ Runs /\ pc = "next"
    /\ IF lists["soft"] = <<>> THEN pc' = "empty" /\ UNCHANGED next
       ELSE pc' = "found" /\ next' = timeout[Head(lists["soft"])]
    /\ stale' = FALSE
    /\ UNCHANGED <<tick, lists, temp, timers, isr, stat, busy, due>>

\* "no software timer exist, suspend self."
Suspend ==
    /\ Runs /\ pc = "empty"
    /\ pc' = "parked"
    /\ stat' = "SUSPEND"
    /\ UNCHANGED <<tick, lists, temp, timers, isr, busy, next, due, stale>>

\* Mutant: a deadline that has passed meanwhile is not noticed.
GetDelta_Unchecked ==
    /\ Runs /\ pc = "found"
    /\ pc' = IF next = tick THEN "check" ELSE "delay"
    /\ next' = Diff(next, tick)
    /\ UNCHANGED <<tick, lists, temp, timers, isr, stat, busy, due, stale>>

\* the time to sleep; without one (in the past, or rt_thread_delay(0)) no sleep
GetDelta ==
    /\ Runs /\ pc = "found"
    /\ IF Diff(next, tick) \in 1 .. HALF - 1
       THEN pc' = "delay" /\ next' = Diff(next, tick)
       ELSE pc' = "check" /\ UNCHANGED next
    /\ UNCHANGED <<tick, lists, temp, timers, isr, stat, busy, due, stale>>

\* rt_thread_delay: suspended, and the thread timer started
Delay ==
    /\ Runs /\ pc = "delay"
    /\ pc' = "asleep"
    /\ LET to == [timeout EXCEPT ![ThreadTimer] = (tick + next) % TICKS]
       IN  /\ timeout' = to
           /\ lists' = [lists EXCEPT !["hard"] =
                            LinkAt(@, Position(@, ThreadTimer, to), ThreadTimer)]
    /\ init_tick' = [init_tick EXCEPT ![ThreadTimer] = next]
    /\ active' = active \cup {ThreadTimer}
    /\ due' = [due EXCEPT ![ThreadTimer] = next]
    /\ stat' = "SUSPEND"
    /\ UNCHANGED <<tick, temp, periodic, isr, busy, next, stale>>

WakeUp ==
    /\ Runs /\ pc \in {"parked", "asleep"}
    /\ pc' = "check"
    /\ UNCHANGED <<tick, lists, temp, timers, isr, stat, busy, next, due, stale>>

\* rt_soft_timer_check: one timer is taken out and its function called
SoftExpire ==
    /\ Runs /\ pc = "check"
    /\ lists["soft"] # <<>>
    /\ LET t == Head(lists["soft"])
       IN  /\ Expired(t)
           /\ lists' = [lists EXCEPT !["soft"] = Tail(@)]
           /\ temp' = [temp EXCEPT !["soft"] = t]
           /\ active' = IF t \in periodic THEN active ELSE active \ {t}
    /\ busy' = TRUE
    /\ pc' = "callback"
    /\ UNCHANGED <<tick, timeout, init_tick, periodic, isr, stat, next, due, stale>>

\* The callback blocks on an IPC object without a timeout, and is woken through it.
CallbackBlocks ==
    /\ Runs /\ pc = "callback"
    /\ pc' = "blocked"
    /\ stat' = "SUSPEND"
    /\ UNCHANGED <<tick, lists, temp, timers, isr, busy, next, due, stale>>

CallbackWoken ==
    /\ isr = "none" /\ pc = "blocked" /\ stat = "SUSPEND"
    /\ pc' = "callback"
    /\ stat' = "READY"
    /\ UNCHANGED <<tick, lists, temp, timers, isr, busy, next, due, stale>>

SoftDone ==
    /\ Runs /\ pc = "callback"
    /\ Finish("soft")
    /\ busy' = FALSE
    /\ pc' = "check"
    /\ UNCHANGED <<tick, init_tick, periodic, isr, next, stale>>

SoftCheckEnd ==
    /\ Runs /\ pc = "check"
    /\ lists["soft"] # <<>> => ~Expired(Head(lists["soft"]))
    /\ pc' = "next"
    /\ UNCHANGED <<tick, lists, temp, timers, isr, stat, busy, next, due, stale>>

Next ==
    \/ \E t \in AppTimer : Start(t) \/ Stop(t)
    \/ \E t \in AppTimer : \E d \in Delays[t], p \in {FALSE, (t \in Repeating)} :
          Detach(t, d, p) \/ Control(t, d, p)
    \/ TickIncrease \/ HardExpire \/ HardDone \/ CheckEnd
    \/ NextTimeout \/ Suspend \/ GetDelta \/ Delay \/ WakeUp
    \/ SoftExpire \/ CallbackBlocks \/ CallbackWoken \/ SoftDone \/ SoftCheckEnd

Spec == Init /\ [][Next]_vars

-----------------------------------------------------------------------------
(* Properties.                                                              *)

TypeOK ==
    /\ tick \in Tick
    /\ lists \in [{"hard", "soft"} -> Seq(Timer)]
    /\ temp \in [{"hard", "soft"} -> Timer \cup {None}]
    /\ timeout \in [Timer -> Tick]
    /\ init_tick \in [Timer -> 0 .. HALF - 1]
    /\ active \subseteq Timer
    /\ periodic \subseteq Repeating
    /\ isr \in {"none", "check", "callback"}
    /\ pc \in {"next", "empty", "parked", "found", "delay", "asleep", "check",
               "callback", "blocked"}
    /\ stat \in {"READY", "SUSPEND"}
    /\ busy \in BOOLEAN
    /\ next \in Tick
    /\ due \in [Timer -> Int]

\* A timer waits at most once, in the list of its own kind and never there and in
\* the temporary list of a running callback, and it waits only if it is marked
\* active, so that rt_timer_stop can reach it.  (start, stop, detach and control at
\* any time, also from the callback)
LinkedIsActive ==
    \A k \in {"hard", "soft"} :
        /\ IsInjective(lists[k])
        /\ temp[k] \notin Range(lists[k])
        /\ \A t \in Range(lists[k]) : Kind(t) = k /\ t \in active

\* Both lists are in the order of the deadlines, although the ticks wrap around.
InOrder ==
    \A k \in {"hard", "soft"} : \A i, j \in 1 .. Len(lists[k]) :
        i < j => due[lists[k][i]] <= due[lists[k][j]]

\* rt_timer_check leaves no hard timer behind that is due.
NoneOverdue ==
    \A t \in Range(lists["hard"]) : due[t] >= 0 /\ (isr = "none" => due[t] > 0)

\* A timer fires when its time has passed, never before, whatever the value of the
\* tick when it was started.
NeverEarly ==
    [][\A k \in {"hard", "soft"} :
          temp'[k] \notin {temp[k], None} => due[temp'[k]] <= 0]_vars

\* The timer of the timer thread runs exactly while the thread sleeps on it: no thread
\* is timed out that does not sleep (the RT_ASSERT of _thread_timeout), no sleep is
\* without end.  A callback that blocks is woken only by what it waits for, not by the
\* start of another soft timer.
ThreadTimerSound ==
    /\ ThreadTimer \in active <=> pc = "asleep" /\ stat = "SUSPEND"
    /\ pc = "blocked" => stat = "SUSPEND"

\* The timer thread sleeps no longer than until the first soft timer is due, and
\* without a timeout ("no software timer exist, suspend self.") only if there is none.
\* The exceptions: a soft timer started after it has looked at the list and before it
\* is suspended does not wake it, and a tick between its reading of the time and its
\* suspension comes on top.
SleepsNoLonger ==
    pc \in {"parked", "asleep"} /\ stat = "SUSPEND" /\ lists["soft"] # <<>> /\ ~stale =>
        pc = "asleep" /\ due[ThreadTimer] <= due[Head(lists["soft"])]

=============================================================================
