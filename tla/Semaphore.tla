------------------------------ MODULE Semaphore ------------------------------
(***************************************************************************)
(* A counting semaphore (ipc.c).  Threads take it with or without a timeout;*)
(* threads and interrupt handlers release it; a timeout, a direct           *)
(* rt_thread_resume, a reset or a detach may end a wait instead.            *)
(*                                                                          *)
(* A region with interrupts disabled is one action.  Which of the runnable  *)
(* threads runs is left open: that is the business of module Scheduler, and *)
(* what holds here holds for every choice.  Time is abstract: a timer that   *)
(* is armed may expire at any moment.                                       *)
(***************************************************************************)
EXTENDS IpcList

CONSTANTS
    Thread,     \* the threads that use the semaphore
    Flag,       \* RT_IPC_FLAG_FIFO or RT_IPC_FLAG_PRIO
    PRIORITIES, \* the thread priorities, 0 the most urgent
    InitPrio,   \* [Thread -> PRIORITIES]
    InitValue,  \* the value given to rt_sem_init
    VALUE_MAX,  \* RT_SEM_VALUE_MAX
    Resets,     \* the values given to RT_IPC_CMD_RESET
    Reprio      \* may the priority of a thread change while it waits?

ASSUME SemaphoreAssumption ==
    /\ IsFiniteSet(Thread)
    /\ Flag \in Flags
    /\ PRIORITIES \subseteq Nat
    /\ InitPrio \in [Thread -> PRIORITIES]
    /\ VALUE_MAX \in Nat
    /\ InitValue \in 0 .. VALUE_MAX
    /\ Resets \subseteq Nat
    /\ Reprio \in BOOLEAN

VARIABLES
    value,      \* sem->value
    waiters,    \* sem->parent.suspend_thread
    object,     \* "live"; "detaching" and "entered" (in _ipc_list_resume_all, after
                \* its list test), "unlinking", "gone"; "halted" at an RT_ASSERT;
                \* "raced" when two wake-ups of one thread have met
    prio,       \* thread->current_priority
    stat,       \* "READY" (or running) or "SUSPEND"
    armed,      \* the threads whose thread_timer is started
    resume,     \* a direct rt_thread_resume of the thread: "none", "tested" (stat
                \* read), "unlinked" (not in the ready table yet)
    error,      \* thread->error
    pc,         \* "user", or "take" inside a blocking _rt_sem_take
    credit,     \* history: tokens handed in, less the takes that returned RT_EOK
    before      \* history: <<u, t>> for waiters u and t of which u came first

vars == <<value, waiters, object, prio, stat, armed, resume, error, pc, credit, before>>
history == <<credit, before>>

Error == {"EOK", "EINTR", "ETIMEOUT", "ERROR"}

-----------------------------------------------------------------------------

Init ==
    /\ value = InitValue
    /\ waiters = <<>>
    /\ object = "live"
    /\ prio = InitPrio
    /\ stat = [t \in Thread |-> "READY"]
    /\ armed = {}
    /\ resume = [t \in Thread |-> "none"]
    /\ error = [t \in Thread |-> "EOK"]
    /\ pc = [t \in Thread |-> "user"]
    /\ credit = InitValue
    /\ before = {}

\* The kernel runs, and the semaphore may be used.
Runs == object \notin {"halted", "raced"}
Usable == Runs /\ object # "gone"

\* t calls a function of the semaphore from its own code.
Enters(t) == pc[t] = "user" /\ Usable

\* _rt_sem_take with a token at hand
TakeNow(t) ==
    /\ Enters(t)
    /\ value > 0
    /\ value' = value - 1
    /\ credit' = credit - 1
    /\ UNCHANGED <<waiters, object, prio, stat, armed, resume, error, pc, before>>

\* _rt_sem_take without one: the caller is suspended on the semaphore and, with
\* a timeout, its timer started.  (A timeout of 0 returns -RT_ETIMEOUT and
\* changes nothing.)
TakeBlock(t, timed) ==
    /\ Enters(t)
    /\ value = 0
    /\ error' = [error EXCEPT ![t] = "EINTR"]
    /\ stat' = [stat EXCEPT ![t] = "SUSPEND"]
    /\ waiters' = Enqueue(waiters, t, Flag, prio)
    /\ armed' = IF timed THEN armed \cup {t} ELSE armed
    /\ pc' = [pc EXCEPT ![t] = "take"]
    /\ before' = before \cup (Range(waiters) \X {t})
    /\ UNCHANGED <<value, object, prio, resume, credit>>

\* the thread runs again: its rt_schedule returns and thread->error is the result
TakeReturn(t) ==
    /\ Runs
    /\ pc[t] = "take"
    /\ stat[t] = "READY"
    /\ pc' = [pc EXCEPT ![t] = "user"]
    /\ credit' = IF error[t] = "EOK" THEN credit - 1 ELSE credit
    /\ UNCHANGED <<value, waiters, object, prio, stat, armed, resume, error, before>>

\* the region of rt_thread_resume: off the semaphore's list, timer stopped
Unlinked(t) ==
    /\ armed' = armed \ {t}
    /\ waiters' = Unlink(waiters, t)
    /\ before' = {b \in before : b[1] # t /\ b[2] # t}

\* rt_thread_resume called with interrupts disabled: unlinked and READY at once
Resumed(t) ==
    /\ Unlinked(t)
    /\ stat' = [stat EXCEPT ![t] = "READY"]

\* Mutants: the token is counted and no waiter woken; the limit of the count is
\* not tested.
Release_NoWake ==
    /\ Usable
    /\ value < VALUE_MAX
    /\ value' = value + 1
    /\ credit' = credit + 1
    /\ UNCHANGED <<waiters, object, prio, stat, armed, resume, error, pc, before>>

Release_NoLimit ==
    /\ Usable
    /\ waiters = <<>>
    /\ value' = value + 1
    /\ credit' = credit + 1
    /\ UNCHANGED <<waiters, object, prio, stat, armed, resume, error, pc, before>>

\* rt_sem_release, in a thread or an interrupt handler: the token goes to the
\* first waiter directly; without one it is added, unless the count is at its
\* limit (-RT_EFULL, nothing changes).
Release ==
    /\ Usable
    /\ \/ /\ waiters # <<>>
          /\ Resumed(Head(waiters))
          /\ error' = [error EXCEPT ![Head(waiters)] = "EOK"]
          /\ UNCHANGED value
       \/ /\ waiters = <<>>
          /\ value < VALUE_MAX
          /\ value' = value + 1
          /\ UNCHANGED <<waiters, stat, armed, error, before>>
    /\ credit' = credit + 1
    /\ UNCHANGED <<object, prio, resume, pc>>

\* Mutant: the thread stays linked in the semaphore's list.
Timeout_StaysLinked(t) ==
    /\ Runs
    /\ t \in armed
    /\ error' = [error EXCEPT ![t] = "ETIMEOUT"]
    /\ stat' = [stat EXCEPT ![t] = "READY"]
    /\ armed' = armed \ {t}
    /\ UNCHANGED <<value, waiters, object, prio, resume, pc, history>>

\* _thread_timeout in the tick interrupt
Timeout(t) ==
    /\ Runs
    /\ t \in armed
    /\ error' = [error EXCEPT ![t] = "ETIMEOUT"]
    /\ Resumed(t)
    /\ UNCHANGED <<value, object, prio, resume, pc, credit>>

\* rt_thread_resume called directly on a waiting thread: stat is read ...
ResumeTest(t) ==
    /\ Runs
    /\ resume[t] = "none"
    /\ stat[t] = "SUSPEND"
    /\ resume' = [resume EXCEPT ![t] = "tested"]
    /\ UNCHANGED <<value, waiters, object, prio, stat, armed, error, pc, history>>

\* ... the thread unlinked, still SUSPEND ...
ResumeUnlink(t) ==
    /\ Runs
    /\ resume[t] = "tested"
    /\ stat[t] = "SUSPEND"
    /\ resume' = [resume EXCEPT ![t] = "unlinked"]
    /\ Unlinked(t)
    /\ UNCHANGED <<value, object, prio, stat, error, pc, credit>>

\* ... and put into the ready table.  thread->error still is the -RT_EINTR set
\* before it was suspended.
ResumeInsert(t) ==
    /\ Runs
    /\ resume[t] = "unlinked"
    /\ resume' = [resume EXCEPT ![t] = "none"]
    /\ stat' = [stat EXCEPT ![t] = "READY"]
    /\ UNCHANGED <<value, waiters, object, prio, armed, error, pc, history>>

\* Two wake-ups of one thread meet: another one came after the test, and the region
\* takes a READY thread off the ready table; or a second resume passes the test
\* in the window of the first, and inserts a thread that is READY.  What becomes
\* of the ready table then is in module Scheduler; here the behaviour ends.
ResumeRaced(t) ==
    /\ Runs
    /\ \/ resume[t] = "tested" /\ stat[t] = "READY"
       \/ resume[t] = "unlinked"
    /\ object' = "raced"
    /\ UNCHANGED <<value, waiters, prio, stat, armed, resume, error, pc, history>>

\* Mutant: a reset resumes the waiters as a release does, with RT_EOK.
Reset_NoError(v) ==
    /\ Usable
    /\ error' = [t \in Thread |-> IF t \in Range(waiters) THEN "EOK" ELSE error[t]]
    /\ stat' = [t \in Thread |-> IF t \in Range(waiters) THEN "READY" ELSE stat[t]]
    /\ armed' = armed \ Range(waiters)
    /\ waiters' = <<>>
    /\ value' = v % (VALUE_MAX + 1)
    /\ credit' = credit - value + value'
    /\ before' = {}
    /\ UNCHANGED <<object, prio, resume, pc>>

\* rt_sem_control(RT_IPC_CMD_RESET): every waiter is resumed with -RT_ERROR and
\* the value set (a 16-bit cast), with interrupts disabled throughout
Reset(v) ==
    /\ Usable
    /\ error' = [t \in Thread |-> IF t \in Range(waiters) THEN "ERROR" ELSE error[t]]
    /\ stat' = [t \in Thread |-> IF t \in Range(waiters) THEN "READY" ELSE stat[t]]
    /\ armed' = armed \ Range(waiters)
    /\ waiters' = <<>>
    /\ value' = v % (VALUE_MAX + 1)
    /\ credit' = credit - value + value'
    /\ before' = {}
    /\ UNCHANGED <<object, prio, resume, pc>>

\* rt_sem_detach, rt_sem_delete: the list is tested with interrupts enabled,
\* before every waiter and after the last one
DetachBegin ==
    /\ object = "live"
    /\ object' = "detaching"
    /\ UNCHANGED <<value, waiters, prio, stat, armed, resume, error, pc, history>>

DetachTest ==
    /\ object = "detaching"
    /\ object' = IF waiters # <<>> THEN "entered" ELSE "unlinking"
    /\ UNCHANGED <<value, waiters, prio, stat, armed, resume, error, pc, history>>

\* the region of the loop: the first waiter is resumed with -RT_ERROR
DetachResume ==
    /\ object = "entered"
    /\ waiters # <<>>
    /\ error' = [error EXCEPT ![Head(waiters)] = "ERROR"]
    /\ Resumed(Head(waiters))
    /\ object' = "detaching"
    /\ UNCHANGED <<value, prio, resume, pc, credit>>

\* the list has emptied since the test: the list head is taken for a thread (the
\* semaphore itself, its suspend_thread lies where a thread has tlist) and
\* the RT_ASSERT on its type in rt_thread_resume stops the kernel
DetachHalt ==
    /\ object = "entered"
    /\ waiters = <<>>
    /\ object' = "halted"
    /\ UNCHANGED <<value, waiters, prio, stat, armed, resume, error, pc, history>>

\* rt_object_detach takes the object off the list of objects
DetachEnd ==
    /\ object = "unlinking"
    /\ object' = "gone"
    /\ UNCHANGED <<value, waiters, prio, stat, armed, resume, error, pc, history>>

\* rt_thread_control(RT_THREAD_CTRL_CHANGE_PRIORITY) on a thread that is not
\* READY: the list it is linked in is not looked at
ChangePriority(t, p) ==
    /\ Runs
    /\ Reprio \/ stat[t] = "READY"
    /\ prio' = [prio EXCEPT ![t] = p]
    /\ UNCHANGED <<value, waiters, object, stat, armed, resume, error, pc, history>>

\* nothing follows a failed assertion, and nothing is said of a raced thread
Stopped ==
    /\ ~Runs
    /\ UNCHANGED vars

ThreadStep(t) == TakeNow(t) \/ TakeReturn(t) \/ \E timed \in BOOLEAN : TakeBlock(t, timed)

ResumeStep(t) == ResumeTest(t) \/ ResumeUnlink(t) \/ ResumeInsert(t) \/ ResumeRaced(t)

Next ==
    \/ \E t \in Thread : \/ ThreadStep(t) \/ Timeout(t) \/ ResumeStep(t)
                         \/ \E p \in PRIORITIES : ChangePriority(t, p)
    \/ Release
    \/ \E v \in Resets : Reset(v)
    \/ DetachBegin \/ DetachTest \/ DetachResume \/ DetachHalt \/ DetachEnd
    \/ Stopped

Spec == Init /\ [][Next]_vars

-----------------------------------------------------------------------------
(* Properties.                                                              *)

TypeOK ==
    /\ value \in 0 .. VALUE_MAX
    /\ waiters \in Seq(Thread)
    /\ object \in {"live", "detaching", "entered", "unlinking", "gone", "halted", "raced"}
    /\ prio \in [Thread -> PRIORITIES]
    /\ stat \in [Thread -> {"READY", "SUSPEND"}]
    /\ armed \subseteq Thread
    /\ resume \in [Thread -> {"none", "tested", "unlinked"}]
    /\ error \in [Thread -> Error]
    /\ pc \in [Thread -> {"user", "take"}]
    /\ credit \in Nat
    /\ before \subseteq Thread \X Thread

\* A thread that has been handed a token and has not returned from its take.
Granted(t) == pc[t] = "take" /\ stat[t] = "READY" /\ error[t] = "EOK"

\* The threads linked in the semaphore's list, each once, are exactly the suspended
\* ones that no direct resume has unlinked: each is inside a take that has no
\* result yet, and a timer runs for such a thread only.  A wait that ended by a
\* timeout, a reset or a resume leaves no node, and a thread in the window of a
\* resume can be neither served nor timed out.
WaitersSound ==
    /\ IsInjective(waiters)
    /\ \A t \in Thread :
          t \in Range(waiters) <=> stat[t] = "SUSPEND" /\ resume[t] # "unlinked"
    /\ \A t \in Thread : stat[t] = "SUSPEND" => pc[t] = "take" /\ error[t] = "EINTR"
    /\ \A t \in Thread : resume[t] = "unlinked" => stat[t] = "SUSPEND"
    /\ armed \subseteq Range(waiters)

\* No thread waits while a token is there (rt_sem_release, rt_sem_take, reset).
NoLostWakeup == value > 0 => waiters = <<>>

\* A token is neither lost nor invented: what was handed in and not taken yet is
\* in the count or with a thread that is on its way back from its take, whatever
\* timeouts, resumes and resets do at the same time.
TokensConserved == credit = value + Cardinality({t \in Thread : Granted(t)})

\* The waiter u is to be served before the waiter t.
Precedes(u, t) ==
    IF Flag = "FIFO" THEN <<u, t>> \in before
    ELSE prio[u] < prio[t] \/ (prio[u] = prio[t] /\ <<u, t>> \in before)

\* "The pending threads will queue in order of priority", or first come first
\* served: rt_sem_release serves the waiters in the order the flag promises.
QueueInOrder ==
    \A i, j \in 1 .. Len(waiters) : i < j => Precedes(waiters[i], waiters[j])

=============================================================================
