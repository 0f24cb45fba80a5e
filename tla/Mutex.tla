-------------------------------- MODULE Mutex --------------------------------
(***************************************************************************)
(* The mutexes of ipc.c: recursive, owned, with priority inheritance along   *)
(* chains of owners that wait themselves, and with priority ceilings.        *)
(*                                                                          *)
(* A region with interrupts disabled is one action.  Time is abstract: a     *)
(* timer that is armed may expire at any moment.  Mutexes always queue by    *)
(* priority (rt_mutex_init overrides the flag).                              *)
(***************************************************************************)
EXTENDS IpcList

CONSTANTS
    Thread, Mutex,
    None,        \* RT_NULL, for an owner or a pending object
    PRIORITIES,  \* the thread priorities, 0 the most urgent
    InitPrio,    \* [Thread -> PRIORITIES]: thread->init_priority
    PRIO_NONE,   \* 0xff: no ceiling, no waiter
    HOLD_MAX,    \* RT_MUTEX_HOLD_MAX
    Ceilings,    \* the priorities given to rt_mutex_setprioceiling
    Timed,       \* the threads that may give a timeout to rt_mutex_take
    Detachable,  \* the mutexes that may be detached
    Deletable,   \* the threads that may be deleted or detached
    Resumable    \* the threads on which rt_thread_resume may be called

ASSUME MutexAssumption ==
    /\ IsFiniteSet(Thread) /\ IsFiniteSet(Mutex)
    /\ None \notin Thread \cup Mutex
    /\ PRIO_NONE \in Nat
    /\ PRIORITIES \subseteq 0 .. PRIO_NONE - 1
    /\ InitPrio \in [Thread -> PRIORITIES]
    /\ HOLD_MAX \in Nat \ {0}
    /\ Ceilings \subseteq PRIORITIES
    /\ Timed \cup Deletable \cup Resumable \subseteq Thread
    /\ Detachable \subseteq Mutex

VARIABLES
    owner,    \* mutex->owner
    hold,     \* mutex->hold
    mprio,    \* mutex->priority
    ceiling,  \* mutex->ceiling_priority
    waiters,  \* mutex->parent.suspend_thread
    live,     \* the mutexes that have not been detached
    prio,     \* thread->current_priority
    taken,    \* thread->taken_object_list, as a set: its order is never used
    pending,  \* thread->pending_object
    stat,     \* "READY" (or running), "SUSPEND" or "CLOSE"
    error,    \* thread->error
    armed,    \* the threads whose thread_timer is started
    op,       \* a call on the thread in progress: "none"; "unlinked" between the two
              \* halves of rt_thread_resume; "removed" between those of rt_thread_delete
              \* and rt_thread_detach
    pc,       \* None, or the mutex of the _rt_mutex_take the thread is blocked in
    held,     \* history: how often a thread was told that it has a mutex, up to HOLD_MAX
    nudged,   \* history: the threads that rt_thread_resume woke from their wait
    skipped,  \* history: was an owner not looked at that had inherited too much?
    raced     \* history: have two steps met on a thread that is between two lists?

mutexVars == <<owner, hold, mprio, ceiling, waiters, live>>
threadVars == <<prio, taken, pending, stat, error, armed, op, pc>>
history == <<nudged, skipped, raced>>
vars == <<mutexVars, threadVars, held, history>>

-----------------------------------------------------------------------------
(* Priority inheritance.                                                     *)

MinOf(a, b) == IF a < b THEN a ELSE b

\* _mutex_update_priority: the priority of the first waiter
HeadPriority(list, pr) == IF list = <<>> THEN PRIO_NONE ELSE pr[Head(list)]

\* _thread_get_mutex_priority: the most urgent of the thread's own priority and,
\* for the mutexes in its list, the first waiter's and the ceiling
GetMutexPriority(t, tk, mp, ceil) ==
    LET all == {InitPrio[t]} \cup {MinOf(mp[m], ceil[m]) : m \in tk}
    IN  CHOOSE p \in all : \A q \in all : p <= q

\* What _thread_update_priority changes: k.prio, k.mprio, k.waiters; k.t is the
\* thread its loop looks at next.  wait[t] is the mutex t is suspended on.

\* Mutant: the waiter keeps its place in the list of the mutex it waits on.
Propagate_NoRequeue(k, wait, tk, ceil) ==
    LET m == wait[k.t]
        mp == [k.mprio EXCEPT ![m] = HeadPriority(k.waiters[m], k.prio)]
        o == owner[m]
        p == GetMutexPriority(o, tk[o], mp, ceil)
    IN  IF p = k.prio[o] THEN [k EXCEPT !.mprio = mp, !.t = None]
        ELSE [k EXCEPT !.mprio = mp, !.prio[o] = p, !.t = o]

\* One round of the loop: the waiter is queued anew, the mutex's priority set, and
\* the owner given the priority it should have; it goes on if that changed.
Propagate(k, wait, tk, ceil) ==
    LET m == wait[k.t]
        q == Enqueue(Unlink(k.waiters[m], k.t), k.t, "PRIO", k.prio)
        mp == [k.mprio EXCEPT ![m] = HeadPriority(q, k.prio)]
        o == owner[m]
        p == GetMutexPriority(o, tk[o], mp, ceil)
        next == [k EXCEPT !.waiters[m] = q, !.mprio = mp]
    IN  IF p = k.prio[o] THEN [next EXCEPT !.t = None]
        ELSE [next EXCEPT !.prio[o] = p, !.t = o]

\* The loop gives no thread the same priority twice, also round a cycle of waiting
\* threads, so it has ended after as many rounds.
Rounds == Cardinality(Thread) * Cardinality(PRIORITIES)

\* _thread_update_priority(t, p) from the values in k
UpdatePriority(k, t, p, wait, tk, ceil) ==
    LET loop[n \in 0 .. Rounds] ==
          IF n = 0 THEN [k EXCEPT !.prio[t] = p, !.t = t]
          ELSE LET c == loop[n - 1]
               IN  IF c.t = None \/ wait[c.t] = None THEN [c EXCEPT !.t = None]
                   ELSE Propagate(c, wait, tk, ceil)
    IN  loop[Rounds]

Now(mp, w) == [prio |-> prio, mprio |-> mp, waiters |-> w, t |-> None]

\* t has been taken off its list and is not in the next one yet.
Away(t) == op[t] \in {"unlinked", "removed"}

\* The mutex in whose list a thread is.  The loop of _thread_update_priority queues
\* a thread that is away on its mutex again: the model ends there (Requeues).
WaitsOn(st, pend) ==
    [t \in Thread |-> IF st[t] = "SUSPEND" /\ ~Away(t) THEN pend[t] ELSE None]

\* The owner's priority is brought to what its mutexes ask for.
Recompute(k, o, wait, tk, ceil) ==
    LET p == GetMutexPriority(o, tk[o], k.mprio, ceil)
    IN  IF p = k.prio[o] THEN k ELSE UpdatePriority(k, o, p, wait, tk, ceil)

Becomes(k) == prio' = k.prio /\ mprio' = k.mprio /\ waiters' = k.waiters

\* The loop has reached a thread between the two halves of rt_thread_resume: it is
\* linked in the list of its mutex when rt_thread_resume inserts it into the
\* ready table.
Requeues == \E t \in Thread : op[t] = "unlinked" /\ pending[t] \in live /\ prio'[t] # prio[t]

-----------------------------------------------------------------------------

Init ==
    /\ owner = [m \in Mutex |-> None]
    /\ hold = [m \in Mutex |-> 0]
    /\ mprio = [m \in Mutex |-> PRIO_NONE]
    /\ ceiling = [m \in Mutex |-> PRIO_NONE]
    /\ waiters = [m \in Mutex |-> <<>>]
    /\ live = Mutex
    /\ prio = InitPrio
    /\ taken = [t \in Thread |-> {}]
    /\ pending = [t \in Thread |-> None]
    /\ stat = [t \in Thread |-> "READY"]
    /\ error = [t \in Thread |-> "EOK"]
    /\ armed = {}
    /\ op = [t \in Thread |-> "none"]
    /\ pc = [t \in Thread |-> None]
    /\ held = [t \in Thread |-> [m \in Mutex |-> 0]]
    /\ nudged = {}
    /\ skipped = FALSE
    /\ raced = FALSE

\* t may execute: which of the ready threads runs is left open.
Runs(t) == ~raced /\ stat[t] = "READY" /\ op[t] # "removed"

\* t calls a function of the mutex m from its own code.
Calls(t, m) == Runs(t) /\ pc[t] = None /\ m \in live

\* _rt_mutex_take by the owner; at the limit it returns -RT_EFULL
TakeAgain(t, m) ==
    /\ Calls(t, m)
    /\ owner[m] = t
    /\ hold[m] < HOLD_MAX
    /\ hold' = [hold EXCEPT ![m] = @ + 1]
    /\ held' = [held EXCEPT ![t][m] = @ + 1]
    /\ error' = [error EXCEPT ![t] = "EOK"]
    /\ UNCHANGED <<owner, mprio, ceiling, waiters, live,
                   prio, taken, pending, stat, armed, op, pc, history>>

\* _rt_mutex_take of a free mutex: the ceiling applies to the new owner
TakeFree(t, m) ==
    /\ Calls(t, m)
    /\ owner[m] = None
    /\ owner' = [owner EXCEPT ![m] = t]
    /\ hold' = [hold EXCEPT ![m] = 1]
    /\ mprio' = [mprio EXCEPT ![m] = PRIO_NONE]
    /\ prio' = [prio EXCEPT ![t] = MinOf(@, ceiling[m])]
    /\ taken' = [taken EXCEPT ![t] = @ \cup {m}]
    /\ held' = [held EXCEPT ![t][m] = @ + 1]
    /\ error' = [error EXCEPT ![t] = "EOK"]
    /\ UNCHANGED <<ceiling, waiters, live, pending, stat, armed, op, pc, history>>

\* Mutant: the owner does not inherit the waiter's priority.
TakeBlock_NoInherit(t, m, timed) ==
    /\ Calls(t, m)
    /\ owner[m] \notin {t, None}
    /\ timed => t \in Timed
    /\ error' = [error EXCEPT ![t] = "EOK"]
    /\ stat' = [stat EXCEPT ![t] = "SUSPEND"]
    /\ pending' = [pending EXCEPT ![t] = m]
    /\ armed' = IF timed THEN armed \cup {t} ELSE armed
    /\ pc' = [pc EXCEPT ![t] = m]
    /\ waiters' = [waiters EXCEPT ![m] = Enqueue(@, t, "PRIO", prio)]
    /\ mprio' = [mprio EXCEPT ![m] = MinOf(@, prio[t])]
    /\ UNCHANGED <<owner, hold, ceiling, live, prio, taken, op, held, history>>

\* _rt_mutex_take of a mutex another thread owns: suspended in its list, and the
\* owner, and whoever the owner waits for, inherits the caller's priority
TakeBlock(t, m, timed) ==
    /\ Calls(t, m)
    /\ owner[m] \notin {t, None}
    /\ timed => t \in Timed
    /\ error' = [error EXCEPT ![t] = "EOK"]
    /\ stat' = [stat EXCEPT ![t] = "SUSPEND"]
    /\ pending' = [pending EXCEPT ![t] = m]
    /\ armed' = IF timed THEN armed \cup {t} ELSE armed
    /\ pc' = [pc EXCEPT ![t] = m]
    /\ LET k == Now([mprio EXCEPT ![m] = MinOf(@, prio[t])],
                    [waiters EXCEPT ![m] = Enqueue(@, t, "PRIO", prio)])
       IN  Becomes(IF prio[t] < mprio[m] /\ prio[t] < prio[owner[m]]
                   THEN UpdatePriority(k, owner[m], prio[t], WaitsOn(stat', pending'),
                                       taken, ceiling)
                   ELSE k)
    /\ raced' = Requeues
    /\ UNCHANGED <<owner, hold, ceiling, live, taken, op, held, nudged, skipped>>

\* The blocked take returns RT_EOK.
TakeReturn(t) ==
    /\ Runs(t)
    /\ pc[t] # None
    /\ error[t] = "EOK"
    /\ pc' = [pc EXCEPT ![t] = None]
    /\ held' = [held EXCEPT ![t][pc[t]] = MinOf(@ + 1, HOLD_MAX)]
    /\ UNCHANGED <<mutexVars, prio, taken, pending, stat, error, armed, op, history>>

\* The mutex m after t has left its list without getting it (_rt_mutex_take,
\* rt_mutex_drop_thread): the owner's priority is looked at only if it is the one
\* t has now.
Dropped(t, m, st) ==
    LET k == Now([mprio EXCEPT ![m] = HeadPriority(Unlink(waiters[m], t), prio)],
                 [waiters EXCEPT ![m] = Unlink(@, t)])
        o == owner[m]
    IN  IF o # None /\ prio[o] = prio[t]
        THEN Recompute(k, o, WaitsOn(st, pending), taken, ceiling)
        ELSE k

\* t leaves m, whose owner inherited too much, and finds another priority than its own.
Skips(t, m) ==
    /\ owner[m] # None
    /\ prio[owner[m]] # prio[t]
    /\ prio'[owner[m]] # GetMutexPriority(owner[m], taken[owner[m]], mprio', ceiling)

\* Mutant: the priority of the mutex is not brought up to date.
TakeFail_StalePriority(t) ==
    /\ Runs(t)
    /\ pc[t] # None
    /\ error[t] # "EOK"
    /\ pc' = [pc EXCEPT ![t] = None]
    /\ pending' = [pending EXCEPT ![t] = None]
    /\ UNCHANGED <<owner, hold, ceiling, live, taken, stat, error, armed, op, held,
                   prio, mprio, waiters, nudged, raced>>
    /\ skipped' = (skipped \/ Skips(t, pc[t]))

\* The blocked take fails: timed out, or the mutex was detached.
TakeFail(t) ==
    /\ Runs(t)
    /\ pc[t] # None
    /\ error[t] # "EOK"
    /\ Becomes(Dropped(t, pc[t], stat))
    /\ pc' = [pc EXCEPT ![t] = None]
    /\ pending' = [pending EXCEPT ![t] = None]
    /\ skipped' = (skipped \/ Skips(t, pc[t]))
    /\ raced' = Requeues
    /\ UNCHANGED <<owner, hold, ceiling, live, taken, stat, error, armed, op, held, nudged>>

\* rt_mutex_release while the owner has taken it more than once
ReleaseAgain(t, m) ==
    /\ Calls(t, m)
    /\ owner[m] = t
    /\ hold[m] > 1
    /\ hold' = [hold EXCEPT ![m] = @ - 1]
    /\ held' = [held EXCEPT ![t][m] = @ - 1]
    /\ UNCHANGED <<owner, mprio, ceiling, waiters, live, threadVars, history>>

\* Mutant: the releasing thread keeps the inherited priority.
Lowered_Kept(t, m) == prio

\* What the last release does to the releasing thread's priority.
Lowered(t, m) ==
    IF ceiling[m] # PRIO_NONE \/ prio[t] = mprio[m]
    THEN [prio EXCEPT ![t] = GetMutexPriority(t, taken[t] \ {m}, mprio, ceiling)]
    ELSE prio

\* Mutant: a mutex with waiters is left free.
Release_NoHandOff(t, m) ==
    /\ Calls(t, m)
    /\ owner[m] = t
    /\ hold[m] = 1
    /\ prio' = Lowered(t, m)
    /\ held' = [held EXCEPT ![t][m] = @ - 1]
    /\ owner' = [owner EXCEPT ![m] = None]
    /\ hold' = [hold EXCEPT ![m] = 0]
    /\ mprio' = [mprio EXCEPT ![m] = PRIO_NONE]
    /\ taken' = [taken EXCEPT ![t] = @ \ {m}]
    /\ UNCHANGED <<waiters, pending, stat, armed, ceiling, live, error, op, pc, history>>

\* The last rt_mutex_release: the mutex goes to the first waiter, or is free.
Release(t, m) ==
    /\ Calls(t, m)
    /\ owner[m] = t
    /\ hold[m] = 1
    /\ prio' = Lowered(t, m)
    /\ held' = [held EXCEPT ![t][m] = @ - 1]
    /\ \/ /\ waiters[m] = <<>>
          /\ owner' = [owner EXCEPT ![m] = None]
          /\ hold' = [hold EXCEPT ![m] = 0]
          /\ mprio' = [mprio EXCEPT ![m] = PRIO_NONE]
          /\ taken' = [taken EXCEPT ![t] = @ \ {m}]
          /\ UNCHANGED <<waiters, pending, stat, armed>>
       \/ LET n == Head(waiters[m])
          IN  /\ waiters[m] # <<>>
              /\ owner' = [owner EXCEPT ![m] = n]
              /\ waiters' = [waiters EXCEPT ![m] = Tail(@)]
              /\ mprio' = [mprio EXCEPT ![m] = HeadPriority(Tail(waiters[m]), prio')]
              /\ taken' = [taken EXCEPT ![t] = @ \ {m}, ![n] = @ \cup {m}]
              /\ pending' = [pending EXCEPT ![n] = None]
              /\ stat' = [stat EXCEPT ![n] = "READY"]
              /\ armed' = armed \ {n}
              /\ UNCHANGED hold
    /\ UNCHANGED <<ceiling, live, error, op, pc, history>>

\* rt_mutex_setprioceiling: it applies to the present owner at once
SetCeiling(m, p) ==
    /\ ~raced
    /\ m \in live
    /\ ceiling' = [ceiling EXCEPT ![m] = p]
    /\ LET k == Now(mprio, waiters)
       IN  Becomes(IF owner[m] = None THEN k
                   ELSE Recompute(k, owner[m], WaitsOn(stat, pending), taken, ceiling'))
    /\ raced' = Requeues
    /\ UNCHANGED <<owner, hold, live, taken, pending, stat, error, armed, op, pc, held,
                   nudged, skipped>>

\* Mutant: the timeout leaves thread->error as it is.
Timeout_NoError(t) ==
    /\ ~raced /\ ~Away(t)
    /\ t \in armed
    /\ stat' = [stat EXCEPT ![t] = "READY"]
    /\ armed' = armed \ {t}
    /\ waiters' = [waiters EXCEPT ![pc[t]] = Unlink(@, t)]
    /\ UNCHANGED <<owner, hold, mprio, ceiling, live, prio, taken, pending, error,
                   op, pc, held, history>>

\* _thread_timeout in the tick interrupt
Timeout(t) ==
    /\ ~raced /\ ~Away(t)
    /\ t \in armed
    /\ error' = [error EXCEPT ![t] = "ETIMEOUT"]
    /\ stat' = [stat EXCEPT ![t] = "READY"]
    /\ armed' = armed \ {t}
    /\ waiters' = [waiters EXCEPT ![pc[t]] = Unlink(@, t)]
    /\ UNCHANGED <<owner, hold, mprio, ceiling, live, prio, taken, pending, op, pc, held,
                   history>>

\* rt_thread_resume called directly on a waiting thread: it is taken off the list of
\* the mutex, still SUSPEND, and its timer stopped ...  (stat is tested before,
\* with interrupts enabled; a test that is no longer true is a Race.)
ResumeUnlink(t) ==
    /\ ~raced
    /\ t \in Resumable
    /\ op[t] = "none"
    /\ stat[t] = "SUSPEND"
    /\ op' = [op EXCEPT ![t] = "unlinked"]
    /\ armed' = armed \ {t}
    /\ waiters' = [waiters EXCEPT ![pc[t]] = Unlink(@, t)]
    /\ nudged' = nudged \cup {t}
    /\ UNCHANGED <<owner, hold, mprio, ceiling, live, prio, taken, pending, stat, error,
                   pc, held, skipped, raced>>

\* ... and put into the ready table.  thread->error is the RT_EOK set when the take
\* began.
ResumeInsert(t) ==
    /\ ~raced
    /\ op[t] = "unlinked"
    /\ op' = [op EXCEPT ![t] = "none"]
    /\ stat' = [stat EXCEPT ![t] = "READY"]
    /\ UNCHANGED <<mutexVars, prio, taken, pending, error, armed, pc, held, history>>

\* Two steps meet on one thread: it was woken after rt_thread_resume had read its
\* stat; a second rt_thread_resume, or a delete, finds it away; its timer expires in
\* the middle of a delete.  What becomes of the ready table is in module Scheduler;
\* here the behaviour ends.
Race(t) ==
    /\ ~raced
    /\ \/ t \in Resumable /\ stat[t] = "READY" /\ pc[t] # None
       \/ op[t] = "unlinked"
       \/ op[t] = "removed" /\ t \in armed
       \/ op[t] = "removed" /\ stat[t] = "SUSPEND" /\ t \in Resumable
    /\ raced' = TRUE
    /\ UNCHANGED <<mutexVars, threadVars, held, nudged, skipped>>

\* rt_mutex_detach: interrupts stay disabled while the waiters are resumed with
\* -RT_ERROR; the mutex leaves its owner's list, and keeps its owner
Detach(m) ==
    /\ ~raced
    /\ m \in live \cap Detachable
    /\ live' = live \ {m}
    /\ LET woken == Range(waiters[m])
       IN  /\ error' = [t \in Thread |-> IF t \in woken THEN "ERROR" ELSE error[t]]
           /\ stat' = [t \in Thread |-> IF t \in woken THEN "READY" ELSE stat[t]]
           /\ armed' = armed \ woken
    /\ waiters' = [waiters EXCEPT ![m] = <<>>]
    /\ taken' = [t \in Thread |-> taken[t] \ {m}]
    /\ held' = [t \in Thread |-> [held[t] EXCEPT ![m] = 0]]
    /\ UNCHANGED <<owner, hold, mprio, ceiling, prio, pending, op, pc, history>>

\* rt_thread_delete or rt_thread_detach of a thread that owns no mutex (the ones
\* it owns would stay taken for ever): rt_schedule_remove_thread takes it off
\* whatever list it is in, of ready threads or of the mutex ...
DeleteRemove(t) ==
    /\ ~raced
    /\ t \in Deletable
    /\ op[t] = "none"
    /\ stat[t] # "CLOSE"
    /\ \A m \in Mutex : owner[m] # t
    /\ op' = [op EXCEPT ![t] = "removed"]
    /\ waiters' = [m \in Mutex |-> IF stat[t] = "SUSPEND" /\ pending[t] = m
                                  THEN Unlink(waiters[m], t) ELSE waiters[m]]
    /\ UNCHANGED <<owner, hold, mprio, ceiling, live, prio, taken, pending, stat, error,
                   armed, pc, held, history>>

\* ... and the second region closes it; rt_mutex_drop_thread, if it pends on a mutex
\* that still is one.
DeleteClose(t) ==
    /\ ~raced
    /\ op[t] = "removed"
    /\ op' = [op EXCEPT ![t] = "none"]
    /\ stat' = [stat EXCEPT ![t] = "CLOSE"]
    /\ armed' = armed \ {t}
    /\ IF pending[t] \in live
       THEN /\ Becomes(Dropped(t, pending[t], stat'))
            /\ pending' = [pending EXCEPT ![t] = None]
            /\ skipped' = (skipped \/ Skips(t, pending[t]))
       ELSE UNCHANGED <<prio, mprio, waiters, pending, skipped>>
    /\ pc' = [pc EXCEPT ![t] = None]
    /\ raced' = Requeues
    /\ UNCHANGED <<owner, hold, ceiling, live, taken, error, held, nudged>>

Next ==
    \/ \E t \in Thread :
         \/ \E m \in Mutex : \/ TakeAgain(t, m) \/ TakeFree(t, m)
                             \/ ReleaseAgain(t, m) \/ Release(t, m)
                             \/ \E timed \in BOOLEAN : TakeBlock(t, m, timed)
         \/ TakeReturn(t) \/ TakeFail(t) \/ Timeout(t)
         \/ ResumeUnlink(t) \/ ResumeInsert(t)
         \/ DeleteRemove(t) \/ DeleteClose(t) \/ Race(t)
    \/ \E m \in Mutex : Detach(m) \/ \E p \in Ceilings : SetCeiling(m, p)

Spec == Init /\ [][Next]_vars

-----------------------------------------------------------------------------
(* Properties.                                                              *)

TypeOK ==
    /\ owner \in [Mutex -> Thread \cup {None}]
    /\ hold \in [Mutex -> 0 .. HOLD_MAX]
    /\ mprio \in [Mutex -> PRIORITIES \cup {PRIO_NONE}]
    /\ ceiling \in [Mutex -> PRIORITIES \cup {PRIO_NONE}]
    /\ waiters \in [Mutex -> Seq(Thread)]
    /\ live \subseteq Mutex
    /\ prio \in [Thread -> PRIORITIES]
    /\ taken \in [Thread -> SUBSET Mutex]
    /\ pending \in [Thread -> Mutex \cup {None}]
    /\ stat \in [Thread -> {"READY", "SUSPEND", "CLOSE"}]
    /\ error \in [Thread -> {"EOK", "ETIMEOUT", "ERROR"}]
    /\ armed \subseteq Thread
    /\ op \in [Thread -> {"none", "unlinked", "removed"}]
    /\ pc \in [Thread -> Mutex \cup {None}]
    /\ \A t \in Thread \ nudged : held[t] \in [Mutex -> 0 .. HOLD_MAX]
    /\ nudged \subseteq Thread /\ skipped \in BOOLEAN /\ raced \in BOOLEAN

\* A mutex handed to t whose take has not returned yet.
HandedTo(t, m) == pc[t] = m /\ stat[t] = "READY" /\ error[t] = "EOK"

\* A thread believes to hold a mutex exactly as often as the mutex is held, and
\* nobody else does.
Exclusion ==
    \A m \in live, t \in Thread \ nudged :
        IF owner[m] = t THEN held[t][m] = (IF HandedTo(t, m) THEN 0 ELSE hold[m])
        ELSE held[t][m] = 0

\* The properties are about the states before two steps meet on a thread that is
\* between two lists (raced).

\* "ONLY When the return value is RT_EOK, the operation is successful": what a thread
\* was told of a mutex is so, through recursive takes, hand-offs, timeouts and
\* detaches.  Only a thread that rt_thread_resume woke from its wait may be told
\* RT_EOK and not be the owner.
MutualExclusion == ~raced => Exclusion

\* Where threads and mutexes are linked.
WaitersLinked ==
    /\ \A m \in Mutex : IsInjective(waiters[m])
    /\ \A t \in Thread, m \in Mutex :
         /\ t \in Range(waiters[m]) <=> stat[t] = "SUSPEND" /\ pending[t] = m /\ ~Away(t)
         /\ t \in Range(waiters[m]) => pc[t] = m /\ m \in live /\ owner[m] \notin {None, t}
         /\ m \in taken[t] <=> m \in live /\ owner[m] = t
    /\ \A t \in Thread : stat[t] = "SUSPEND" => pending[t] # None

\* A thread is in the list of the mutex it asked for, and in no other, exactly while
\* it is suspended and neither a resume nor a delete has taken it off; a mutex with
\* waiters has an owner other than them, who will hand it on; a mutex is in the
\* list of its owner and in no other.
WaitersSound == ~raced => WaitersLinked

\* The waiters of a mutex stand in the order of their present priorities, though
\* inheritance changes the priorities of threads that wait already.
QueueInOrder ==
    ~raced => \A m \in Mutex : \A i, j \in 1 .. Len(waiters[m]) :
        i < j => prio[waiters[m][i]] <= prio[waiters[m][j]]

\* No priority inversion: the owner of a mutex is at least as urgent as every
\* thread that waits for it, directly or through owners that wait themselves.
NoInversion ==
    ~raced => \A m \in Mutex : \A t \in Range(waiters[m]) : prio[owner[m]] <= prio[t]

\* Threads that left the list of m without the mutex and have not run since, or
\* that rt_thread_delete has not closed yet.
Leaving(m) == {t \in Thread : pending[t] = m /\ (stat[t] = "READY" \/ Away(t))}

\* mutex->priority is the priority of the first waiter; until a thread that gave up
\* has run, or one that is deleted is closed, it may be more urgent, never less.  (A
\* thread woken by rt_thread_resume does not bring it up to date.)
MutexPriorityTracks ==
    ~raced => \A m \in live :
        /\ mprio[m] <= HeadPriority(waiters[m], prio)
        /\ Leaving(m) = {} /\ nudged = {} => mprio[m] = HeadPriority(waiters[m], prio)

\* The priority a thread inherited or got from a ceiling ends with the last of its
\* mutexes: "try to change the priority of mutex owner thread" when a waiter gives
\* up, "get the highest priority in the taken list of thread" at a release.  It may
\* stay only when a thread that gave up its wait did not look at the owner, because
\* its own priority had changed meanwhile, or when rt_thread_resume ended the wait.
PriorityRestored ==
    nudged = {} /\ ~skipped /\ ~raced =>
      \A t \in Thread :
        (\A m \in Mutex : owner[m] # t) /\ stat[t] # "CLOSE" => prio[t] = InitPrio[t]

=============================================================================
