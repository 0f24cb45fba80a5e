--------------------------- MODULE SchedulerProofs ---------------------------
(***************************************************************************)
(* Proofs that the scheduler keeps its ready table, its bitmap and its      *)
(* priorities in order as long as no region of a resume or a delete acts on  *)
(* a thread that changed under it.  One lemma per action shows what it does   *)
(* to the invariant of SchedulerInvariants; the theorems are at the end.      *)
(***************************************************************************)
EXTENDS SchedulerInvariants, ListProofs

\* A state in which no list has been corrupted.
Good == TypeOK /\ Sound /\ ~raced

\* A step that leaves the lists, the states and the priorities alone keeps the
\* invariants about them.
LEMMA ListsFrame ==
    ASSUME Good, UNCHANGED <<stat, prio, queue>>
    PROVE  InvLists' /\ ~raced'
  BY DEF Good, Sound, InvLists, InvTable, InvReady, InvBitmap, InvWaiting, InvDefunct, queue

\* rt_thread_yield only marks the caller.
LEMMA YieldStep == ASSUME Good, NEW t \in Thread, Yield(t) PROVE Good'
  <1> USE ConstantsAssumption DEF Good, Sound, Yield, Enters, At, Executes, Goto, queue, time
  <1>1. TypeOK'
    BY DEF TypeOK, Place, Error, Isr, Stat
  <1>2. InvLists' /\ ~raced'
    BY ListsFrame
  <1>3. InvRun' /\ InvIdle' /\ InvBoot' /\ InvTimer'
    BY DEF TypeOK, InvRun, InvIdle, InvBoot, InvTimer
  <1>4. InvControl'
    BY DEF TypeOK, InvControl, InKill, InResume
  <1>5. InvReap'
    BY DEF TypeOK, InvIdle, InvReap
  <1>6. InvHigh'
    BY DEF TypeOK, InvHigh
  <1> QED BY <1>1, <1>2, <1>3, <1>4, <1>5, <1>6

\* The late write of thread->error.
LEMMA SleepMarkStep == ASSUME Good, NEW t \in Thread, SleepMark(t) PROVE Good'
  <1> USE ConstantsAssumption DEF Good, Sound, SleepMark, At, Executes, Goto, tcb, queue, time
  <1>1. TypeOK'
    BY DEF TypeOK, Place, Error, Isr, Stat
  <1>2. InvLists' /\ ~raced'
    BY ListsFrame
  <1>3. InvRun' /\ InvIdle' /\ InvBoot' /\ InvTimer'
    BY DEF TypeOK, InvRun, InvIdle, InvBoot, InvTimer
  <1>4. InvControl'
    BY DEF TypeOK, InvControl, InKill, InResume
  <1>5. InvReap'
    BY DEF TypeOK, InvIdle, InvReap
  <1>6. InvHigh'
    BY DEF TypeOK, InvHigh
  <1> QED BY <1>1, <1>2, <1>3, <1>4, <1>5, <1>6

\* The end of rt_thread_sleep.
LEMMA SleepReturnStep == ASSUME Good, NEW t \in Thread, SleepReturn(t) PROVE Good'
  <1> USE ConstantsAssumption DEF Good, Sound, SleepReturn, At, Executes, Goto, tcb, queue, time
  <1>1. TypeOK'
    BY DEF TypeOK, Place, Error, Isr, Stat
  <1>2. InvLists' /\ ~raced'
    BY ListsFrame
  <1>3. InvRun' /\ InvIdle' /\ InvBoot' /\ InvTimer'
    BY DEF TypeOK, InvRun, InvIdle, InvBoot, InvTimer
  <1>4. InvControl'
    BY DEF TypeOK, InvControl, InKill, InResume
  <1>5. InvReap'
    BY DEF TypeOK, InvIdle, InvReap
  <1>6. InvHigh'
    BY DEF TypeOK, InvHigh
  <1> QED BY <1>1, <1>2, <1>3, <1>4, <1>5, <1>6

\* rt_enter_critical: the caller is RUNNING, so the lock has an owner that runs.
LEMMA EnterCriticalStep == ASSUME Good, NEW t \in Thread, EnterCritical(t) PROVE Good'
  <1> USE ConstantsAssumption DEF Good, Sound, EnterCritical, Enters, At, Executes, tcb, queue, time, flow
  <1>1. TypeOK'
    BY DEF TypeOK, Place, Error, Isr, Stat
  <1>2. InvLists' /\ ~raced'
    BY ListsFrame
  <1>3. InvRun' /\ InvIdle' /\ InvBoot' /\ InvTimer'
    BY DEF TypeOK, InvRun, InvIdle, InvBoot, InvTimer
  <1>4. InvControl'
    BY DEF TypeOK, InvControl, InKill, InResume
  <1>5. InvReap'
    BY DEF TypeOK, InvIdle, InvReap
  <1>6. InvHigh'
    BY DEF TypeOK, InvHigh
  <1> QED BY <1>1, <1>2, <1>3, <1>4, <1>5, <1>6

\* rt_exit_critical: the outermost level leads to rt_schedule.
LEMMA ExitCriticalStep == ASSUME Good, NEW t \in Thread, ExitCritical(t) PROVE Good'
  <1> USE ConstantsAssumption DEF Good, Sound, ExitCritical, Enters, At, Executes, Goto, tcb, queue, time
  <1>1. TypeOK'
    <2>1. lock_nest' \in 0 .. MaxNest
      BY DEF TypeOK
    <2> QED BY <2>1 DEF TypeOK, Place
  <1>2. InvLists' /\ ~raced'
    BY ListsFrame
  <1>3. InvRun' /\ InvIdle' /\ InvBoot' /\ InvTimer'
    BY DEF TypeOK, InvRun, InvIdle, InvBoot, InvTimer
  <1>4. InvControl'
    BY DEF TypeOK, InvControl, InKill, InResume
  <1>5. InvReap'
    BY DEF TypeOK, InvIdle, InvReap
  <1>6. InvHigh'
    BY DEF TypeOK, InvHigh
  <1> QED BY <1>1, <1>2, <1>3, <1>4, <1>5, <1>6

\* rt_thread_resume, its test.
LEMMA ResumeStep == ASSUME Good, NEW c \in Thread, NEW t \in Thread, Resume(c, t) PROVE Good'
  <1> USE ConstantsAssumption DEF Good, Sound, Resume, Enters, At, Executes, Goto, tcb, queue, time
  <1>1. TypeOK'
    BY DEF TypeOK, Place, Error, Isr, Stat
  <1>2. InvLists' /\ ~raced'
    BY ListsFrame
  <1>3. InvRun' /\ InvIdle' /\ InvBoot' /\ InvTimer'
    BY DEF TypeOK, InvRun, InvIdle, InvBoot, InvTimer
  <1>4. InvControl'
    BY DEF TypeOK, InvControl, InKill, InResume
  <1>5. InvReap'
    BY DEF TypeOK, InvIdle, InvReap
  <1>6. InvHigh'
    BY DEF TypeOK, InvHigh
  <1> QED BY <1>1, <1>2, <1>3, <1>4, <1>5, <1>6

\* rt_thread_startup calls rt_thread_resume.
LEMMA StartupResumeStep == ASSUME Good, NEW c \in Thread, StartupResume(c) PROVE Good'
  <1> USE ConstantsAssumption DEF Good, Sound, StartupResume, At, Executes, Goto, tcb, queue, time
  <1>1. TypeOK'
    BY DEF TypeOK, Place, Error, Isr, Stat
  <1>2. InvLists' /\ ~raced'
    BY ListsFrame
  <1>3. InvRun' /\ InvIdle' /\ InvBoot' /\ InvTimer'
    BY DEF TypeOK, InvRun, InvIdle, InvBoot, InvTimer
  <1>4. InvControl'
    BY DEF TypeOK, InvControl, InKill, InResume
  <1>5. InvReap'
    BY DEF TypeOK, InvIdle, InvReap
  <1>6. InvHigh'
    BY DEF TypeOK, InvHigh
  <1> QED BY <1>1, <1>2, <1>3, <1>4, <1>5, <1>6

\* rt_thread_delete, its tests.
LEMMA KillStep == ASSUME Good, NEW c \in Thread, NEW t \in Thread, Kill(c, t) PROVE Good'
  <1> USE ConstantsAssumption DEF Good, Sound, Kill, Enters, At, Executes, Goto, tcb, queue, time
  <1>1. TypeOK'
    BY DEF TypeOK, Place, Error, Isr, Stat
  <1>2. InvLists' /\ ~raced'
    BY ListsFrame
  <1>3. InvRun' /\ InvIdle' /\ InvBoot' /\ InvTimer'
    BY DEF TypeOK, InvRun, InvIdle, InvBoot, InvTimer
  <1>4. InvControl'
    BY DEF TypeOK, InvControl, InKill, InResume
  <1>5. InvReap'
    BY DEF TypeOK, InvIdle, InvReap
  <1>6. InvHigh'
    BY DEF TypeOK, InvHigh
  <1> QED BY <1>1, <1>2, <1>3, <1>4, <1>5, <1>6

\* The idle thread reads the head of the defunct list.
LEMMA IdleDequeueStep == ASSUME Good, IdleDequeue PROVE Good'
  <1> USE ConstantsAssumption DEF Good, Sound, IdleDequeue, At, Executes, Goto, tcb, queue, time
  <1>1. TypeOK'
    <2>0. defunct \in Seq(Thread) /\ defunct # <<>>
      BY DEF TypeOK
    <2>1. Head(defunct) \in Thread
      BY ONLY <2>0, ListEmpty
    <2> QED BY <2>1 DEF TypeOK, Place
  <1>2. InvLists' /\ ~raced'
    BY ListsFrame
  <1>3. InvRun' /\ InvIdle' /\ InvBoot' /\ InvTimer'
    BY DEF TypeOK, InvRun, InvIdle, InvBoot, InvTimer
  <1>4. InvControl'
    BY DEF TypeOK, InvControl, InKill, InResume
  <1>5. InvReap'
    <2>0. defunct \in Seq(Thread) /\ defunct # <<>>
      BY DEF TypeOK
    <2>1. Head(defunct) \in Range(defunct) /\ Head(defunct) \in Thread
      BY ONLY <2>0, ListEmpty
    <2> QED BY <2>1 DEF TypeOK, InvReap, InvLists, InvDefunct
  <1>6. InvHigh'
    BY DEF TypeOK, InvHigh
  <1> QED BY <1>1, <1>2, <1>3, <1>4, <1>5, <1>6

\* The tick counts down the slice and the timers.
LEMMA TickIncreaseStep == ASSUME Good, TickIncrease PROVE Good'
  <1> USE ConstantsAssumption DEF Good, Sound, TickIncrease, InterruptsEnabled, queue, flow
  <1>1. TypeOK'
    <2>1. current \in Thread
      BY DEF TypeOK
    <2>2. slice' \in [Thread -> Nat \ {0}]
      <3>1. slice \in [Thread -> Nat \ {0}] /\ InitTick \in [Thread -> Nat \ {0}]
        BY DEF TypeOK
      <3>2. slice[current] # 1 => slice[current] - 1 \in Nat \ {0}
        BY ONLY <2>1, <3>1
      <3>3. slice' = [slice EXCEPT ![current] = IF slice[current] = 1
                                                THEN InitTick[current] ELSE slice[current] - 1]
        OBVIOUS
      <3> QED BY <2>1, <3>1, <3>2, <3>3
    <2>3. left' \in [Thread -> 0 .. MaxSleep]
      <3>1. \A u \in Thread : left[u] \in 0 .. MaxSleep /\ (u \in armed => left[u] > 0)
        BY DEF TypeOK, InvTimer
      <3>2. left' = [u \in Thread |-> IF u \in armed THEN left[u] - 1 ELSE left[u]]
        OBVIOUS
      <3>3. MaxSleep \in Nat
        OBVIOUS
      <3>4. \A u \in Thread : (IF u \in armed THEN left[u] - 1 ELSE left[u]) \in 0 .. MaxSleep
        BY <3>1, <3>3
      <3> QED BY ONLY <3>2, <3>4
    <2> QED BY <2>1, <2>2, <2>3 DEF TypeOK, Isr
  <1>2. InvLists' /\ ~raced'
    BY ListsFrame
  <1>3. InvRun' /\ InvIdle' /\ InvBoot' /\ InvTimer'
    BY DEF TypeOK, InvRun, InvIdle, InvBoot, InvTimer
  <1>4. InvControl'
    BY DEF TypeOK, InvControl, InKill, InResume
  <1>5. InvReap'
    BY DEF TypeOK, InvIdle, InvReap
  <1>6. InvHigh'
    BY DEF TypeOK, InvHigh
  <1> QED BY <1>1, <1>2, <1>3, <1>4, <1>5, <1>6

\* The tick handler returns.
LEMMA IsrLeaveStep == ASSUME Good, IsrLeave PROVE Good'
  <1> USE ConstantsAssumption DEF Good, Sound, IsrLeave, tcb, queue, time, flow
  <1>1. TypeOK'
    BY DEF TypeOK, Place, Error, Isr, Stat
  <1>2. InvLists' /\ ~raced'
    BY ListsFrame
  <1>3. InvRun' /\ InvIdle' /\ InvBoot' /\ InvTimer'
    BY DEF TypeOK, InvRun, InvIdle, InvBoot, InvTimer
  <1>4. InvControl'
    BY DEF TypeOK, InvControl, InKill, InResume
  <1>5. InvReap'
    BY DEF TypeOK, InvIdle, InvReap
  <1>6. InvHigh'
    BY DEF TypeOK, InvHigh
  <1> QED BY <1>1, <1>2, <1>3, <1>4, <1>5, <1>6

-----------------------------------------------------------------------------
(* The operations on the ready table, in terms of the sets of linked threads. *)

\* A table of ready lists in which no thread is linked twice in one list.
IsTable(rd) == rd \in [Prio -> Seq(Thread)] /\ \A p \in Prio : IsInjective(rd[p])

\* A ready list is empty when nobody is linked in it.
LEMMA TableEmpty ==
    ASSUME NEW rd, IsTable(rd), NEW p \in Prio
    PROVE  /\ rd[p] = <<>> <=> Range(rd[p]) = {}
           /\ Range(rd[p]) \subseteq Thread
           /\ rd[p] # <<>> => Head(rd[p]) \in Range(rd[p])
  BY ListEmpty DEF IsTable

\* rt_list_remove of a thread's node.
LEMMA UnlinkedTable ==
    ASSUME NEW rd, IsTable(rd), NEW t \in Thread
    PROVE  /\ IsTable(Unlinked(rd, t))
           /\ \A p \in Prio : Range(Unlinked(rd, t)[p]) = Range(rd[p]) \ {t}
           /\ (\A p \in Prio : t \notin Range(rd[p])) => Unlinked(rd, t) = rd
  <1>1. \A p \in Prio : /\ Unlink(rd[p], t) \in Seq(Thread)
                        /\ IsInjective(Unlink(rd[p], t))
                        /\ Range(Unlink(rd[p], t)) = Range(rd[p]) \ {t}
                        /\ t \notin Range(rd[p]) => Unlink(rd[p], t) = rd[p]
    BY UnlinkUnlinks DEF IsTable
  <1> QED BY <1>1 DEF IsTable, Unlinked

\* Linking a thread at either end of one list.
LEMMA LinkedTable ==
    ASSUME NEW rd, IsTable(rd), NEW t \in Thread, NEW q \in Prio, NEW y,
           t \notin Range(rd[q])
    PROVE  /\ IsTable(Linked(rd, t, q, y))
           /\ \A p \in Prio : Range(Linked(rd, t, q, y)[p]) =
                                 IF p = q THEN Range(rd[p]) \cup {t} ELSE Range(rd[p])
  <1> DEFINE l == IF y THEN InsertBefore(rd[q], t) ELSE InsertAfter(rd[q], t)
  <1>1. l \in Seq(Thread) /\ IsInjective(l) /\ Range(l) = Range(rd[q]) \cup {t}
    BY InsertAfterLinks, InsertBeforeLinks DEF IsTable
  <1>2. Linked(rd, t, q, y) = [rd EXCEPT ![q] = l]
    BY DEF Linked
  <1> QED BY <1>1, <1>2 DEF IsTable

\* The invariant makes the ready table one, and its lists are disjoint.
LEMMA ReadyIsTable ==
    ASSUME Good
    PROVE  /\ IsTable(ready)
           /\ \A t \in Thread, p \in Prio :
                t \in Range(ready[p]) => stat[t] = "READY" /\ prio[t] = p
  BY DEF Good, Sound, InvLists, TypeOK, InvTable, IsTable

\* A thread that is not READY is on no ready list.
LEMMA UnlinkedNowhere ==
    ASSUME Good, NEW t \in Thread, stat[t] # "READY"
    PROVE  Unlinked(ready, t) = ready /\ \A p \in Prio : t \notin Range(ready[p])
  BY ReadyIsTable, UnlinkedTable

\* The thread a delete or a resume is about is neither its caller nor idle.
LEMMA CallTarget ==
    ASSUME Good, NEW c \in Thread, InKill(c) \/ InResume(c)
    PROVE  tgt[c] \in Target[c] /\ tgt[c] \in Thread /\ tgt[c] # c /\ tgt[c] # Idle
  BY ConstantsAssumption DEF Good, Sound, InvControl

\* rt_schedule_remove_thread of a thread that is linked nowhere changes nothing.
LEMMA RemoveUnlinked ==
    ASSUME Good, NEW t \in Thread, stat[t] \notin {"READY", "CLOSE"},
           rt_schedule_remove_thread(t)
    PROVE  UNCHANGED <<ready, group, defunct>>
  <1> USE DEF Good, Sound, InvLists
  <1>1. ready' = ready
    BY ReadyIsTable, UnlinkedTable DEF rt_schedule_remove_thread
  <1>2. defunct' = defunct
    BY UnlinkUnlinks DEF rt_schedule_remove_thread, InvDefunct, TypeOK
  <1>3. group' = group
    BY <1>1 DEF rt_schedule_remove_thread, InvBitmap, TypeOK
  <1> QED BY <1>1, <1>2, <1>3

\* rt_schedule_insert_thread of a suspended or new thread, which the caller has
\* taken off the list it waited in: it becomes READY on the list of its
\* priority, or RUNNING if it still has the processor.
LEMMA InsertUnlinked ==
    ASSUME Good, NEW t \in Thread, stat[t] \in {"INIT", "SUSPEND"},
           rt_schedule_insert_thread(t, ready), UNCHANGED <<prio, defunct, current>>,
           waiting' = waiting \ {t}
    PROVE  /\ stat' = [stat EXCEPT ![t] = IF t = current THEN "RUNNING" ELSE "READY"]
           /\ ready' \in [Prio -> Seq(Thread)] /\ group' \subseteq Prio
           /\ doomed' = doomed \ {t} /\ InvLists'
  <1>0. IsTable(ready) /\ prio[t] \in Prio /\ \A p \in Prio : t \notin Range(ready[p])
    BY ReadyIsTable DEF Good, Sound, InvLists, TypeOK
  <1>1. stat' = [stat EXCEPT ![t] = IF t = current THEN "RUNNING" ELSE "READY"]
    BY DEF rt_schedule_insert_thread
  <1>2. /\ IsTable(ready')
        /\ \A p \in Prio : Range(ready'[p]) = IF p = prio[t] /\ t # current
                                              THEN Range(ready[p]) \cup {t}
                                              ELSE Range(ready[p])
    <2>1. CASE t = current
      BY <1>0, <2>1 DEF rt_schedule_insert_thread
    <2>2. CASE t # current
      <3>1. ready' = Linked(ready, t, prio[t], yield[t])
        BY <2>2 DEF rt_schedule_insert_thread
      <3> DEFINE y == yield[t]
                 q == prio[t]
      <3>2. /\ IsTable(Linked(ready, t, q, y))
            /\ \A p \in Prio : Range(Linked(ready, t, q, y)[p]) =
                                  IF p = q THEN Range(ready[p]) \cup {t} ELSE Range(ready[p])
        <4>1. IsTable(ready) /\ t \in Thread /\ q \in Prio /\ t \notin Range(ready[q])
          BY <1>0
        <4> HIDE DEF y, q
        <4> QED BY ONLY <4>1, LinkedTable
      <3> QED BY <2>2, <3>1, <3>2
    <2> QED BY <2>1, <2>2
  <1>3. group' = IF t = current THEN group ELSE group \cup {prio[t]}
    BY DEF rt_schedule_insert_thread
  <1>4. InvTable'
    <2> SUFFICES ASSUME NEW p \in Prio
                 PROVE  /\ IsInjective(ready'[p])
                        /\ \A u \in Range(ready'[p]) : stat'[u] = "READY" /\ prio'[u] = p
      BY DEF InvTable
    <2>1. \A u \in Range(ready[p]) : u \in Thread /\ u # t /\ stat[u] = "READY" /\ prio[u] = p
      BY <1>0, TableEmpty DEF Good, Sound, InvLists, InvTable
    <2>2. \A u \in Range(ready'[p]) : stat'[u] = "READY" /\ prio[u] = p
      BY <1>0, <1>1, <1>2, <2>1 DEF Good, Sound, InvLists, TypeOK
    <2> QED BY <1>2, <2>2 DEF IsTable
  <1>5. InvReady'
    <2>1. doomed' = doomed \ {t}
      BY DEF rt_schedule_insert_thread
    <2> QED BY <1>0, <1>1, <1>2, <2>1 DEF InvReady, Good, Sound, InvLists, TypeOK
  <1>6. InvBitmap'
    <2> SUFFICES ASSUME NEW p \in Prio PROVE p \in group' <=> ready'[p] # <<>>
      BY DEF InvBitmap
    <2>1. p \in group <=> Range(ready[p]) # {}
      BY <1>0, TableEmpty DEF Good, Sound, InvLists, InvBitmap
    <2> QED BY <1>2, <1>3, <2>1, TableEmpty
  <1>7. InvDefunct'
    BY <1>1 DEF InvDefunct, Good, Sound, InvLists, TypeOK
  <1>8. InvWaiting'
    BY <1>1 DEF InvWaiting, Good, Sound, InvLists, TypeOK
  <1>9. doomed' = doomed \ {t}
    BY DEF rt_schedule_insert_thread
  <1> QED BY <1>0, <1>1, <1>2, <1>3, <1>4, <1>5, <1>6, <1>7, <1>8, <1>9 DEF IsTable, Good, Sound, InvLists, TypeOK

-----------------------------------------------------------------------------
(* The actions that make a thread ready.                                    *)

\* rt_thread_startup during boot.
LEMMA BootStartupStep == ASSUME Good, NEW t \in Thread, BootStartup(t) PROVE Good'
  <1> USE ConstantsAssumption DEF Good, Sound, BootStartup
  <1>1. waiting' = waiting \ {t}
    BY DEF InvBoot
  <1>3. /\ stat' = [stat EXCEPT ![t] = IF t = current THEN "RUNNING" ELSE "READY"]
        /\ ready' \in [Prio -> Seq(Thread)] /\ group' \subseteq Prio
        /\ doomed' = doomed \ {t} /\ InvLists'
    BY <1>1, InsertUnlinked
  <1>4. TypeOK'
    BY <1>3 DEF TypeOK, Stat
  <1>5. InvRun' /\ InvIdle' /\ InvBoot' /\ InvTimer'
    BY <1>3 DEF TypeOK, InvRun, InvIdle, InvBoot, InvTimer
  <1>6. InvControl' /\ InvReap' /\ InvHigh'
    BY <1>3 DEF TypeOK, InvControl, InKill, InResume, InvIdle, InvBoot, InvReap, InvHigh
  <1> QED BY <1>3, <1>4, <1>5, <1>6

\* An IPC object wakes a thread that waits for it.
LEMMA WakeStep == ASSUME Good, NEW c \in Thread, NEW t \in Thread, Wake(c, t) PROVE Good'
  <1> USE ConstantsAssumption DEF Good, Sound, Wake, ResumeAtomically, Enters, At, Executes, Goto
  <1>1. t \in Thread /\ t # Idle /\ stat[t] \in {"INIT", "SUSPEND"}
    BY DEF TypeOK, InvTimer, InvIdle, InvLists, InvWaiting
  <1>2. rt_schedule_insert_thread(t, ready)
    BY <1>1, UnlinkedNowhere
  <1>3. /\ stat' = [stat EXCEPT ![t] = IF t = current THEN "RUNNING" ELSE "READY"]
        /\ ready' \in [Prio -> Seq(Thread)] /\ group' \subseteq Prio
        /\ doomed' = doomed \ {t} /\ InvLists'
    BY <1>1, <1>2, InsertUnlinked
  <1>4. TypeOK'
    BY <1>1, <1>3 DEF TypeOK, Stat, Place, Isr, Error
  <1>5. InvRun' /\ InvIdle' /\ InvBoot' /\ InvTimer'
    BY <1>1, <1>3 DEF TypeOK, InvRun, InvIdle, InvBoot, InvTimer
  <1>6. InvControl'
    BY DEF TypeOK, InvControl, InKill, InResume
  <1>7. InvReap'
    BY <1>1, <1>3 DEF TypeOK, InvIdle, InvReap
  <1>8. InvHigh'
    BY <1>1, <1>3 DEF TypeOK, InvHigh
  <1> QED BY <1>3, <1>4, <1>5, <1>6, <1>7, <1>8

\* An interrupt handler wakes a thread.
LEMMA IsrWakeStep == ASSUME Good, NEW t \in Thread, IsrWake(t) PROVE Good'
  <1> USE ConstantsAssumption DEF Good, Sound, IsrWake, InterruptsEnabled, ResumeAtomically
  <1>1. t \in Thread /\ t # Idle /\ stat[t] \in {"INIT", "SUSPEND"}
    BY DEF TypeOK, InvTimer, InvIdle, InvLists, InvWaiting
  <1>2. rt_schedule_insert_thread(t, ready)
    BY <1>1, UnlinkedNowhere
  <1>3. /\ stat' = [stat EXCEPT ![t] = IF t = current THEN "RUNNING" ELSE "READY"]
        /\ ready' \in [Prio -> Seq(Thread)] /\ group' \subseteq Prio
        /\ doomed' = doomed \ {t} /\ InvLists'
    BY <1>1, <1>2, InsertUnlinked
  <1>4. TypeOK'
    BY <1>1, <1>3 DEF TypeOK, Stat, Place, Isr, Error
  <1>5. InvRun' /\ InvIdle' /\ InvBoot' /\ InvTimer'
    BY <1>1, <1>3 DEF TypeOK, InvRun, InvIdle, InvBoot, InvTimer
  <1>6. InvControl'
    BY DEF TypeOK, InvControl, InKill, InResume
  <1>7. InvReap'
    BY <1>1, <1>3 DEF TypeOK, InvIdle, InvReap
  <1>8. InvHigh'
    BY <1>1, <1>3 DEF TypeOK, InvHigh
  <1> QED BY <1>3, <1>4, <1>5, <1>6, <1>7, <1>8

\* _thread_timeout: the thread is suspended, whoever is about to delete it.
LEMMA TimerExpireStep == ASSUME Good, NEW t \in Thread, TimerExpire(t) PROVE Good'
  <1> USE ConstantsAssumption DEF Good, Sound, TimerExpire
  <1>1. t \in Thread /\ t # Idle /\ stat[t] \in {"INIT", "SUSPEND"}
    BY DEF TypeOK, InvTimer, InvIdle, InvLists, InvWaiting
  <1>2. rt_schedule_insert_thread(t, ready)
    BY <1>1, UnlinkedNowhere
  <1>3. /\ stat' = [stat EXCEPT ![t] = IF t = current THEN "RUNNING" ELSE "READY"]
        /\ ready' \in [Prio -> Seq(Thread)] /\ group' \subseteq Prio
        /\ doomed' = doomed \ {t} /\ InvLists'
    BY <1>1, <1>2, InsertUnlinked
  <1>4. TypeOK'
    BY <1>1, <1>3 DEF TypeOK, Stat, Place, Isr, Error
  <1>5. InvRun' /\ InvIdle' /\ InvBoot' /\ InvTimer'
    BY <1>1, <1>3 DEF TypeOK, InvRun, InvIdle, InvBoot, InvTimer
  <1>6. InvControl'
    BY DEF TypeOK, InvControl, InKill, InResume
  <1>7. InvReap'
    BY <1>1, <1>3 DEF TypeOK, InvIdle, InvReap
  <1>8. InvHigh'
    BY <1>1, <1>3 DEF TypeOK, InvHigh
  <1> QED BY <1>3, <1>4, <1>5, <1>6, <1>7, <1>8

-----------------------------------------------------------------------------
(* The regions that may find the thread they are about changed: they keep the *)
(* types whatever they find, and the rest unless they record it.              *)

\* Linking and unlinking keep the type of the table, whatever it holds.
LEMMA TableTypes ==
    ASSUME NEW rd \in [Prio -> Seq(Thread)], NEW t \in Thread, NEW q \in Prio, NEW y
    PROVE  /\ Unlinked(rd, t) \in [Prio -> Seq(Thread)]
           /\ Linked(rd, t, q, y) \in [Prio -> Seq(Thread)]
  <1>1. \A p \in Prio : Unlink(rd[p], t) \in Seq(Thread)
    BY UnlinkUnlinks
  <1>2. InsertBefore(rd[q], t) \in Seq(Thread) /\ InsertAfter(rd[q], t) \in Seq(Thread)
    BY InsertAfterLinks, InsertBeforeLinks
  <1>3. Linked(rd, t, q, y) =
          [rd EXCEPT ![q] = IF y THEN InsertBefore(rd[q], t) ELSE InsertAfter(rd[q], t)]
    BY DEF Linked
  <1> QED BY <1>1, <1>2, <1>3 DEF Unlinked

\* The last step of rt_thread_resume.
LEMMA ResumeInsertStep ==
    ASSUME Good, NEW c \in Thread, ResumeInsert(c)
    PROVE  TypeOK' /\ (~raced' => Sound')
  <1> DEFINE t == tgt[c]
  <1>0. /\ c = current /\ isr = "none" /\ pc[c] = "res_ins" /\ t \in Thread /\ t # c /\ t # Idle
        /\ c # Idle /\ stat[c] = "RUNNING" /\ rt_schedule_insert_thread(t, ready)
        /\ raced' = ~(stat[t] = "SUSPEND" /\ t \notin waiting \cup armed)
        /\ pc' = [pc EXCEPT ![c] = "sched"]
        /\ UNCHANGED <<yield, prio, slice, defunct, waiting, current, lock_nest, armed, left,
                       error, tgt, isr, reprio>>
    <2>1. InResume(c)
      BY DEF ResumeInsert, At, Executes, InResume
    <2> QED BY <2>1, CallTarget DEF ResumeInsert, At, Executes, Goto, time, Good, Sound, InvIdle, InvRun
  <1> HIDE DEF t
  <1>1. TypeOK'
    <2>1. prio[t] \in Prio /\ ready \in [Prio -> Seq(Thread)] /\ t \in Thread
      BY <1>0 DEF Good, TypeOK
    <2>2. /\ stat' \in [Thread -> Stat] /\ group' \subseteq Prio /\ doomed' \subseteq Thread
      BY <1>0, <2>1 DEF rt_schedule_insert_thread, Good, TypeOK, Stat
    <2>3. ready' \in [Prio -> Seq(Thread)]
      <3> DEFINE q == prio[t]
                 y == yield[t]
      <3>1. ready' = ready \/ ready' = Linked(ready, t, q, y)
        BY <1>0 DEF rt_schedule_insert_thread
      <3>2. q \in Prio
        BY <2>1
      <3> HIDE DEF q, y
      <3>3. Linked(ready, t, q, y) \in [Prio -> Seq(Thread)]
        BY ONLY <2>1, <3>2, TableTypes
      <3> QED BY <2>1, <3>1, <3>3
    <2>4. pc' \in [Thread -> Place]
      BY <1>0 DEF Good, TypeOK, Place
    <2> QED BY <1>0, <2>2, <2>3, <2>4 DEF Good, TypeOK
  <1>2. ASSUME ~raced' PROVE Sound'
    <2>1. stat[t] = "SUSPEND" /\ t \notin waiting /\ t \notin armed
      BY <1>0, <1>2
    <2>2. waiting' = waiting \ {t}
      BY <1>0, <2>1
    <2>3. /\ stat' = [stat EXCEPT ![t] = IF t = current THEN "RUNNING" ELSE "READY"]
          /\ doomed' = doomed \ {t} /\ InvLists'
      BY <1>0, <2>1, <2>2, InsertUnlinked
    <2>4. \A u \in Thread : stat'[u] = IF u = t THEN "READY" ELSE stat[u]
      BY <1>0, <2>3 DEF Good, TypeOK
    <2>5. \A u \in Thread : pc'[u] = IF u = c THEN "sched" ELSE pc[u]
      BY <1>0 DEF Good, TypeOK
    <2>6. InvRun'
      BY <1>0, <2>1, <2>4, <2>5 DEF Good, Sound, InvRun
    <2>7. InvIdle' /\ InvBoot'
      BY <1>0, <2>3, <2>4, <2>5, ConstantsAssumption DEF Good, Sound, InvIdle, InvBoot
    <2>8. InvTimer'
      BY <1>0, <2>1, <2>4 DEF Good, Sound, TypeOK, InvTimer
    <2>9. InvControl'
      BY <1>0, <2>5 DEF Good, Sound, InvControl, InKill, InResume
    <2>10. InvReap'
      <3>1. Idle \in Thread /\ tgt[Idle] \in Thread
        BY ConstantsAssumption DEF Good, TypeOK
      <3> QED BY <1>0, <2>1, <2>4, <2>5, <3>1 DEF Good, Sound, InvReap
    <2>11. InvHigh'
      BY <1>0, <2>5 DEF InvHigh
    <2> QED BY <2>3, <2>6, <2>7, <2>8, <2>9, <2>10, <2>11 DEF Sound
  <1> QED BY <1>1, <1>2

\* Its critical section.
LEMMA ResumeUnlinkStep ==
    ASSUME Good, NEW c \in Thread, ResumeUnlink(c)
    PROVE  TypeOK' /\ (~raced' => Sound')
  <1> DEFINE t == tgt[c]
  <1>0. /\ c = current /\ isr = "none" /\ pc[c] = "res_cs" /\ t \in Thread /\ t # c /\ t # Idle
        /\ c # Idle /\ stat[c] = "RUNNING" /\ InResume(c)
        /\ ready' = Unlinked(ready, t) /\ defunct' = Unlink(defunct, t)
        /\ waiting' = waiting \ {t} /\ armed' = armed \ {t}
        /\ raced' = (stat[t] # "SUSPEND")
        /\ pc' = [pc EXCEPT ![c] = "res_ins"]
        /\ UNCHANGED <<stat, yield, prio, slice, group, current, lock_nest, left, error, tgt,
                       isr, reprio, doomed>>
    <2>1. InResume(c)
      BY DEF ResumeUnlink, At, Executes, InResume
    <2> QED BY <2>1, CallTarget DEF ResumeUnlink, At, Executes, Goto, tcb, Good, Sound, InvIdle, InvRun
  <1> HIDE DEF t
  <1>1. TypeOK'
    <2>1. Unlinked(ready, t) \in [Prio -> Seq(Thread)]
      <3>1. ready \in [Prio -> Seq(Thread)] /\ \A p \in Prio : Unlink(ready[p], t) \in Seq(Thread)
        BY UnlinkUnlinks DEF Good, TypeOK
      <3> QED BY <3>1 DEF Unlinked
    <2>2. Unlink(defunct, t) \in Seq(Thread)
      BY UnlinkUnlinks DEF Good, TypeOK
    <2>3. pc' \in [Thread -> Place]
      BY <1>0 DEF Good, TypeOK, Place
    <2> QED BY <1>0, <2>1, <2>2, <2>3 DEF Good, TypeOK
  <1>2. ASSUME ~raced' PROVE Sound'
    <2>1. stat[t] = "SUSPEND"
      BY <1>0, <1>2
    <2>2. UNCHANGED <<ready, defunct>>
      <3>1. ready' = ready
        BY <1>0, <2>1, UnlinkedNowhere
      <3>2. t \notin Range(defunct) /\ defunct \in Seq(Thread)
        BY <1>0, <2>1 DEF Good, Sound, TypeOK, InvLists, InvDefunct
      <3> QED BY <1>0, <3>1, <3>2, UnlinkUnlinks
    <2>3. InvLists'
      BY <1>0, <2>2 DEF Good, Sound, InvLists, InvTable, InvReady, InvBitmap, InvWaiting, InvDefunct
    <2>5. \A u \in Thread : pc'[u] = IF u = c THEN "res_ins" ELSE pc[u]
      BY <1>0 DEF Good, TypeOK
    <2>6. InvRun'
      BY <1>0, <2>5 DEF Good, Sound, InvRun
    <2>7. InvIdle' /\ InvBoot' /\ InvTimer'
      BY <1>0, <2>5, ConstantsAssumption DEF Good, Sound, InvIdle, InvBoot, InvTimer
    <2>9. InvControl'
      BY <1>0, <2>5 DEF Good, Sound, InvControl, InKill, InResume
    <2>10. InvReap' /\ InvHigh'
      BY <1>0, <2>5, ConstantsAssumption DEF Good, Sound, InvReap, InvHigh
    <2> QED BY <2>3, <2>6, <2>7, <2>9, <2>10 DEF Sound
  <1> QED BY <1>1, <1>2

-----------------------------------------------------------------------------
(* The actions that change the state of a thread that is not READY.         *)

\* A change between states that no list stands for.
LEMMA QuietStat ==
    ASSUME Good, NEW t \in Thread, stat[t] \notin {"READY", "CLOSE"},
           NEW s, s \notin {"READY", "CLOSE"}, stat' = [stat EXCEPT ![t] = s],
           UNCHANGED <<ready, group, defunct, doomed>>,
           \A u \in Thread : u # t => prio'[u] = prio[u],
           waiting' \subseteq Thread, \A u \in waiting' : u \in waiting \/ u = t,
           t \in waiting' => s = "SUSPEND"
    PROVE  InvLists'
  <1> USE DEF Good, Sound, InvLists, TypeOK
  <1>1. InvTable'
    <2>1. \A p \in Prio : \A u \in Range(ready[p]) : u \in Thread /\ u # t
      BY ReadyIsTable, TableEmpty DEF InvTable
    <2> QED BY <2>1 DEF InvTable
  <1>2. InvReady' /\ InvBitmap'
    BY DEF InvReady, InvBitmap
  <1>3. InvDefunct'
    <2>1. \A u \in Range(defunct) : u \in Thread /\ u # t
      BY ListEmpty DEF InvDefunct
    <2> QED BY <2>1 DEF InvDefunct
  <1>4. InvWaiting'
    BY DEF InvWaiting
  <1> QED BY <1>1, <1>2, <1>3, <1>4

\* A thread that is linked nowhere is closed and queued for the idle thread.
LEMMA CloseThread ==
    ASSUME Good, NEW t \in Thread, t \notin Range(defunct), t \notin waiting,
           \A p \in Prio : t \notin Range(ready[p]),
           stat' = [stat EXCEPT ![t] = "CLOSE"], defunct' = InsertAfter(defunct, t),
           UNCHANGED <<prio, ready, group, waiting>>, doomed \ {t} \subseteq doomed'
    PROVE  defunct' \in Seq(Thread) /\ InvLists'
  <1> USE DEF Good, Sound, InvLists, TypeOK
  <1>1. /\ defunct' \in Seq(Thread) /\ Range(defunct') = Range(defunct) \cup {t}
        /\ IsInjective(defunct')
    <2>1. t \in Thread /\ defunct \in Seq(Thread) /\ IsInjective(defunct) /\ t \notin Range(defunct)
      BY DEF InvDefunct
    <2>2. defunct' = InsertAfter(defunct, t)
      OBVIOUS
    <2> QED BY ONLY <2>1, <2>2, InsertAfterLinks
  <1>2. InvTable'
    <2>1. \A p \in Prio : \A u \in Range(ready[p]) : u \in Thread /\ u # t
      BY ReadyIsTable, TableEmpty
    <2> QED BY <2>1 DEF InvTable
  <1>3. InvReady' /\ InvBitmap'
    BY DEF InvReady, InvBitmap
  <1>4. InvDefunct'
    <2>1. \A u \in Range(defunct) : u \in Thread /\ u # t
      BY ListEmpty
    <2> QED BY <1>1, <2>1 DEF InvDefunct
  <1>5. InvWaiting'
    BY DEF InvWaiting
  <1> QED BY <1>1, <1>2, <1>3, <1>4, <1>5

\* rt_thread_startup: the new thread passes through SUSPEND.
LEMMA StartupStep == ASSUME Good, NEW c \in Thread, NEW t \in Thread, Startup(c, t) PROVE Good'
  <1> USE ConstantsAssumption DEF Good, Sound, Startup, Enters, At, Executes, Goto, queue, time
  <1>1. t # c /\ t # Idle /\ c # Idle /\ c = current /\ stat[t] = "INIT" /\ t \notin waiting
    BY DEF InvLists, InvWaiting
  <1>2. TypeOK'
    BY <1>1 DEF TypeOK, Place, Stat, Error
  <1>3. InvLists' /\ ~raced'
    <2>1. \A u \in Thread : u # t => prio'[u] = prio[u]
      BY DEF TypeOK
    <2>2. waiting' \subseteq Thread /\ \A u \in waiting' : u \in waiting \/ u = t
      BY DEF TypeOK
    <2> QED BY <1>1, <2>1, <2>2, QuietStat
  <1>4. InvRun'
    BY <1>1 DEF TypeOK, InvRun
  <1>5. InvIdle' /\ InvBoot' /\ InvTimer'
    BY <1>1 DEF TypeOK, InvIdle, InvBoot, InvTimer
  <1>6. InvControl'
    BY DEF TypeOK, InvControl, InKill, InResume
  <1>7. InvReap'
    BY <1>1 DEF TypeOK, InvIdle, InvReap
  <1>8. InvHigh'
    BY <1>1 DEF TypeOK, InvHigh
  <1> QED BY <1>2, <1>3, <1>4, <1>5, <1>6, <1>7, <1>8

\* rt_thread_create and rt_thread_init on a free object.
LEMMA CreateStep == ASSUME Good, NEW c \in Thread, NEW t \in Thread, Create(c, t) PROVE Good'
  <1> USE ConstantsAssumption DEF Good, Sound, Create, Enters, At, Executes, Goto, queue, time
  <1>1. t # c /\ t # Idle /\ c # Idle /\ c = current /\ stat[t] = "FREE" /\ t \notin waiting
    BY DEF InvLists, InvWaiting
  <1>2. TypeOK'
    BY <1>1 DEF TypeOK, Place, Stat, Error
  <1>3. InvLists' /\ ~raced'
    <2>1. \A u \in Thread : u # t => prio'[u] = prio[u]
      BY DEF TypeOK
    <2>2. waiting' \subseteq Thread /\ \A u \in waiting' : u \in waiting \/ u = t
      BY DEF TypeOK
    <2> QED BY <1>1, <2>1, <2>2, QuietStat
  <1>4. InvRun'
    BY <1>1 DEF TypeOK, InvRun
  <1>5. InvIdle' /\ InvBoot' /\ InvTimer'
    BY <1>1 DEF TypeOK, InvIdle, InvBoot, InvTimer
  <1>6. InvControl'
    BY DEF TypeOK, InvControl, InKill, InResume
  <1>7. InvReap'
    BY <1>1 DEF TypeOK, InvIdle, InvReap
  <1>8. InvHigh'
    BY <1>1 DEF TypeOK, InvHigh
  <1> QED BY <1>2, <1>3, <1>4, <1>5, <1>6, <1>7, <1>8

\* rt_thread_suspend_with_flag by an IPC object: the caller was on no list.
LEMMA WaitStep ==
    ASSUME Good, NEW t \in Thread, NEW n \in 0 .. MaxSleep, Wait(t, n) PROVE Good'
  <1> USE ConstantsAssumption DEF Good, Sound, Wait, Enters, At, Executes, Goto, rt_thread_suspend
  <1>0. t # Idle /\ t = current /\ stat[t] = "RUNNING" /\ lock_nest = 0 /\ isr = "none"
    BY DEF InvRun
  <1>1. UNCHANGED <<ready, group, defunct>> /\ stat' = [stat EXCEPT ![t] = "SUSPEND"]
    BY <1>0, RemoveUnlinked
  <1>2. TypeOK'
    <2>1. left' \in [Thread -> 0 .. MaxSleep] /\ armed' \subseteq Thread
      BY DEF TypeOK
    <2> QED BY <1>0, <1>1, <2>1 DEF TypeOK, Place, Stat
  <1>3. InvLists' /\ ~raced'
    <2>1. \A u \in Thread : u # t => prio'[u] = prio[u]
      BY DEF TypeOK
    <2>2. waiting' \subseteq Thread /\ \A u \in waiting' : u \in waiting \/ u = t
      BY DEF TypeOK
    <2> QED BY <1>0, <1>1, <2>1, <2>2, QuietStat
  <1>4. InvRun'
    BY <1>0, <1>1 DEF TypeOK, InvRun
  <1>5. InvIdle' /\ InvBoot'
    BY <1>0, <1>1 DEF TypeOK, InvIdle, InvBoot
  <1>6. InvTimer'
    <2>0. armed' = IF n = 0 THEN armed \ {t} ELSE armed \cup {t}
      OBVIOUS
    <2>1. \A u \in armed' : (u = t /\ n # 0) \/ (u # t /\ u \in armed)
      BY ONLY <2>0
    <2>2. left'[t] = n
      BY DEF TypeOK
    <2> QED BY <1>0, <1>1, <2>1, <2>2 DEF TypeOK, InvTimer
  <1>7. InvControl'
    BY DEF TypeOK, InvControl, InKill, InResume
  <1>8. InvReap'
    BY <1>0, <1>1 DEF TypeOK, InvIdle, InvReap
  <1>9. InvHigh'
    BY <1>0, <1>1 DEF TypeOK, InvHigh
  <1> QED BY <1>2, <1>3, <1>4, <1>5, <1>6, <1>7, <1>8, <1>9

\* rt_thread_sleep: as above, and the timer is started.
LEMMA SleepStep ==
    ASSUME Good, NEW t \in Thread, NEW n \in 1 .. MaxSleep, Sleep(t, n) PROVE Good'
  <1> USE ConstantsAssumption DEF Good, Sound, Sleep, Enters, At, Executes, Goto, rt_thread_suspend
  <1>0. t # Idle /\ t = current /\ stat[t] = "RUNNING" /\ lock_nest = 0 /\ isr = "none"
        /\ t \notin waiting
    BY DEF InvRun, InvLists, InvWaiting
  <1>1. UNCHANGED <<ready, group, defunct>> /\ stat' = [stat EXCEPT ![t] = "SUSPEND"]
    BY <1>0, RemoveUnlinked
  <1>2. TypeOK'
    <2>1. left' \in [Thread -> 0 .. MaxSleep] /\ armed' \subseteq Thread
      BY DEF TypeOK
    <2> QED BY <1>0, <1>1, <2>1 DEF TypeOK, Place, Stat, Error
  <1>3. InvLists' /\ ~raced'
    <2>1. \A u \in Thread : u # t => prio'[u] = prio[u]
      BY DEF TypeOK
    <2>2. waiting' \subseteq Thread /\ \A u \in waiting' : u \in waiting \/ u = t
      BY DEF TypeOK
    <2> QED BY <1>0, <1>1, <2>1, <2>2, QuietStat
  <1>4. InvRun'
    BY <1>0, <1>1 DEF TypeOK, InvRun
  <1>5. InvIdle' /\ InvBoot'
    BY <1>0, <1>1 DEF TypeOK, InvIdle, InvBoot
  <1>6. InvTimer'
    BY <1>0, <1>1 DEF TypeOK, InvTimer
  <1>7. InvControl'
    BY DEF TypeOK, InvControl, InKill, InResume
  <1>8. InvReap'
    BY <1>0, <1>1 DEF TypeOK, InvIdle, InvReap
  <1>9. InvHigh'
    BY <1>0, <1>1 DEF TypeOK, InvHigh
  <1> QED BY <1>2, <1>3, <1>4, <1>5, <1>6, <1>7, <1>8, <1>9

\* _thread_exit: the running thread was on no list.
LEMMA ExitStep == ASSUME Good, NEW t \in Thread, Exit(t) PROVE Good'
  <1>0. /\ t # Idle /\ t = current /\ stat[t] = "RUNNING" /\ t \notin waiting /\ isr = "none"
        /\ ready' = Unlinked(ready, t)
        /\ group' = IF ready'[prio[t]] = <<>> THEN group \ {prio[t]} ELSE group
        /\ armed' = armed \ {t} /\ stat' = [stat EXCEPT ![t] = "CLOSE"]
        /\ yield' = [yield EXCEPT ![t] = FALSE] /\ defunct' = InsertAfter(defunct, t)
        /\ pc' = [pc EXCEPT ![t] = "exit"]
        /\ UNCHANGED <<prio, slice, waiting, current, lock_nest, left, error, tgt, isr, reprio,
                       doomed, raced>>
    BY ConstantsAssumption
       DEF Exit, Enters, At, Executes, Goto, Good, Sound, InvRun, InvLists, InvWaiting
  <1>1. UNCHANGED <<ready, group>>
    <2>1. ready' = ready
      BY <1>0, UnlinkedNowhere
    <2>2. group' = group
      BY <1>0, <2>1 DEF Good, Sound, InvLists, InvBitmap, TypeOK
    <2> QED BY <2>1, <2>2
  <1>3. defunct' \in Seq(Thread) /\ InvLists'
    <2>2. t \notin Range(defunct) /\ \A p \in Prio : t \notin Range(ready[p])
      BY <1>0, UnlinkedNowhere DEF Good, Sound, InvLists, InvDefunct
    <2> QED BY <1>0, <1>1, <2>2, CloseThread
  <1>2. TypeOK'
    <2>1. stat' \in [Thread -> Stat] /\ pc' \in [Thread -> Place]
      BY <1>0 DEF Good, TypeOK, Stat, Place
    <2>2. yield' \in [Thread -> BOOLEAN] /\ armed' \subseteq Thread
      BY <1>0 DEF Good, TypeOK
    <2> QED BY <1>0, <1>1, <1>3, <2>1, <2>2 DEF Good, TypeOK
  <1>4. \A u \in Thread : stat'[u] = IF u = t THEN "CLOSE" ELSE stat[u]
    BY <1>0 DEF Good, TypeOK
  <1>5. \A u \in Thread : pc'[u] = IF u = t THEN "exit" ELSE pc[u]
    BY <1>0 DEF Good, TypeOK
  <1>6. InvRun'
    BY <1>0, <1>4, <1>5 DEF Good, Sound, InvRun
  <1>7. InvIdle' /\ InvBoot' /\ InvTimer'
    <2>1. Idle \in Thread /\ current' # NoThread /\ armed \subseteq Thread
      BY <1>0, ConstantsAssumption DEF Good, TypeOK
    <2> QED BY <1>0, <1>4, <1>5, <2>1 DEF Good, Sound, InvIdle, InvBoot, InvTimer
  <1>8. InvControl'
    BY <1>0, <1>5 DEF Good, Sound, InvControl, InKill, InResume
  <1>9. InvReap' /\ InvHigh'
    <2>1. Idle \in Thread /\ tgt[Idle] \in Thread
      BY ConstantsAssumption DEF Good, TypeOK
    <2> QED BY <1>0, <1>4, <1>5, <2>1 DEF Good, Sound, InvReap, InvHigh
  <1> QED BY <1>0, <1>2, <1>3, <1>6, <1>7, <1>8, <1>9 DEF Good, Sound

\* The critical section of rt_thread_delete.
LEMMA KillCloseStep ==
    ASSUME Good, NEW c \in Thread, KillClose(c)
    PROVE  TypeOK' /\ (~raced' => Sound')
  <1> DEFINE t == tgt[c]
  <1>0. /\ c = current /\ isr = "none" /\ pc[c] = "kill" /\ t \in Thread /\ t # c /\ t # Idle
        /\ c # Idle /\ stat[c] = "RUNNING"
        /\ armed' = armed \ {t} /\ stat' = [stat EXCEPT ![t] = "CLOSE"]
        /\ yield' = [yield EXCEPT ![t] = FALSE] /\ defunct' = InsertAfter(defunct, t)
        /\ doomed' = doomed \ {t}
        /\ raced' = (IsLinked(t) \/ stat[t] \in {"FREE", "CLOSE"})
        /\ (pc' = [pc EXCEPT ![c] = "user"] \/ pc' = [pc EXCEPT ![c] = "sched"])
        /\ UNCHANGED <<prio, slice, ready, group, waiting, current, lock_nest, left, error,
                       tgt, isr, reprio>>
    <2>1. InKill(c)
      BY DEF KillClose, At, Executes, InKill
    <2> QED BY <2>1, CallTarget DEF KillClose, At, Executes, Goto, Good, Sound, InvIdle, InvRun
  <1> HIDE DEF t
  <1>1. TypeOK'
    <2>1. stat' \in [Thread -> Stat] /\ pc' \in [Thread -> Place] /\ raced' \in BOOLEAN
      BY <1>0 DEF Good, TypeOK, Stat, Place
    <2>2. yield' \in [Thread -> BOOLEAN] /\ armed' \subseteq Thread /\ doomed' \subseteq Thread
      BY <1>0 DEF Good, TypeOK
    <2>3. defunct' \in Seq(Thread)
      BY <1>0, InsertAfterLinks DEF Good, TypeOK
    <2> QED BY <1>0, <2>1, <2>2, <2>3 DEF Good, TypeOK
  <1>2. ASSUME ~raced' PROVE Sound'
    <2>1. t \notin waiting /\ t \notin Range(defunct) /\ \A p \in Prio : t \notin Range(ready[p])
      BY <1>0, <1>2 DEF IsLinked
    <2>3. InvLists'
      BY <1>0, <2>1, CloseThread
    <2>4. \A u \in Thread : stat'[u] = IF u = t THEN "CLOSE" ELSE stat[u]
      BY <1>0 DEF Good, TypeOK
    <2>5. /\ \A u \in Thread : u # c => pc'[u] = pc[u]
          /\ pc'[c] \in {"user", "sched"}
      BY <1>0 DEF Good, TypeOK
    <2>6. InvRun'
      BY <1>0, <2>4, <2>5 DEF Good, Sound, InvRun
    <2>7. InvIdle' /\ InvBoot' /\ InvTimer'
      <3>1. Idle \in Thread /\ current' # NoThread /\ armed \subseteq Thread
        BY <1>0, ConstantsAssumption DEF Good, TypeOK
      <3> QED BY <1>0, <2>4, <2>5, <3>1 DEF Good, Sound, InvIdle, InvBoot, InvTimer
    <2>9. InvControl'
      BY <1>0, <2>5 DEF Good, Sound, InvControl, InKill, InResume
    <2>10. InvReap' /\ InvHigh'
      <3>1. Idle \in Thread /\ tgt[Idle] \in Thread
        BY ConstantsAssumption DEF Good, TypeOK
      <3> QED BY <1>0, <2>4, <2>5, <3>1 DEF Good, Sound, InvReap, InvHigh
    <2> QED BY <2>3, <2>6, <2>7, <2>9, <2>10 DEF Sound
  <1> QED BY <1>1, <1>2

\* The idle thread releases a closed thread.
LEMMA IdleReleaseStep == ASSUME Good, IdleRelease PROVE Good'
  <1> DEFINE t == tgt[Idle]
  <1>0. /\ Idle \in Thread /\ current = Idle /\ isr = "none" /\ pc[Idle] = "reap"
        /\ t \in Thread /\ stat[t] = "CLOSE" /\ t # Idle /\ t \notin waiting
        /\ defunct' = Unlink(defunct, t) /\ stat' = [stat EXCEPT ![t] = "FREE"]
        /\ pc' = [pc EXCEPT ![Idle] = "user"]
        /\ UNCHANGED <<yield, prio, slice, ready, group, waiting, current, lock_nest, armed, left,
                       error, tgt, isr, reprio, doomed, raced>>
    BY ConstantsAssumption
       DEF IdleRelease, At, Executes, Goto, time, Good, Sound, TypeOK, InvReap, InvIdle, InvLists, InvWaiting
  <1> HIDE DEF t
  <1>1. /\ defunct' \in Seq(Thread) /\ IsInjective(defunct')
        /\ Range(defunct') = Range(defunct) \ {t}
    BY <1>0, UnlinkUnlinks DEF Good, Sound, TypeOK, InvLists, InvDefunct
  <1>2. TypeOK'
    <2>1. stat' \in [Thread -> Stat] /\ pc' \in [Thread -> Place]
      BY <1>0 DEF Good, TypeOK, Stat, Place
    <2> QED BY <1>0, <1>1, <2>1 DEF Good, TypeOK
  <1>4. \A u \in Thread : stat'[u] = IF u = t THEN "FREE" ELSE stat[u]
    BY <1>0 DEF Good, TypeOK
  <1>5. \A u \in Thread : pc'[u] = IF u = Idle THEN "user" ELSE pc[u]
    BY <1>0 DEF Good, TypeOK
  <1>3. InvLists'
    <2>2. \A p \in Prio : \A u \in Range(ready[p]) : u \in Thread /\ u # t
      BY <1>0, ReadyIsTable, TableEmpty
    <2>3. InvTable' /\ InvReady' /\ InvBitmap'
      BY <1>0, <1>4, <2>2 DEF Good, Sound, InvLists, InvTable, InvReady, InvBitmap
    <2>4. \A u \in Range(defunct) : u \in Thread
      BY ListEmpty DEF Good, TypeOK
    <2>5. InvDefunct'
      BY <1>0, <1>1, <1>4, <2>4 DEF Good, Sound, InvLists, InvDefunct
    <2>6. InvWaiting'
      BY <1>0, <1>4 DEF Good, Sound, TypeOK, InvLists, InvWaiting
    <2> QED BY <2>3, <2>5, <2>6 DEF InvLists
  <1>6. InvRun'
    BY <1>0, <1>4, <1>5 DEF Good, Sound, InvRun
  <1>7. InvIdle' /\ InvBoot' /\ InvTimer'
    <2>1. armed \subseteq Thread /\ current' # NoThread
      BY <1>0, ConstantsAssumption DEF Good, TypeOK
    <2> QED BY <1>0, <1>4, <1>5, <2>1 DEF Good, Sound, InvIdle, InvBoot, InvTimer
  <1>8. InvControl' /\ InvReap' /\ InvHigh'
    BY <1>0, <1>5 DEF Good, Sound, InvControl, InKill, InResume, InvReap, InvHigh
  <1> QED BY <1>0, <1>2, <1>3, <1>6, <1>7, <1>8 DEF Good, Sound

-----------------------------------------------------------------------------
(* The bitmap along with the table.                                         *)

\* g has the bits of the non-empty lists of the table rd.
Bits(rd, g) ==
    /\ IsTable(rd) /\ g \subseteq Prio
    /\ \A p \in Prio : p \in g <=> Range(rd[p]) # {}

\* The invariant makes rt_thread_ready_priority_group the bitmap of the table.
LEMMA BitsNow ==
    ASSUME Good
    PROVE  Bits(ready, group)
  <1>1. IsTable(ready) /\ group \subseteq Prio
    BY ReadyIsTable DEF Good, TypeOK
  <1>2. \A p \in Prio : p \in group <=> ready[p] # <<>>
    BY DEF Good, Sound, InvLists, InvBitmap
  <1>3. \A p \in Prio : ready[p] # <<>> <=> Range(ready[p]) # {}
    BY <1>1, TableEmpty
  <1> QED BY <1>1, <1>2, <1>3 DEF Bits

\* And back.
LEMMA BitsNext ==
    ASSUME Bits(ready', group')
    PROVE  InvBitmap'
  <1>1. \A p \in Prio : p \in group' <=> Range(ready'[p]) # {}
    BY DEF Bits
  <1>2. \A p \in Prio : ready'[p] # <<>> <=> Range(ready'[p]) # {}
    BY TableEmpty DEF Bits
  <1> QED BY <1>1, <1>2 DEF InvBitmap

\* A thread is unlinked from its list q, whose bit is cleared if it becomes empty.
LEMMA UnlinkBits ==
    ASSUME NEW rd, NEW g, Bits(rd, g), NEW t \in Thread, NEW q \in Prio,
           \A p \in Prio : t \in Range(rd[p]) => p = q
    PROVE  /\ Bits(Unlinked(rd, t),
                   IF Unlinked(rd, t)[q] = <<>> THEN g \ {q} ELSE g)
           /\ \A p \in Prio : Range(Unlinked(rd, t)[p]) = Range(rd[p]) \ {t}
  <1> DEFINE r == Unlinked(rd, t)
             h == IF r[q] = <<>> THEN g \ {q} ELSE g
  <1>1. IsTable(r) /\ \A p \in Prio : Range(r[p]) = Range(rd[p]) \ {t}
    BY UnlinkedTable DEF Bits
  <1> HIDE DEF r
  <1>2. r[q] = <<>> <=> Range(r[q]) = {}
    BY <1>1, TableEmpty
  <1>3. h \subseteq Prio
    BY DEF Bits
  <1>4. ASSUME NEW p \in Prio PROVE p \in h <=> Range(r[p]) # {}
    <2>1. CASE p = q
      BY <1>1, <1>2, <2>1 DEF Bits
    <2>2. CASE p # q
      BY <1>1, <2>2 DEF Bits
    <2> QED BY <2>1, <2>2
  <1>5. Bits(r, h)
    BY <1>1, <1>3, <1>4 DEF Bits
  <1> QED BY <1>1, <1>5 DEF r

\* r is the table rd with t linked into list q, at either end.
LinksInto(r, rd, t, q) ==
    /\ IsTable(r)
    /\ \A p \in Prio : Range(r[p]) = IF p = q THEN Range(rd[p]) \cup {t} ELSE Range(rd[p])

\* rt_list_insert_after and rt_list_insert_before, whichever the YIELD bit selects.
LEMMA LinkedLinks ==
    ASSUME NEW rd, IsTable(rd), NEW t \in Thread, NEW q \in Prio, NEW y,
           t \notin Range(rd[q])
    PROVE  LinksInto(Linked(rd, t, q, y), rd, t, q)
  BY LinkedTable DEF LinksInto

\* A thread is linked into list q, whose bit is set.
LEMMA LinkBits ==
    ASSUME NEW rd, NEW g, Bits(rd, g), NEW t \in Thread, NEW q \in Prio,
           NEW r, LinksInto(r, rd, t, q)
    PROVE  Bits(r, g \cup {q})
  BY DEF Bits, LinksInto

-----------------------------------------------------------------------------
(* The actions that take a thread off its ready list.                       *)

\* __rt_ffs finds it.
LEMMA HighestPriorityIsLeast ==
    ASSUME NEW g \in SUBSET Prio, g # {}
    PROVE  HighestPriority(g) \in g /\ \A q \in g : HighestPriority(g) <= q
  <1>1. g \in SUBSET Nat
    BY ConstantsAssumption DEF Prio
  <1>2. \E x \in g : \A y \in g : x <= y
    BY <1>1, MinimumExists
  <1> QED BY <1>2 DEF HighestPriority

\* rt_schedule_remove_thread keeps the bitmap in step with the lists.
LEMMA RemoveThread ==
    ASSUME Good, NEW t \in Thread, rt_schedule_remove_thread(t)
    PROVE  /\ IsTable(ready') /\ group' \subseteq group /\ InvBitmap'
           /\ \A p \in Prio : Range(ready'[p]) = Range(ready[p]) \ {t}
           /\ defunct' \in Seq(Thread) /\ IsInjective(defunct')
           /\ Range(defunct') = Range(defunct) \ {t}
  <1> USE DEF rt_schedule_remove_thread
  <1>1. IsTable(ready') /\ \A p \in Prio : Range(ready'[p]) = Range(ready[p]) \ {t}
    BY ReadyIsTable, UnlinkedTable
  <1>2. /\ defunct' \in Seq(Thread) /\ IsInjective(defunct')
        /\ Range(defunct') = Range(defunct) \ {t}
    BY UnlinkUnlinks DEF Good, Sound, InvLists, TypeOK, InvDefunct
  <1>3. InvBitmap'
    <2> SUFFICES ASSUME NEW p \in Prio PROVE p \in group' <=> ready'[p] # <<>>
      BY DEF InvBitmap
    <2>1. p \in group <=> ready[p] # <<>>
      BY DEF Good, Sound, InvLists, InvBitmap
    <2>2. p # prio[t] => Range(ready'[p]) = Range(ready[p])
      <3>1. p # prio[t] => t \notin Range(ready[p])
        BY ReadyIsTable
      <3>2. Range(ready'[p]) = Range(ready[p]) \ {t}
        BY <1>1
      <3> QED BY ONLY <3>1, <3>2
    <2>3. p # prio[t] => (ready'[p] = <<>> <=> ready[p] = <<>>)
      BY <1>1, <2>2, ReadyIsTable, TableEmpty
    <2>4. ready'[p] # <<>> => ready[p] # <<>>
      BY <1>1, ReadyIsTable, TableEmpty
    <2> QED BY <2>1, <2>3, <2>4
  <1> QED BY <1>1, <1>2, <1>3

\* rt_schedule_remove_thread in rt_thread_delete, with interrupts enabled.
LEMMA KillRemoveStep ==
    ASSUME Good, NEW c \in Thread, KillRemove(c)
    PROVE  TypeOK' /\ (~raced' => Sound')
  <1> DEFINE t == tgt[c]
  <1>0. /\ c = current /\ isr = "none" /\ pc[c] = "kill0" /\ t \in Thread /\ t # c /\ t # Idle
        /\ c # Idle /\ stat[c] = "RUNNING" /\ InKill(c) /\ rt_schedule_remove_thread(t)
        /\ waiting' = waiting \ {t} /\ doomed' = doomed \cup {t}
        /\ raced' = (stat[t] \in {"FREE", "CLOSE"})
        /\ pc' = [pc EXCEPT ![c] = "kill"]
        /\ UNCHANGED <<stat, yield, prio, slice, current, lock_nest, armed, left, error, tgt,
                       isr, reprio>>
    <2>1. InKill(c)
      BY DEF KillRemove, At, Executes, InKill
    <2> QED BY <2>1, CallTarget
        DEF KillRemove, At, Executes, Goto, tcb, time, Good, Sound, InvIdle, InvRun
  <1> HIDE DEF t
  <1>1. /\ IsTable(ready') /\ group' \subseteq group /\ InvBitmap'
        /\ \A p \in Prio : Range(ready'[p]) = Range(ready[p]) \ {t}
        /\ defunct' \in Seq(Thread) /\ IsInjective(defunct')
        /\ Range(defunct') = Range(defunct) \ {t}
    BY <1>0, RemoveThread
  <1>2. TypeOK'
    <2>1. pc' \in [Thread -> Place] /\ raced' \in BOOLEAN
      BY <1>0 DEF Good, TypeOK, Place
    <2>2. waiting' \subseteq Thread /\ doomed' \subseteq Thread
      BY <1>0 DEF Good, TypeOK
    <2>3. group' \subseteq Prio /\ ready' \in [Prio -> Seq(Thread)]
      BY <1>1 DEF Good, TypeOK, IsTable
    <2> QED BY <1>0, <1>1, <2>1, <2>2, <2>3 DEF Good, TypeOK
  <1>3. ASSUME ~raced' PROVE Sound'
    <2>1. stat[t] # "CLOSE"
      BY <1>0, <1>3
    <2>2. InvTable'
      BY <1>0, <1>1 DEF Good, Sound, InvLists, InvTable, IsTable
    <2>3. InvReady'
      <3> SUFFICES ASSUME NEW u \in Thread, stat[u] = "READY", u \notin doomed, u # t
                   PROVE  u \in Range(ready'[prio[u]])
        BY <1>0 DEF InvReady
      <3>1. u \in Range(ready[prio[u]]) /\ prio[u] \in Prio
        BY DEF Good, Sound, TypeOK, InvLists, InvReady
      <3> QED BY <1>1, <3>1
    <2>4. InvDefunct' /\ InvWaiting'
      BY <1>0, <1>1, <2>1 DEF Good, Sound, InvLists, InvDefunct, InvWaiting
    <2>5. \A u \in Thread : pc'[u] = IF u = c THEN "kill" ELSE pc[u]
      BY <1>0 DEF Good, TypeOK
    <2>6. InvRun'
      BY <1>0, <2>5 DEF Good, Sound, InvRun
    <2>7. InvIdle' /\ InvBoot' /\ InvTimer'
      <3>1. Idle \in Thread /\ current' # NoThread
        BY <1>0, ConstantsAssumption DEF Good, TypeOK
      <3> QED BY <1>0, <2>5, <3>1 DEF Good, Sound, InvIdle, InvBoot, InvTimer
    <2>8. InvControl'
      BY <1>0, <2>5 DEF Good, Sound, InvControl, InKill, InResume
    <2>9. InvReap' /\ InvHigh'
      BY <1>0, <1>1, <2>5, ConstantsAssumption DEF Good, Sound, InvReap, InvHigh
    <2> QED BY <1>1, <2>2, <2>3, <2>4, <2>6, <2>7, <2>8, <2>9 DEF Sound, InvLists
  <1> QED BY <1>2, <1>3

\* A READY thread moves from its list to the list of its new priority.
LEMMA MoveBits ==
    ASSUME Good, NEW t \in Thread, NEW p \in Prio,
           ready' = Linked(Unlinked(ready, t), t, p, yield[t]),
           group' = (IF Unlinked(ready, t)[prio[t]] = <<>> THEN group \ {prio[t]} ELSE group)
                    \cup {p}
    PROVE  /\ Bits(ready', group')
           /\ \A q \in Prio : Range(ready'[q]) =
                IF q = p THEN Range(ready[q]) \cup {t} ELSE Range(ready[q]) \ {t}
  <1> DEFINE rd == Unlinked(ready, t)
             g == IF rd[prio[t]] = <<>> THEN group \ {prio[t]} ELSE group
             y == yield[t]
  <1>1. prio[t] \in Prio /\ \A q \in Prio : t \in Range(ready[q]) => q = prio[t]
    BY ReadyIsTable DEF Good, TypeOK
  <1> DEFINE q0 == prio[t]
  <1>0. t \in Thread /\ Bits(ready, group)
    BY BitsNow
  <1>2. Bits(rd, g) /\ \A q \in Prio : Range(rd[q]) = Range(ready[q]) \ {t}
    <2> HIDE DEF q0
    <2>1. /\ Bits(Unlinked(ready, t),
                  IF Unlinked(ready, t)[q0] = <<>> THEN group \ {q0} ELSE group)
          /\ \A q \in Prio : Range(Unlinked(ready, t)[q]) = Range(ready[q]) \ {t}
      <3>1. q0 \in Prio /\ \A q \in Prio : t \in Range(ready[q]) => q = q0
        BY <1>1 DEF q0
      <3> QED BY ONLY <1>0, <3>1, UnlinkBits
    <2> QED BY <2>1 DEF q0
  <1>a. ready' = Linked(rd, t, p, y) /\ group' = g \cup {p}
    OBVIOUS
  <1> HIDE DEF rd, g, y
  <1>3. LinksInto(ready', rd, t, p)
    <2>1. t \notin Range(rd[p])
      BY <1>2
    <2>2. IsTable(rd) /\ t \in Thread /\ p \in Prio
      BY <1>2 DEF Bits
    <2>3. LinksInto(Linked(rd, t, p, y), rd, t, p)
      BY ONLY <2>1, <2>2, LinkedLinks
    <2> QED BY <1>a, <2>3
  <1>4. Bits(ready', group')
    BY <1>a, <1>2, <1>3, LinkBits
  <1> QED BY <1>2, <1>3, <1>4 DEF LinksInto

\* rt_thread_control(RT_THREAD_CTRL_CHANGE_PRIORITY): a READY thread is on its new
\* list afterwards, also one that a delete has just taken off its old one.
LEMMA ChangePriorityStep ==
    ASSUME Good, NEW c \in Thread, NEW t \in Thread \ {Idle},
           NEW p \in Prio \ {PRIORITY_MAX - 1}, ChangePriority(c, t, p)
    PROVE  Good'
  <1>a. /\ c = current /\ pc[c] = "user" /\ c # Idle
        /\ prio' = [prio EXCEPT ![t] = p] /\ reprio' = TRUE
        /\ doomed' = IF stat[t] = "READY" THEN doomed \ {t} ELSE doomed
        /\ UNCHANGED <<stat, yield, slice, defunct, waiting, current, lock_nest, armed, left,
                       error, pc, tgt, isr, raced>>
    BY ConstantsAssumption DEF ChangePriority, Enters, At, Executes, time, flow
  <1>1. /\ Bits(ready', group')
        /\ \A q \in Prio : Range(ready'[q]) =
             IF stat[t] # "READY" THEN Range(ready[q])
             ELSE IF q = p THEN Range(ready[q]) \cup {t} ELSE Range(ready[q]) \ {t}
    <2>1. CASE stat[t] # "READY"
      <3>1. UNCHANGED <<ready, group>>
        BY <2>1 DEF ChangePriority
      <3> QED BY <2>1, <3>1, BitsNow
    <2>2. CASE stat[t] = "READY"
      <3>1. /\ ready' = Linked(Unlinked(ready, t), t, p, yield[t])
            /\ group' = (IF Unlinked(ready, t)[prio[t]] = <<>> THEN group \ {prio[t]}
                         ELSE group) \cup {p}
        BY <2>2 DEF ChangePriority
      <3>2. /\ Bits(ready', group')
            /\ \A q \in Prio : Range(ready'[q]) =
                 IF q = p THEN Range(ready[q]) \cup {t} ELSE Range(ready[q]) \ {t}
        BY <3>1, MoveBits
      <3> QED BY <2>2, <3>2
    <2> QED BY <2>1, <2>2
  <1>2. TypeOK'
    BY <1>a, <1>1 DEF Good, TypeOK, Bits, IsTable
  <1>b. \A u \in Thread : prio'[u] = IF u = t THEN p ELSE prio[u]
    BY <1>a DEF Good, TypeOK
  <1>3. InvLists'
    <2>3. ASSUME NEW q \in Prio, NEW u \in Range(ready'[q])
          PROVE  stat[u] = "READY" /\ prio'[u] = q
      <3>1. u \in Thread
        BY <1>1, TableEmpty DEF Bits
      <3>2. u \in Range(ready[q]) => stat[u] = "READY" /\ prio[u] = q
        BY <3>1, ReadyIsTable
      <3> QED BY <1>1, <1>b, <3>1, <3>2
    <2>4. InvTable'
      BY <1>a, <1>1, <2>3 DEF InvTable, Bits, IsTable
    <2>5. ASSUME NEW u \in Thread, stat[u] = "READY", u \notin doomed'
          PROVE  u \in Range(ready'[prio'[u]])
      <3>1. u # t => u \in Range(ready[prio[u]]) /\ prio[u] \in Prio
        BY <1>a, <2>5 DEF Good, Sound, InvLists, InvReady, TypeOK
      <3> QED BY <1>1, <1>b, <2>5, <3>1
    <2>6. InvReady'
      BY <1>a, <2>5 DEF InvReady
    <2>7. InvDefunct' /\ InvWaiting'
      BY <1>a DEF InvDefunct, InvWaiting, Good, Sound, InvLists
    <2> QED BY <1>1, <2>4, <2>6, <2>7, BitsNext DEF InvLists
  <1>4. InvRun' /\ InvBoot' /\ InvTimer'
    <2>1. current' # NoThread
      BY <1>a, ConstantsAssumption
    <2> QED BY <1>a, <2>1 DEF Good, Sound, InvRun, InvBoot, InvTimer
  <1>5. InvIdle'
    <2>1. p < PRIORITY_MAX - 1
      BY ConstantsAssumption DEF Prio
    <2>2. Idle \notin doomed'
      BY <1>a DEF Good, Sound, InvIdle
    <2> QED BY <1>a, <1>b, <2>1, <2>2, ConstantsAssumption DEF Good, Sound, InvIdle
  <1>6. InvControl' /\ InvReap' /\ InvHigh'
    BY <1>a DEF Good, Sound, InvControl, InKill, InResume, InvReap, InvHigh
  <1> QED BY <1>a, <1>2, <1>3, <1>4, <1>5, <1>6 DEF Good, Sound

-----------------------------------------------------------------------------
(* rt_schedule.                                                             *)

\* The idle thread is linked in its list while another thread has the processor.
LEMMA IdleIsReady ==
    ASSUME Good, current \in Thread, stat[current] # "RUNNING" \/ current # Idle
    PROVE  group # {}
  <1>1. stat[Idle] = "READY" /\ Idle \in Thread /\ Idle \notin doomed
    BY ConstantsAssumption DEF Good, Sound, InvIdle, InvRun
  <1>3. Idle \in Range(ready[prio[Idle]]) /\ prio[Idle] \in Prio
    BY <1>1 DEF Good, Sound, InvLists, InvReady, TypeOK
  <1>4. prio[Idle] \in group
    BY <1>3, BitsNow DEF Bits
  <1> QED BY <1>4

\* What rt_schedule leaves behind.
Dispatched ==
    /\ stat' \in [Thread -> Stat] /\ yield' \in [Thread -> BOOLEAN]
    /\ Bits(ready', group') /\ current' \in Thread /\ defunct' = defunct
    /\ \A u \in Thread : stat'[u] = "RUNNING" => u = current'
    /\ \/ stat'[current'] = "RUNNING"
       \/ lock_nest # 0 /\ current' = current /\ stat' = stat
    /\ \A u \in Thread : \/ stat'[u] = stat[u]
                         \/ stat'[u] \in {"READY", "RUNNING"} /\ stat[u] \in {"READY", "RUNNING"}
    /\ lock_nest = 0 => \A p \in group' : prio[current'] <= p
    /\ InvTable' /\ InvReady'

\* The thread at the head of the most urgent list.
LEMMA HeadIsReady ==
    ASSUME Good, group # {}, NEW hp, hp = HighestPriority(group),
           NEW to, to = Head(ready[hp])
    PROVE  /\ hp \in group /\ hp \in Prio /\ \A q \in group : hp <= q
           /\ to \in Thread /\ to \in Range(ready[hp]) /\ stat[to] = "READY" /\ prio[to] = hp
  <1>1. group \in SUBSET Prio
    BY DEF Good, TypeOK
  <1>2. hp \in group /\ hp \in Prio /\ \A q \in group : hp <= q
    BY <1>1, HighestPriorityIsLeast
  <1>3. ready[hp] # <<>>
    BY <1>2 DEF Good, Sound, InvLists, InvBitmap
  <1>4. to \in Range(ready[hp]) /\ to \in Thread
    BY <1>2, <1>3, ReadyIsTable, TableEmpty
  <1> QED BY <1>2, <1>4, ReadyIsTable

\* Scheduler locked, or no ready thread: nothing happens.
LEMMA ScheduleNothing ==
    ASSUME Good, current \in Thread, lock_nest # 0 \/ group = {},
           UNCHANGED <<stat, yield, ready, group, defunct, current, prio, lock_nest, doomed>>
    PROVE  Dispatched
  <1>1. /\ stat[current] = "RUNNING" \/ lock_nest # 0
        /\ \A u \in Thread : stat[u] = "RUNNING" => u = current
    BY IdleIsReady DEF Good, Sound, InvRun
  <1>2. Bits(ready', group') /\ InvTable' /\ InvReady'
    BY BitsNow DEF Good, Sound, InvLists, InvTable, InvReady
  <1>4. lock_nest = 0 => group' = {}
    OBVIOUS
  <1> QED BY <1>1, <1>2, <1>4 DEF Dispatched, Good, TypeOK

\* The running thread keeps the processor.
LEMMA ScheduleKeep ==
    ASSUME Good, current \in Thread, lock_nest = 0, group # {}, KeepsProcessor,
           yield' = [yield EXCEPT ![current] = FALSE], rt_schedule_remove_thread(current),
           UNCHANGED <<stat, current, prio, lock_nest, doomed>>
    PROVE  Dispatched
  <1> DEFINE hp == HighestPriority(group)
  <1>1. /\ stat[current] = "RUNNING" /\ \A u \in Thread : stat[u] = "RUNNING" => u = current
        /\ prio[current] < hp \/ prio[current] = hp
    BY DEF Good, Sound, InvRun, KeepsProcessor
  <1>2. UNCHANGED <<ready, group, defunct>>
    BY <1>1, RemoveUnlinked
  <1>3. Bits(ready', group') /\ InvTable' /\ InvReady'
    BY <1>2, BitsNow DEF Good, Sound, InvLists, InvTable, InvReady
  <1>4. hp \in Prio /\ \A q \in group : hp <= q
    BY HeadIsReady
  <1> HIDE DEF hp
  <1>5. \A q \in group : prio[current] <= q
    <2>1. prio[current] \in Nat /\ hp \in Nat /\ \A q \in group : q \in Nat
      BY <1>4, ConstantsAssumption DEF Good, TypeOK, Prio
    <2> QED BY ONLY <1>1, <1>4, <2>1
  <1>7. yield' \in [Thread -> BOOLEAN]
    BY DEF Good, TypeOK
  <1> QED BY <1>1, <1>2, <1>3, <1>5, <1>7 DEF Dispatched, Good, TypeOK

\* The lists after the switch in rt_schedule, when the loser is still RUNNING ...
LEMMA SwitchPreempted ==
    ASSUME Good, current \in Thread, NEW to \in Thread, stat[to] = "READY",
           stat[current] = "RUNNING", SwitchTo(to)
    PROVE  /\ Bits(ready', group')
           /\ \A p \in Prio : Range(ready'[p]) =
                (IF p = prio[current] THEN Range(ready[p]) \cup {current}
                 ELSE Range(ready[p])) \ {to}
           /\ group' \subseteq group \cup {prio[current]}
  <1> DEFINE q == prio[current]
             y == [yield EXCEPT ![current] = FALSE][current]
             rd == Linked(ready, current, q, y)
             g == group \cup {q}
  <1>1. /\ ready' = Unlinked(rd, to)
        /\ group' = IF Unlinked(rd, to)[prio[to]] = <<>> THEN g \ {prio[to]} ELSE g
    BY DEF SwitchTo
  <1>2. q \in Prio /\ prio[to] \in Prio /\ to # current
    BY DEF Good, TypeOK
  <1>3. LinksInto(rd, ready, current, q)
    <2>1. IsTable(ready) /\ current \notin Range(ready[q])
      BY <1>2, ReadyIsTable
    <2> HIDE DEF q, y
    <2> QED BY <1>2, <2>1, LinkedLinks
  <1>4. Bits(rd, g)
    <2> HIDE DEF rd, q
    <2> QED BY <1>2, <1>3, BitsNow, LinkBits
  <1>5. \A p \in Prio : Range(rd[p]) =
            IF p = q THEN Range(ready[p]) \cup {current} ELSE Range(ready[p])
    BY <1>3 DEF LinksInto
  <1>6. \A p \in Prio : to \in Range(rd[p]) => p = prio[to]
    <2>1. \A p \in Prio : to \in Range(ready[p]) => p = prio[to]
      BY ReadyIsTable
    <2> HIDE DEF rd
    <2> QED BY <1>2, <1>5, <2>1
  <1> HIDE DEF rd, g, q
  <1>7. /\ Bits(Unlinked(rd, to),
                IF Unlinked(rd, to)[prio[to]] = <<>> THEN g \ {prio[to]} ELSE g)
        /\ \A p \in Prio : Range(Unlinked(rd, to)[p]) = Range(rd[p]) \ {to}
    <2> DEFINE z == prio[to]
    <2>1. z \in Prio /\ \A p \in Prio : to \in Range(rd[p]) => p = z
      BY <1>2, <1>6
    <2> HIDE DEF z
    <2>2. /\ Bits(Unlinked(rd, to), IF Unlinked(rd, to)[z] = <<>> THEN g \ {z} ELSE g)
          /\ \A p \in Prio : Range(Unlinked(rd, to)[p]) = Range(rd[p]) \ {to}
      BY <1>4, <2>1, UnlinkBits
    <2> QED BY <2>2 DEF z
  <1>8. group' \subseteq g
    BY <1>1
  <1> QED BY <1>1, <1>5, <1>7, <1>8 DEF q, g

\* ... and when it has blocked or ended.
LEMMA SwitchBlocked ==
    ASSUME Good, current \in Thread, NEW to \in Thread, stat[to] = "READY",
           stat[current] # "RUNNING", SwitchTo(to)
    PROVE  /\ Bits(ready', group')
           /\ \A p \in Prio : Range(ready'[p]) = Range(ready[p]) \ {to}
           /\ group' \subseteq group
  <1> DEFINE q == prio[to]
  <1>1. /\ ready' = Unlinked(ready, to)
        /\ group' = IF Unlinked(ready, to)[q] = <<>> THEN group \ {q} ELSE group
    BY DEF SwitchTo
  <1>2. q \in Prio /\ \A p \in Prio : to \in Range(ready[p]) => p = q
    BY ReadyIsTable DEF Good, TypeOK
  <1> HIDE DEF q
  <1>3. /\ Bits(Unlinked(ready, to),
                IF Unlinked(ready, to)[q] = <<>> THEN group \ {q} ELSE group)
        /\ \A p \in Prio : Range(Unlinked(ready, to)[p]) = Range(ready[p]) \ {to}
    BY <1>2, BitsNow, UnlinkBits
  <1> QED BY <1>1, <1>3

\* The processor is handed to the head of the most urgent list.
LEMMA ScheduleSwitch ==
    ASSUME Good, current \in Thread, lock_nest = 0, group # {}, ~KeepsProcessor,
           SwitchTo(Head(ready[HighestPriority(group)])), UNCHANGED <<prio, lock_nest, doomed>>
    PROVE  Dispatched
  <1> DEFINE hp == HighestPriority(group)
             to == Head(ready[hp])
  <1>1. /\ hp \in group /\ hp \in Prio /\ \A q \in group : hp <= q
        /\ to \in Thread /\ to \in Range(ready[hp]) /\ stat[to] = "READY" /\ prio[to] = hp
    BY HeadIsReady
  <1>2. SwitchTo(to)
    OBVIOUS
  <1>3. stat[current] = "RUNNING" => (prio[current] # hp => ~(prio[current] < hp))
    BY DEF KeepsProcessor
  <1> HIDE DEF hp, to
  <1>4. to # current /\ stat[current] \in {"RUNNING", "SUSPEND", "CLOSE"}
        /\ \A u \in Thread : stat[u] = "RUNNING" => u = current
    BY <1>1 DEF Good, Sound, InvLists, InvRun
  <1>5. stat[current] = "RUNNING" => hp <= prio[current]
    <2>1. prio[current] \in Nat /\ hp \in Nat
      BY <1>1, ConstantsAssumption DEF Good, TypeOK, Prio
    <2> QED BY ONLY <1>3, <2>1
  <1>6. /\ stat' = [stat EXCEPT ![current] = IF stat[current] = "RUNNING" THEN "READY" ELSE @,
                                ![to] = "RUNNING"]
        /\ current' = to /\ defunct' = defunct
    BY <1>2 DEF SwitchTo
  <1>7. yield' \in [Thread -> BOOLEAN] /\ stat' \in [Thread -> Stat]
    <2>1. yield' = [yield EXCEPT ![current] = stat[current] # "RUNNING" /\ @]
      BY <1>2 DEF SwitchTo
    <2> QED BY <1>6, <2>1 DEF Good, TypeOK, Stat
  <1>8. \A u \in Thread : stat'[u] = IF u = to THEN "RUNNING"
                                     ELSE IF u = current /\ stat[current] = "RUNNING" THEN "READY"
                                     ELSE stat[u]
    BY <1>1, <1>4, <1>6 DEF Good, TypeOK
  <1>9. /\ Bits(ready', group')
        /\ \A p \in Prio : Range(ready'[p]) =
             (IF stat[current] = "RUNNING" /\ p = prio[current] THEN Range(ready[p]) \cup {current}
              ELSE Range(ready[p])) \ {to}
        /\ group' \subseteq IF stat[current] = "RUNNING" THEN group \cup {prio[current]} ELSE group
    <2>1. CASE stat[current] = "RUNNING"
      BY <1>1, <1>2, <2>1, SwitchPreempted
    <2>2. CASE stat[current] # "RUNNING"
      BY <1>1, <1>2, <2>2, SwitchBlocked
    <2> QED BY <2>1, <2>2
  <1>10. \A p \in group' : prio[current'] <= p
    BY <1>1, <1>5, <1>6, <1>9
  <1>12. InvTable'
    <2> SUFFICES ASSUME NEW p \in Prio, NEW u \in Range(ready'[p])
                 PROVE  stat'[u] = "READY" /\ prio[u] = p
      BY <1>9 DEF InvTable, Bits, IsTable
    <2>1. u \in Thread
      BY <1>9, TableEmpty DEF Bits
    <2>2. u \in Range(ready[p]) => stat[u] = "READY" /\ prio[u] = p
      BY <2>1, ReadyIsTable
    <2> QED BY <1>4, <1>8, <1>9, <2>1, <2>2
  <1>13. InvReady'
    <2> SUFFICES ASSUME NEW u \in Thread, stat'[u] = "READY", u \notin doomed
                 PROVE  u \in Range(ready'[prio[u]])
      BY DEF InvReady
    <2>1. prio[u] \in Prio /\ (stat[u] = "READY" => u \in Range(ready[prio[u]]))
      BY DEF Good, Sound, InvLists, TypeOK, InvReady
    <2> QED BY <1>4, <1>8, <1>9, <2>1
  <1>14. /\ stat'[current'] = "RUNNING"
         /\ \A u \in Thread : stat'[u] = "RUNNING" => u = current'
         /\ \A u \in Thread : \/ stat'[u] = stat[u]
                              \/ stat'[u] \in {"READY", "RUNNING"} /\ stat[u] \in {"READY", "RUNNING"}
    BY <1>1, <1>4, <1>6, <1>8
  <1> QED BY <1>1, <1>6, <1>7, <1>9, <1>10, <1>12, <1>13, <1>14 DEF Dispatched

\* rt_schedule keeps the table and gives the processor to a most urgent thread.
LEMMA ScheduleDispatches ==
    ASSUME Good, current \in Thread, rt_schedule
    PROVE  /\ Dispatched
           /\ UNCHANGED <<prio, slice, lock_nest, waiting, armed, left, doomed, raced>>
           /\ reprio' \in BOOLEAN
  <1>1. /\ UNCHANGED <<prio, slice, lock_nest, waiting, armed, left, doomed, raced>>
        /\ reprio' \in BOOLEAN
    BY DEF rt_schedule, Good, TypeOK
  <1>2. CASE lock_nest # 0 \/ group = {}
    BY <1>1, <1>2, ScheduleNothing DEF rt_schedule
  <1>3. CASE lock_nest = 0 /\ group # {} /\ KeepsProcessor
    BY <1>1, <1>3, ScheduleKeep DEF rt_schedule
  <1>4. CASE lock_nest = 0 /\ group # {} /\ ~KeepsProcessor
    BY <1>1, <1>4, ScheduleSwitch DEF rt_schedule
  <1> QED BY <1>1, <1>2, <1>3, <1>4

\* The parts of the invariant that do not depend on where the caller of
\* rt_schedule is.
LEMMA DispatchKeeps ==
    ASSUME Good, current \in Thread, Dispatched,
           UNCHANGED <<prio, lock_nest, waiting, armed, left, tgt, doomed>>,
           \A d \in Thread : (InKill(d)' <=> InKill(d)) /\ (InResume(d)' <=> InResume(d)),
           pc'[Idle] = pc[Idle], isr' \in Isr, isr' \in {"none", "wake"} => isr \in {"none", "wake"}
    PROVE  /\ InvLists' /\ InvIdle' /\ InvBoot' /\ InvTimer' /\ InvControl' /\ InvReap'
           /\ InvHigh'
  <1>0. \A u \in Thread : /\ stat[u] \in {"SUSPEND", "CLOSE"} => stat'[u] = stat[u]
                          /\ stat'[u] = "CLOSE" => stat[u] = "CLOSE"
    BY DEF Dispatched
  <1>1. InvLists'
    <2>1. InvBitmap'
      BY BitsNext DEF Dispatched
    <2>2. InvDefunct'
      <3>1. defunct' = defunct
        BY DEF Dispatched
      <3>2. Range(defunct) \subseteq Thread
        BY ListEmpty DEF Good, TypeOK
      <3> QED BY <1>0, <3>1, <3>2 DEF Good, Sound, InvLists, InvDefunct
    <2>3. InvWaiting'
      BY <1>0 DEF Good, Sound, TypeOK, InvLists, InvWaiting
    <2> QED BY <2>1, <2>2, <2>3 DEF InvLists, Dispatched
  <1>4. current' # NoThread /\ Idle \in Thread /\ tgt[Idle] \in Thread
    BY ConstantsAssumption DEF Good, TypeOK, Dispatched
  <1>5. InvIdle'
    <2>1. stat'[Idle] \in {"READY", "RUNNING"}
      BY <1>4, ConstantsAssumption DEF Dispatched, Good, Sound, InvIdle
    <2> QED BY <1>4, <2>1 DEF Good, Sound, InvIdle
  <1>6. InvBoot'
    BY <1>4 DEF InvBoot
  <1>7. InvTimer'
    BY <1>0 DEF Good, Sound, InvTimer, TypeOK
  <1>8. InvControl'
    BY DEF Good, Sound, InvControl
  <1>9. InvReap'
    BY <1>0, <1>4 DEF Good, Sound, InvReap
  <1>10. InvHigh'
    BY DEF InvHigh, Dispatched
  <1> QED BY <1>1, <1>5, <1>6, <1>7, <1>8, <1>9, <1>10

\* A thread calls rt_schedule.
LEMMA ScheduleStep == ASSUME Good, NEW t \in Thread, Schedule(t) PROVE Good'
  <1> DEFINE next == CASE pc[t] = "nap" -> "woke" [] pc[t] = "exit" -> "end" [] OTHER -> "user"
  <1>1. /\ isr = "none" /\ current = t /\ pc[t] \in {"sched", "nap", "exit"} /\ rt_schedule
        /\ pc' = [pc EXCEPT ![t] = next]
        /\ UNCHANGED <<error, tgt, isr>>
    BY DEF Schedule, Executes, Goto
  <1>0. /\ next \in {"woke", "end", "user"} /\ (next = "end" <=> pc[t] = "exit")
    BY <1>1
  <1> HIDE DEF next
  <1>2. /\ \A d \in Thread : (InKill(d)' <=> InKill(d)) /\ (InResume(d)' <=> InResume(d))
        /\ pc'[Idle] = pc[Idle] /\ pc' \in [Thread -> Place]
        /\ \A d \in Thread : pc'[d] = IF d = t THEN next ELSE pc[d]
    <2>1. pc \in [Thread -> Place] /\ t # Idle /\ Idle \in Thread
      BY <1>1, ConstantsAssumption DEF Good, Sound, TypeOK, InvIdle
    <2>2. \A d \in Thread : pc'[d] = IF d = t THEN next ELSE pc[d]
      BY <1>1, <2>1
    <2>3. pc' \in [Thread -> Place]
      BY <1>0, <1>1, <2>1 DEF Place
    <2>4. ~InKill(t) /\ ~InResume(t) /\ ~InKill(t)' /\ ~InResume(t)'
      BY <1>0, <1>1, <2>2 DEF InKill, InResume
    <2>5. ASSUME NEW d \in Thread
          PROVE  (InKill(d)' <=> InKill(d)) /\ (InResume(d)' <=> InResume(d))
      <3>1. CASE d = t
        BY <2>4, <3>1
      <3>2. CASE d # t
        BY <2>2, <3>2 DEF InKill, InResume
      <3> QED BY <3>1, <3>2
    <2> QED BY <2>1, <2>2, <2>3, <2>5
  <1>4. /\ Dispatched /\ reprio' \in BOOLEAN
        /\ UNCHANGED <<prio, slice, lock_nest, waiting, armed, left, doomed, raced>>
    BY <1>1, ScheduleDispatches
  <1>5. isr' \in Isr
    BY <1>1 DEF Good, TypeOK
  <1>6. /\ InvLists' /\ InvIdle' /\ InvBoot' /\ InvTimer' /\ InvControl' /\ InvReap'
        /\ InvHigh'
    BY <1>1, <1>2, <1>4, <1>5, DispatchKeeps
  <1>7. InvRun'
    <2>1. \A u \in Thread : pc'[u] \in {"exit", "end"} => stat'[u] \in {"CLOSE", "FREE"}
      <3>1. \A u \in Thread : pc'[u] \in {"exit", "end"} => pc[u] \in {"exit", "end"}
        BY <1>0, <1>1, <1>2
      <3>2. \A u \in Thread : stat[u] \in {"CLOSE", "FREE"} => stat'[u] = stat[u]
        BY <1>4 DEF Dispatched
      <3> QED BY <3>1, <3>2 DEF Good, Sound, InvRun
    <2>2. CASE stat'[current'] = "RUNNING"
      BY <1>4, <2>1, <2>2 DEF Dispatched, InvRun
    <2>3. CASE lock_nest # 0 /\ current' = current /\ stat' = stat /\ stat[current] # "RUNNING"
      <3>1. stat[t] = "CLOSE" /\ pc[t] = "exit"
        BY <1>1, <2>3 DEF Good, Sound, InvRun
      <3>2. pc'[t] = "end"
        BY <1>0, <1>2, <3>1
      <3>3. lock_nest > 0
        BY <2>3 DEF Good, TypeOK
      <3> QED BY <1>1, <1>4, <2>1, <2>3, <3>1, <3>2, <3>3 DEF Dispatched, InvRun
    <2> QED BY <1>4, <2>2, <2>3 DEF Dispatched
  <1>8. TypeOK'
    BY <1>1, <1>2, <1>4, <1>5 DEF Good, TypeOK, Dispatched, Bits, IsTable
  <1> QED BY <1>4, <1>6, <1>7, <1>8 DEF Good, Sound

\* An interrupt handler calls rt_schedule.
LEMMA IsrScheduleStep == ASSUME Good, IsrSchedule PROVE Good'
  <1>1. /\ isr \in {"slice", "expired", "wake"} /\ rt_schedule
        /\ isr' = IF isr = "wake" THEN "none" ELSE "check"
        /\ UNCHANGED <<error, pc, tgt>>
    BY DEF IsrSchedule, flow
  <1>2. current \in Thread
    BY <1>1 DEF Good, Sound, TypeOK, InvBoot
  <1>3. \A d \in Thread : (InKill(d)' <=> InKill(d)) /\ (InResume(d)' <=> InResume(d))
    BY <1>1 DEF InKill, InResume
  <1>4. /\ Dispatched /\ reprio' \in BOOLEAN
        /\ UNCHANGED <<prio, slice, lock_nest, waiting, armed, left, doomed, raced>>
    BY <1>1, <1>2, ScheduleDispatches
  <1>5. isr' \in Isr /\ (isr' \in {"none", "wake"} => isr \in {"none", "wake"})
    BY <1>1 DEF Isr
  <1>6. /\ InvLists' /\ InvIdle' /\ InvBoot' /\ InvTimer' /\ InvControl' /\ InvReap'
        /\ InvHigh'
    BY <1>1, <1>2, <1>3, <1>4, <1>5, DispatchKeeps
  <1>7. InvRun'
    <2>1. \A u \in Thread : pc'[u] \in {"exit", "end"} => stat'[u] \in {"CLOSE", "FREE"}
      <3>1. \A u \in Thread : stat[u] \in {"CLOSE", "FREE"} => stat'[u] = stat[u]
        BY <1>4 DEF Dispatched
      <3> QED BY <1>1, <3>1 DEF Good, Sound, InvRun
    <2>2. CASE stat'[current'] = "RUNNING"
      BY <1>4, <2>1, <2>2 DEF Dispatched, InvRun
    <2>3. CASE lock_nest # 0 /\ current' = current /\ stat' = stat
      BY <1>1, <1>4, <2>3 DEF Good, Sound, InvRun
    <2> QED BY <1>4, <2>2, <2>3 DEF Dispatched
  <1>8. TypeOK'
    BY <1>1, <1>4, <1>5 DEF Good, TypeOK, Dispatched, Bits, IsTable
  <1> QED BY <1>4, <1>6, <1>7, <1>8 DEF Good, Sound

\* rt_system_scheduler_start: the first thread gets the processor.
LEMMA SchedulerStartStep == ASSUME Good, SchedulerStart PROVE Good'
  <1> DEFINE hp == HighestPriority(group)
             to == Head(ready[hp])
  <1>1. /\ current = NoThread /\ current' = to /\ stat' = [stat EXCEPT ![to] = "RUNNING"]
        /\ rt_schedule_remove_thread(to)
        /\ UNCHANGED <<yield, prio, slice, lock_nest, waiting, armed, left, error, pc, tgt, isr,
                       reprio, doomed, raced>>
    BY DEF SchedulerStart
  <1>2. /\ isr = "none" /\ lock_nest = 0 /\ armed = {} /\ defunct = <<>>
        /\ waiting = {} /\ doomed = {}
        /\ \A t \in Thread : pc[t] = "user" /\ stat[t] \in {"FREE", "INIT", "READY"}
    BY <1>1 DEF Good, Sound, InvLists, InvBoot
  <1>3. \A u \in Thread : ~InKill(u)' /\ ~InResume(u)' /\ u \notin doomed
    BY <1>1, <1>2 DEF InKill, InResume
  <1>4. stat[Idle] = "READY" /\ Idle \in Thread
    BY <1>1, ConstantsAssumption DEF Good, Sound, InvLists, InvIdle, SchedulerStart
  <1>5. Idle \in Range(ready[prio[Idle]]) /\ prio[Idle] \in Prio
    BY <1>3, <1>4 DEF Good, Sound, InvLists, InvReady, TypeOK
  <1>6. group # {}
    BY <1>5, BitsNow DEF Bits
  <1>7. /\ hp \in group /\ hp \in Prio /\ \A q \in group : hp <= q
        /\ to \in Thread /\ to \in Range(ready[hp]) /\ stat[to] = "READY" /\ prio[to] = hp
    BY <1>6, HeadIsReady
  <1> HIDE DEF hp, to
  <1>8. /\ IsTable(ready') /\ group' \subseteq group /\ InvBitmap'
        /\ \A p \in Prio : Range(ready'[p]) = Range(ready[p]) \ {to}
        /\ defunct' \in Seq(Thread) /\ IsInjective(defunct')
        /\ Range(defunct') = Range(defunct) \ {to}
    BY <1>1, <1>7, RemoveThread
  <1>9. \A u \in Thread : stat'[u] = IF u = to THEN "RUNNING" ELSE stat[u]
    BY <1>1, <1>7 DEF Good, TypeOK
  <1>10. TypeOK'
    BY <1>1, <1>7, <1>8 DEF Good, TypeOK, IsTable, Stat
  <1>11. InvTable' /\ InvReady' /\ InvDefunct' /\ InvWaiting'
    <2>1. ASSUME NEW p \in Prio, NEW u \in Range(ready'[p])
          PROVE  stat'[u] = "READY" /\ prio[u] = p
      <3>1. u \in Thread
        BY <1>8, TableEmpty
      <3> QED BY <1>8, <1>9, <3>1, ReadyIsTable
    <2>2. InvTable'
      BY <1>1, <1>8, <2>1 DEF InvTable, IsTable
    <2>3. InvReady'
      <3> SUFFICES ASSUME NEW u \in Thread, stat'[u] = "READY"
                   PROVE  u \in Range(ready'[prio[u]])
        BY <1>1 DEF InvReady
      <3>1. prio[u] \in Prio /\ (stat[u] = "READY" => u \in Range(ready[prio[u]]))
        BY <1>3 DEF Good, Sound, InvLists, TypeOK, InvReady
      <3> QED BY <1>8, <1>9, <3>1
    <2>4. Range(defunct) = {}
      BY <1>2 DEF Range
    <2>5. InvDefunct'
      BY <1>2, <1>8, <1>9, <2>4 DEF InvDefunct
    <2> QED BY <1>1, <1>2, <2>2, <2>3, <2>5 DEF InvWaiting
  <1>12. InvRun'
    BY <1>1, <1>2, <1>7, <1>9 DEF InvRun
  <1>13. InvIdle'
    <2>1. stat'[Idle] \in {"READY", "RUNNING"}
      BY <1>4, <1>9
    <2>3. current' # NoThread
      BY <1>1, <1>7, ConstantsAssumption
    <2> QED BY <1>1, <1>2, <1>9, <2>1, <2>3 DEF Good, Sound, InvLists, InvIdle
  <1>14. InvBoot' /\ InvTimer' /\ InvReap'
    BY <1>1, <1>2, <1>4, <1>7, ConstantsAssumption DEF InvBoot, InvTimer, InvReap
  <1>15. InvControl'
    BY <1>3 DEF InvControl
  <1>16. InvHigh'
    BY <1>1, <1>7, <1>8 DEF InvHigh
  <1> QED BY <1>1, <1>8, <1>10, <1>11, <1>12, <1>13, <1>14, <1>15, <1>16 DEF Good, Sound, InvLists

-----------------------------------------------------------------------------
(* The theorems.                                                            *)

\* The state rtthread_startup leaves before the first rt_thread_startup.
LEMMA InitInv == Init => IInv
  <1> SUFFICES ASSUME Init PROVE IInv
    OBVIOUS
  <1> USE ConstantsAssumption DEF Init
  <1>1. TypeOK
    <2>1. stat \in [Thread -> Stat] /\ pc \in [Thread -> Place] /\ error \in [Thread -> Error]
      BY DEF Stat, Place, Error
    <2>2. prio \in [Thread -> Prio] /\ slice \in [Thread -> Nat \ {0}]
      OBVIOUS
    <2>3. ready \in [Prio -> Seq(Thread)] /\ defunct \in Seq(Thread)
      OBVIOUS
    <2>4. /\ yield \in [Thread -> BOOLEAN] /\ tgt \in [Thread -> Thread] /\ reprio \in BOOLEAN
          /\ raced \in BOOLEAN
      OBVIOUS
    <2>5. left \in [Thread -> 0 .. MaxSleep] /\ lock_nest \in 0 .. MaxNest
      OBVIOUS
    <2>6. /\ group \subseteq Prio /\ current \in Thread \cup {NoThread} /\ armed \subseteq Thread
          /\ waiting \subseteq Thread /\ doomed \subseteq Thread /\ isr \in Isr
      BY DEF Isr
    <2> QED BY ONLY <2>1, <2>2, <2>3, <2>4, <2>5, <2>6 DEF TypeOK
  <1>2. \A p \in Prio : ready[p] = <<>> /\ Range(ready[p]) = {}
    BY DEF Range
  <1>3. \A u \in Thread : /\ pc[u] = "user" /\ stat[u] \in {"INIT", "FREE"}
                          /\ ~InKill(u) /\ ~InResume(u)
    BY DEF InKill, InResume
  <1>4. InvTable /\ InvReady
    BY <1>2, <1>3 DEF InvTable, InvReady, IsInjective
  <1>5. InvBitmap /\ InvWaiting
    BY <1>2 DEF InvBitmap, InvWaiting
  <1>6. InvDefunct
    BY <1>3 DEF InvDefunct, IsInjective, Range
  <1>7. InvRun /\ InvTimer /\ InvHigh
    BY <1>3 DEF InvRun, InvTimer, InvHigh
  <1>8. InvIdle
    BY <1>3 DEF InvIdle
  <1>9. InvBoot /\ InvReap
    BY <1>3 DEF InvBoot, InvReap
  <1>10. InvControl
    BY <1>3 DEF InvControl
  <1> QED BY <1>1, <1>4, <1>5, <1>6, <1>7, <1>8, <1>9, <1>10 DEF IInv, Sound, InvLists

\* Nothing moves once a list is corrupted.
LEMMA CorruptedStays ==
    ASSUME IInv, raced, Next
    PROVE  UNCHANGED vars
  <1>1. isr = "none" /\ current # NoThread
    BY ConstantsAssumption DEF IInv
  <1>2. ~SchedulerStart /\ ~IsrStep /\ ~IdleDequeue /\ ~IdleRelease
    BY <1>1 DEF SchedulerStart, IsrStep, TickIncrease, InterruptsEnabled, IsrSchedule, IsrLeave,
       TimerExpire, IdleDequeue, IdleRelease, At, Executes
  <1>3. ASSUME NEW t \in Thread PROVE ~BootStartup(t) /\ ~IsrWake(t) /\ ~KernelStep(t)
    BY <1>1 DEF BootStartup, IsrWake, InterruptsEnabled, KernelStep, Schedule, SleepMark,
       SleepReturn, StartupResume, ResumeUnlink, ResumeInsert, KillRemove, KillClose, At, Executes
  <1>4. ASSUME NEW t \in Thread PROVE ~UserCall(t)
    BY DEF UserCall, Yield, Exit, EnterCritical, ExitCritical, Sleep, Wait, Wake, Resume, Startup,
       Create, Kill, ChangePriority, Enters, At, Executes
  <1> QED BY <1>2, <1>3, <1>4 DEF Next, Corrupted

\* The regions of a resume and of a delete run in a thread.
LEMMA RegionInThread ==
    ASSUME NEW c \in Thread,
           ResumeUnlink(c) \/ ResumeInsert(c) \/ KillRemove(c) \/ KillClose(c)
    PROVE  isr' = "none" /\ current' \in Thread
  BY DEF ResumeUnlink, ResumeInsert, KillRemove, KillClose, At, Executes

\* Every step of the kernel, of a thread and of an interrupt handler keeps IInv.
LEMMA NextInv == IInv /\ [Next]_vars => IInv'
  <1> SUFFICES ASSUME IInv, [Next]_vars PROVE IInv'
    OBVIOUS
  <1>1. CASE UNCHANGED vars
    <2> USE <1>1 DEF vars, IInv
    <2>1. TypeOK' /\ (Sound => InvBitmap' /\ InvWaiting')
      BY DEF TypeOK, Sound, InvLists, InvBitmap, InvWaiting
    <2>2. Sound => InvTable' /\ InvReady' /\ InvDefunct'
      BY DEF Sound, InvLists, InvTable, InvReady, InvDefunct
    <2>3. Sound => InvRun' /\ InvIdle' /\ InvBoot' /\ InvTimer'
      BY DEF Sound, InvRun, InvIdle, InvBoot, InvTimer
    <2>4. Sound => InvControl'
      BY DEF Sound, InvControl, InKill, InResume
    <2>5. Sound => InvReap' /\ InvHigh'
      BY DEF Sound, InvReap, InvHigh
    <2>6. Sound => Sound'
      BY <2>1, <2>2, <2>3, <2>4, <2>5 DEF Sound, InvLists
    <2> QED BY <2>1, <2>6
  <1>2. CASE Next /\ raced
    BY <1>1, <1>2, CorruptedStays
  <1>3. CASE Next /\ ~raced
    <2>0. Good /\ (Good' => IInv')
      BY <1>3 DEF Good, IInv
    <2>1. CASE SchedulerStart
      BY <2>0, <2>1, SchedulerStartStep
    <2>2. ASSUME NEW t \in Thread, BootStartup(t) \/ IsrWake(t) PROVE IInv'
      BY <2>0, <2>2, BootStartupStep, IsrWakeStep
    <2>3. ASSUME NEW t \in Thread, KernelStep(t) PROVE IInv'
      <3>1. CASE ResumeUnlink(t) \/ ResumeInsert(t) \/ KillRemove(t) \/ KillClose(t)
        BY <2>0, <3>1, ResumeUnlinkStep, ResumeInsertStep, KillRemoveStep, KillCloseStep,
           RegionInThread DEF IInv
      <3>2. CASE Schedule(t) \/ SleepMark(t) \/ SleepReturn(t) \/ StartupResume(t)
        BY <2>0, <3>2, ScheduleStep, SleepMarkStep, SleepReturnStep, StartupResumeStep
      <3> QED BY <2>3, <3>1, <3>2 DEF KernelStep
    <2>4. ASSUME NEW t \in Thread, UserCall(t) PROVE IInv'
      BY <2>0, <2>4, YieldStep, WaitStep, ExitStep, EnterCriticalStep, ExitCriticalStep, SleepStep,
         WakeStep, ResumeStep, StartupStep, CreateStep, KillStep, ChangePriorityStep
         DEF UserCall
    <2>5. CASE IdleDequeue \/ IdleRelease
      BY <2>0, <2>5, IdleDequeueStep, IdleReleaseStep
    <2>6. CASE IsrStep
      BY <2>0, <2>6, TickIncreaseStep, IsrScheduleStep, IsrLeaveStep, TimerExpireStep DEF IsrStep
    <2> QED BY <1>3, <2>1, <2>2, <2>3, <2>4, <2>5, <2>6 DEF Next, Corrupted
  <1> QED BY <1>1, <1>2, <1>3

\* The invariants the runs check follow from IInv.
LEMMA IInvImplies ==
    IInv => /\ TypeOK /\ BitmapMatchesTable /\ ReadyTableSound /\ OnlyRunningExecutes
            /\ HighestPriorityRuns /\ TimeoutFindsSuspended /\ DefunctListSound
  <1> SUFFICES ASSUME IInv PROVE /\ TypeOK /\ BitmapMatchesTable /\ ReadyTableSound
                                 /\ OnlyRunningExecutes /\ HighestPriorityRuns
                                 /\ TimeoutFindsSuspended /\ DefunctListSound
    OBVIOUS
  <1>1. TypeOK
    BY DEF IInv
  <1>2. CASE raced
    BY <1>1, <1>2 DEF BitmapMatchesTable, ReadyTableSound, OnlyRunningExecutes,
       HighestPriorityRuns, TimeoutFindsSuspended, DefunctListSound
  <1>3. CASE ~raced
    <2>0. Good
      BY <1>3 DEF Good, IInv
    <2> USE <2>0
    <2>1. BitmapMatchesTable
      BY DEF Good, Sound, InvLists, InvBitmap, BitmapMatchesTable
    <2>2. ReadyTableSound
      <3>1. \A p \in Prio : current \notin Range(ready[p])
        <4>1. current = NoThread => \A p \in Prio : current \notin Range(ready[p])
          BY ReadyIsTable, TableEmpty, ConstantsAssumption
        <4>2. current \in Thread => stat[current] # "READY"
          BY DEF Good, Sound, InvRun
        <4> QED BY <4>1, <4>2, ReadyIsTable DEF Good, TypeOK
      <3> QED BY <3>1 DEF Good, Sound, InvLists, InvTable, InvReady, InvWaiting, ReadyTableSound
    <2>3. OnlyRunningExecutes
      BY DEF Good, Sound, InvRun, OnlyRunningExecutes, At, Executes
    <2>4. HighestPriorityRuns
      <3> SUFFICES ASSUME NEW t \in Thread, At(t, "user"), lock_nest = 0, ~reprio,
                          NEW u \in Thread, stat[u] = "READY", u \notin doomed
                   PROVE  prio[t] <= prio[u]
        BY DEF HighestPriorityRuns
      <3>1. u \in Range(ready[prio[u]]) /\ prio[u] \in Prio
        BY DEF Good, Sound, InvLists, InvReady, TypeOK
      <3>2. prio[u] \in group
        BY <3>1, BitsNow DEF Bits
      <3> QED BY <3>2 DEF Good, Sound, InvHigh, At, Executes
    <2>5. TimeoutFindsSuspended
      BY DEF Good, Sound, InvTimer, TimeoutFindsSuspended
    <2>6. DefunctListSound
      BY ReadyIsTable DEF Good, Sound, InvLists, InvDefunct, InvWaiting, DefunctListSound
    <2> QED BY <1>1, <2>1, <2>2, <2>3, <2>4, <2>5, <2>6
  <1> QED BY <1>2, <1>3

\* IInv is an inductive invariant of the kernel, for any threads, priorities and
\* calls: the lists are sound until a region of rt_thread_resume or
\* rt_thread_delete acts on a thread that changed under it.
THEOREM SchedulerInvariant == Spec => []IInv
  BY InitInv, NextInv, PTL DEF Spec

\* Every variable keeps its type: a time slice, for one, is never 0 when the tick
\* handler counts it down.
THEOREM TypeCorrect == Spec => []TypeOK
  BY SchedulerInvariant, IInvImplies, PTL

\* rt_schedule never follows a bit to an empty list, and never misses a thread,
\* until such a race.
THEOREM BitmapCorrect == Spec => []BitmapMatchesTable
  BY SchedulerInvariant, IInvImplies, PTL

\* The ready lists hold the READY threads at their priorities, each once, until
\* such a race.
THEOREM ReadyTableCorrect == Spec => []ReadyTableSound
  BY SchedulerInvariant, IInvImplies, PTL

\* Only the RUNNING thread executes, until such a race.
THEOREM RunningCorrect == Spec => []OnlyRunningExecutes
  BY SchedulerInvariant, IInvImplies, PTL

\* A thread that executes its own code is a most urgent one, until such a race.
THEOREM PriorityCorrect == Spec => []HighestPriorityRuns
  BY SchedulerInvariant, IInvImplies, PTL

\* The RT_ASSERT of _thread_timeout does not fail, until such a race.
THEOREM TimeoutCorrect == Spec => []TimeoutFindsSuspended
  BY SchedulerInvariant, IInvImplies, PTL

\* The defunct list holds the closed threads, each once, and they are on no other
\* list, until such a race.
THEOREM DefunctCorrect == Spec => []DefunctListSound
  BY SchedulerInvariant, IInvImplies, PTL

\* A locked scheduler does not switch.
THEOREM LockCorrect == Spec => LockKeepsProcessor
  <1> DEFINE A == lock_nest > 0 /\ lock_nest' > 0 => current' = current
  <1>1. IInv /\ [Next]_vars => [A]_vars
    <2> SUFFICES ASSUME IInv, Next, lock_nest > 0 PROVE current' = current
      BY DEF vars
    <2> USE DEF queue, time, tcb, flow
    <2>1. CASE SchedulerStart
      BY <2>1, ConstantsAssumption DEF SchedulerStart, IInv, Sound, InvBoot
    <2>2. CASE rt_schedule
      BY <2>2 DEF rt_schedule
    <2>3. ASSUME NEW t \in Thread, BootStartup(t) \/ KernelStep(t) \/ IsrWake(t)
          PROVE  current' = current
      BY <2>2, <2>3 DEF BootStartup, KernelStep, IsrWake, ResumeAtomically, Schedule, SleepMark,
         SleepReturn, StartupResume, ResumeUnlink, ResumeInsert, KillRemove, KillClose
    <2>4. ASSUME NEW t \in Thread, UserCall(t)
          PROVE  current' = current
      BY <2>4 DEF UserCall, Yield, Wait, Exit, EnterCritical, ExitCritical, Sleep, Wake,
         ResumeAtomically, Resume, Startup, Create, Kill, ChangePriority
    <2>5. CASE IdleDequeue \/ IdleRelease \/ IsrStep \/ Corrupted
      BY <2>2, <2>5 DEF IdleDequeue, IdleRelease, IsrStep, TickIncrease, IsrSchedule, IsrLeave,
         TimerExpire, Corrupted, vars
    <2> QED BY <2>1, <2>3, <2>4, <2>5 DEF Next
  <1> QED BY <1>1, SchedulerInvariant, PTL DEF Spec, LockKeepsProcessor

=============================================================================
