-------------------------------- MODULE Event --------------------------------
(***************************************************************************)
(* The event of ipc.c: a set of bits.  A thread waits for all or for any of   *)
(* some bits and may ask that they are cleared; one rt_event_send may serve  *)
(* several waiting threads, and clears what they asked for after the last.   *)
(***************************************************************************)
EXTENDS WaitList

CONSTANTS
    Bit,    \* the bits of an event
    Flag,   \* RT_IPC_FLAG_FIFO or RT_IPC_FLAG_PRIO
    Prio    \* [Thread -> Nat]

ASSUME EventAssumption ==
    /\ IsFiniteSet(Bit)
    /\ Flag \in Flags
    /\ Prio \in [Thread -> Nat]

VARIABLES
    set,         \* event->set
    event_set,   \* thread->event_set: what the thread waits for, or has got
    event_info,  \* thread->event_info
    asked,       \* history: the bits a waiting thread asked for
    seen         \* history: the bits that were set at some time of its wait

history == <<asked, seen>>
bits == <<set, event_set, event_info, history>>
vars == <<bits, waitList>>

Bits == SUBSET Bit \ {{}}
Option == [mode : {"AND", "OR"}, clear : BOOLEAN]

-----------------------------------------------------------------------------

\* The test of rt_event_recv and rt_event_send.
Satisfied(wanted, option, now) ==
    IF option.mode = "AND" THEN wanted \subseteq now ELSE wanted \cap now # {}

Init ==
    /\ set = {}
    /\ event_set = [t \in Thread |-> {}]
    /\ event_info = [t \in Thread |-> [mode |-> "OR", clear |-> FALSE]]
    /\ asked = [t \in Thread |-> {}]
    /\ seen = [t \in Thread |-> {}]
    /\ WaitListInit

Calls(t) == t \notin asleep /\ Usable

\* _rt_event_recv when the bits are there
RecvNow(t, wanted, option) ==
    /\ Calls(t)
    /\ Satisfied(wanted, option, set)
    /\ event_set' = [event_set EXCEPT ![t] = set \cap wanted]
    /\ event_info' = [event_info EXCEPT ![t] = option]
    /\ error' = [error EXCEPT ![t] = "EOK"]
    /\ set' = IF option.clear THEN set \ wanted ELSE set
    /\ UNCHANGED <<waiters, object, asleep, history, stat, armed>>

\* _rt_event_recv when they are not.  (A timeout of 0 returns -RT_ETIMEOUT and
\* changes nothing else.)
RecvBlock(t, wanted, option, timed) ==
    /\ Calls(t)
    /\ ~Satisfied(wanted, option, set)
    /\ event_set' = [event_set EXCEPT ![t] = wanted]
    /\ event_info' = [event_info EXCEPT ![t] = option]
    /\ waiters' = Enqueue(waiters, t, Flag, Prio)
    /\ Suspended(t, "EINTR", timed)
    /\ asleep' = asleep \cup {t}
    /\ asked' = [asked EXCEPT ![t] = wanted]
    /\ seen' = [seen EXCEPT ![t] = set]
    /\ UNCHANGED <<set, object>>

\* the wait is over: thread->error is the result, thread->event_set what came
RecvReturn(t) ==
    /\ Runs
    /\ t \in asleep
    /\ stat[t] = "READY"
    /\ asleep' = asleep \ {t}
    /\ UNCHANGED <<set, waiters, object, event_set, event_info, history, blocking>>

\* Mutant: only the first of the waiters that could be is served.
Served_FirstOnly(now) ==
    LET ready == {i \in DOMAIN waiters :
                     Satisfied(event_set[waiters[i]], event_info[waiters[i]], now)}
    IN  IF ready = {} THEN {}
        ELSE {waiters[CHOOSE i \in ready : \A j \in ready : i <= j]}

\* The waiters that are served when the event's bits become `now`.
Served(now) == {t \in Range(waiters) : Satisfied(event_set[t], event_info[t], now)}

\* Mutant: a thread that waits for any bit is given all the bits it waits for.
Narrowed_Not(t, now) == event_set[t]

\* What a served thread receives: of the bits it waits for, the ones that are set.
Narrowed(t, now) == event_set[t] \cap now

\* rt_event_send
Send(sent) ==
    /\ Usable
    /\ LET all == set \cup sent
           served == Served(all)
       IN  /\ event_set' = [t \in Thread |-> IF t \in served THEN Narrowed(t, all)
                                             ELSE event_set[t]]
           /\ Woken(served, "EOK")
           /\ waiters' = UnlinkAll(waiters, served)
           /\ set' = all \ UNION {event_set'[t] : t \in {u \in served : event_info[u].clear}}
           /\ seen' = [t \in Thread |-> IF t \in Range(waiters) THEN seen[t] \cup sent
                                        ELSE seen[t]]
    /\ UNCHANGED <<object, event_info, asleep, asked>>

\* rt_event_control(RT_IPC_CMD_RESET)
Reset ==
    /\ Usable
    /\ Woken(Range(waiters), "ERROR")
    /\ waiters' = <<>>
    /\ set' = {}
    /\ UNCHANGED <<object, asleep, event_set, event_info, history>>

\* rt_event_init of an event that was detached and nobody is left in
InitAgain ==
    /\ Reborn
    /\ set' = {}
    /\ UNCHANGED <<event_set, event_info, history>>

Next ==
    \/ \E t \in Thread :
         \/ \E wanted \in Bits, option \in Option :
              \/ RecvNow(t, wanted, option)
              \/ \E timed \in Timed : RecvBlock(t, wanted, option, timed)
         \/ RecvReturn(t)
         \/ (WaitEnds(t) \/ ResumeInsert(t) \/ ResumeRaced(t)) /\ UNCHANGED bits
    \/ \E sent \in Bits : Send(sent)
    \/ Reset \/ InitAgain
    \/ (Detach \/ Stopped) /\ UNCHANGED bits

Spec == Init /\ [][Next]_vars

-----------------------------------------------------------------------------
(* Properties.                                                              *)

TypeOK ==
    /\ set \subseteq Bit
    /\ event_set \in [Thread -> SUBSET Bit]
    /\ event_info \in [Thread -> Option]
    /\ asked \in [Thread -> SUBSET Bit] /\ seen \in [Thread -> SUBSET Bit]
    /\ WaitListTypeOK

\* No thread sleeps on an event whose bits would satisfy it: rt_event_send serves
\* every waiter it can, and what the others take or clear makes nobody else ready.
NoSatisfiedWaiter ==
    \A t \in Range(waiters) :
        /\ stat[t] = "SUSPEND"
        /\ event_set[t] = asked[t]
        /\ ~Satisfied(event_set[t], event_info[t], set)

\* A thread that returns with RT_EOK from a wait has received what it asked for, all
\* of it or some of it, and only bits that were set while it waited, whoever else was
\* served by the same send and cleared them.
ReceivedSound ==
    \A t \in asleep : stat[t] = "READY" /\ error[t] = "EOK" =>
        /\ event_set[t] \subseteq asked[t] \cap seen[t]
        /\ IF event_info[t].mode = "AND" THEN event_set[t] = asked[t] ELSE event_set[t] # {}

=============================================================================
