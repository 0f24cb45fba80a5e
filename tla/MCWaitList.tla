------------------------------ MODULE MCWaitList ------------------------------
(* The two kinds of object on a WaitList, one at a time: an event of two bits   *)
(* with waiting threads of one priority, or a pool of three blocks.             *)
EXTENDS Event, MemPool, TLC

CONSTANT Extra  \* a thread that uses the pool only

VARIABLE kind  \* which of the two objects there is: "event" or "pool"

mcVars == <<kind, bits, pool, time, freed, waitList>>

MCPrio == [t \in Thread |-> 0]
Symmetry == Permutations(Thread \ {Extra}) \cup Permutations(Bit) \cup Permutations(Block)

EventOnly == kind = "event" /\ UNCHANGED <<kind, pool, time, freed>>
PoolOnly == kind = "pool" /\ UNCHANGED <<kind, bits>>
Either == UNCHANGED <<kind, bits, pool, time, freed>>

\* The object that is not there stays as it is: the pool with all blocks taken, the
\* event with no bit set, its fields as if every thread asked for all bits and got them.
MCInit ==
    /\ kind \in {"event", "pool"}
    /\ IF kind = "event"
       THEN /\ Init
            /\ block_list = <<>> /\ block_free_count = 0 /\ held = Block /\ freed = {}
            /\ time = [t \in Thread |-> FALSE]
       ELSE /\ MpInit
            /\ set = {}
            /\ event_set = [t \in Thread |-> Bit] /\ asked = event_set /\ seen = event_set
            /\ event_info = [t \in Thread |-> [mode |-> "AND", clear |-> FALSE]]

\* The actions of Event!Next, with waits that may time out, and of MpNext.
MCNext ==
    \/ \E t \in Thread \ {Extra} :
         \/ \E wanted \in Bits, option \in Option :
              \/ RecvNow(t, wanted, option) /\ EventOnly
              \/ RecvBlock(t, wanted, option, TRUE) /\ EventOnly
         \/ RecvReturn(t) /\ EventOnly
    \/ \E sent \in Bits : Send(sent) /\ EventOnly
    \/ Reset /\ EventOnly
    \/ InitAgain /\ EventOnly
    \/ \E t \in Thread :
         \/ Alloc(t) /\ PoolOnly
         \/ GiveUp(t) /\ PoolOnly
         \/ AllocFails(t) /\ PoolOnly
         \/ \E timed \in Timed : Wait(t, timed) /\ PoolOnly
    \/ \E b \in Block : Free(b) /\ PoolOnly
    \/ MpInitAgain /\ PoolOnly
    \/ \E t \in Thread :
         \/ WaitEnds(t) /\ Either
         \/ ResumeInsert(t) /\ Either
         \/ ResumeRaced(t) /\ Either
    \/ DetachBegin /\ Either
    \/ DetachTest /\ Either
    \/ DetachResume /\ Either
    \/ DetachEnd /\ Either
    \/ Stopped /\ Either

MCSpec == MCInit /\ [][MCNext]_mcVars

\* What a thread asked for or got is read while it waits and if it was served, the
\* outcome of a call while it lasts.  Nothing is said of a stopped kernel.
Of(f) == [t \in Thread |-> IF t \in asleep /\ (stat[t] = "SUSPEND" \/ error[t] = "EOK")
                           THEN <<f[t]>> ELSE <<>>]
View ==
    IF ~Runs THEN <<>>
    ELSE <<kind, waiters, object, asleep, stat, armed,
           IF kind = "event"
           THEN <<set, Of(event_set), Of(event_info), Of(asked), Of(seen), Of(error)>>
           ELSE <<pool, freed,
                  [t \in Thread |-> IF t \in asleep THEN <<time[t], error[t]>> ELSE <<>>]>>>>
=============================================================================
