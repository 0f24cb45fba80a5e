------------------------------- MODULE MemPool -------------------------------
(***************************************************************************)
(* The memory pool of mempool.c: blocks of one size in a list, a count of     *)
(* them, and threads that wait for one.  A woken thread looks again; waiting  *)
(* threads are linked at the front of the list, and thread->error is RT_EOK   *)
(* during the wait, so that any resume that sets no error is a chance to look.*)
(***************************************************************************)
EXTENDS WaitList

CONSTANT Block  \* the blocks of the pool

ASSUME MemPoolAssumption == IsFiniteSet(Block) /\ Block # {}

VARIABLES
    block_list,        \* mp->block_list: the free blocks as they are linked
    block_free_count,
    time,              \* is the wait of the thread limited?
    held,              \* the blocks that were handed out
    freed              \* history: the waiting threads that rt_mp_free resumed

pool == <<block_list, block_free_count, held>>
mpVars == <<pool, time, freed, waitList>>

-----------------------------------------------------------------------------

\* rt_mp_init, rt_mp_create: the blocks in some order, all of them free
MpInit ==
    /\ block_list \in {s \in [1 .. Cardinality(Block) -> Block] : IsInjective(s)}
    /\ block_free_count = Cardinality(Block)
    /\ time = [t \in Thread |-> FALSE]
    /\ held = {}
    /\ freed = {}
    /\ WaitListInit

\* t is at the test of the loop in rt_mp_alloc.
Looks(t) ==
    /\ Runs
    /\ IF t \in asleep THEN stat[t] = "READY" /\ error[t] = "EOK" ELSE object # "gone"

\* Mutant: the count is brought up to date on the next free only.
Alloc_NoCount(t) ==
    /\ Looks(t)
    /\ block_free_count > 0
    /\ block_list' = Tail(block_list)
    /\ held' = held \cup {Head(block_list)}
    /\ asleep' = asleep \ {t}
    /\ freed' = freed \ {t}
    /\ UNCHANGED <<block_free_count, waiters, object, time, blocking>>

\* rt_mp_alloc with a free block: the first one, which is there if the count is right
Alloc(t) ==
    /\ Looks(t)
    /\ block_free_count > 0
    /\ block_free_count' = block_free_count - 1
    /\ block_list' = Tail(block_list)
    /\ held' = held \cup {Head(block_list)}
    /\ asleep' = asleep \ {t}
    /\ freed' = freed \ {t}
    /\ UNCHANGED <<waiters, object, time, blocking>>

\* rt_mp_alloc without one: suspended, with the time that is left
Wait(t, timed) ==
    /\ Looks(t)
    /\ block_free_count = 0
    /\ t \in asleep => timed = time[t]
    /\ Suspended(t, "EOK", timed)
    /\ waiters' = InsertAfter(waiters, t)
    /\ asleep' = asleep \cup {t}
    /\ time' = [time EXCEPT ![t] = timed]
    /\ freed' = freed \ {t}
    /\ UNCHANGED <<pool, object>>

\* RT_NULL: the time was used up, though the thread was woken for a block (a time of
\* 0 from the start changes nothing)
GiveUp(t) ==
    /\ t \in asleep /\ Looks(t)
    /\ block_free_count = 0
    /\ time[t]
    /\ asleep' = asleep \ {t}
    /\ freed' = freed \ {t}
    /\ UNCHANGED <<pool, waiters, object, time, blocking>>

\* RT_NULL: timed out, or the pool was detached
AllocFails(t) ==
    /\ Runs
    /\ t \in asleep
    /\ stat[t] = "READY" /\ error[t] # "EOK"
    /\ asleep' = asleep \ {t}
    /\ UNCHANGED <<pool, waiters, object, time, freed, blocking>>

\* Mutant: a waiting thread is woken by the first free block only.
Free_FirstOnly(b) ==
    /\ Runs
    /\ b \in held
    /\ held' = held \ {b}
    /\ block_free_count' = block_free_count + 1
    /\ block_list' = <<b>> \o block_list
    /\ IF waiters = <<>> \/ block_free_count > 0 THEN UNCHANGED <<waiters, freed, blocking>>
       ELSE /\ Woken({Head(waiters)}, "EOK")
            /\ freed' = freed \cup {Head(waiters)}
            /\ waiters' = Tail(waiters)
    /\ UNCHANGED <<object, asleep, time>>

\* rt_mp_free, by a thread or an interrupt handler, also after the detach
Free(b) ==
    /\ Runs
    /\ b \in held
    /\ held' = held \ {b}
    /\ block_free_count' = block_free_count + 1
    /\ block_list' = <<b>> \o block_list
    /\ IF waiters = <<>> THEN UNCHANGED <<waiters, freed, blocking>>
       ELSE /\ Woken({Head(waiters)}, "EOK")
            /\ freed' = freed \cup {Head(waiters)}
            /\ waiters' = Tail(waiters)
    /\ UNCHANGED <<object, asleep, time>>

\* rt_mp_init of a pool that was detached and is no longer used
MpInitAgain ==
    /\ Reborn
    /\ held = {}
    /\ UNCHANGED <<pool, time, freed>>

MpNext ==
    \/ \E t \in Thread :
         \/ Alloc(t) \/ GiveUp(t) \/ AllocFails(t)
         \/ \E timed \in Timed : Wait(t, timed)
         \/ (WaitEnds(t) \/ ResumeInsert(t) \/ ResumeRaced(t)) /\ UNCHANGED <<pool, time, freed>>
    \/ \E b \in Block : Free(b)
    \/ (Detach \/ Stopped) /\ UNCHANGED <<pool, time, freed>>
    \/ MpInitAgain

MpSpec == MpInit /\ [][MpNext]_mpVars

-----------------------------------------------------------------------------
(* Properties.                                                              *)

MpTypeOK ==
    /\ block_list \in Seq(Block)
    /\ block_free_count \in 0 .. Cardinality(Block)
    /\ time \in [Thread -> BOOLEAN]
    /\ held \subseteq Block
    /\ freed \subseteq Thread
    /\ WaitListTypeOK

\* Every block is either in the list, once, or handed out, and the count by which
\* rt_mp_alloc decides is the length of the list.
BlocksAccounted ==
    /\ IsInjective(block_list)
    /\ Range(block_list) \cap held = {}
    /\ Range(block_list) \cup held = Block
    /\ block_free_count = Len(block_list)

\* No thread waits beside a free block: for each of them a thread that rt_mp_free has
\* resumed is on its way, whatever timeouts and resumes happen meanwhile.
NoLostWakeup ==
    waiters # <<>> => block_free_count <= Cardinality(freed)

=============================================================================
