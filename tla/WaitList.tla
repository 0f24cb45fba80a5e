------------------------------ MODULE WaitList ------------------------------
(***************************************************************************)
(* The list of waiting threads of an event or a memory pool: how a wait ends *)
(* early, and how a detach empties the list.  Each adds what it hands out.   *)
(***************************************************************************)
EXTENDS Blocking

CONSTANT Timed  \* a subset of BOOLEAN: are waits with a timeout, without one considered?

ASSUME WaitListAssumption == IsFiniteSet(Thread) /\ Timed \subseteq BOOLEAN

VARIABLES
    waiters,  \* event->parent.suspend_thread, mp->suspend_thread
    asleep    \* the threads inside the rt_schedule of their call

waitList == <<waiters, object, asleep, blocking>>

WaitListInit ==
    /\ waiters = <<>>
    /\ object = "live"
    /\ asleep = {}
    /\ BlockingInit

Phase == {"live", "detaching", "entered", "unlinking", "gone", "halted", "raced"}

WaitListTypeOK ==
    /\ waiters \in Seq(Thread)
    /\ object \in Phase
    /\ asleep \subseteq Thread
    /\ BlockingTypeOK

\* the timeout, or the first half of an rt_thread_resume by somebody else
WaitEnds(t) ==
    /\ Elapsed(t) \/ Unlinks(t)
    /\ waiters' = Unlink(waiters, t)
    /\ UNCHANGED <<object, asleep>>

\* its second half
ResumeInsert(t) == Inserts(t) /\ UNCHANGED <<waiters, object, asleep>>

ResumeRaced(t) == t \in asleep /\ Races(t) /\ UNCHANGED <<waiters, asleep>>

\* A detach or delete: the list is tested with interrupts enabled, before every waiter
\* and after the last one.
DetachBegin ==
    /\ object = "live"
    /\ object' = "detaching"
    /\ UNCHANGED <<waiters, asleep, blocking>>

DetachTest ==
    /\ object = "detaching"
    /\ ResumeAllTest(waiters, "entered", "unlinking")
    /\ UNCHANGED <<waiters, asleep>>

DetachResume ==
    /\ object = "entered"
    /\ ResumeAllFirst(waiters, "detaching")
    /\ waiters' = Rest(waiters)
    /\ UNCHANGED asleep

\* rt_object_detach, rt_object_delete
DetachEnd ==
    /\ object = "unlinking"
    /\ object' = "gone"
    /\ UNCHANGED <<waiters, asleep, blocking>>

Detach == DetachBegin \/ DetachTest \/ DetachResume \/ DetachEnd

\* the object is initialised again when nobody is left in a call
Reborn ==
    /\ object = "gone" /\ asleep = {}
    /\ object' = "live"
    /\ UNCHANGED <<waiters, asleep, blocking>>

\* nothing is said of what follows
Stopped == ~Runs /\ UNCHANGED waitList

=============================================================================
