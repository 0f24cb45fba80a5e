------------------------------ MODULE Blocking ------------------------------
(***************************************************************************)
(* What a blocking call does to the thread that waits: its state, its timer  *)
(* and thread->error, which carries the outcome of the wait.  Shared by the  *)
(* IPC objects of ipc.c and the memory pool.  A region with interrupts       *)
(* disabled is one action; which of the runnable threads runs is left open,  *)
(* and a timer that is armed may expire at any moment.  The object waited for *)
(* goes through the steps of its detach; "halted" is a kernel stopped at an   *)
(* RT_ASSERT, "raced" one in which two wake-ups of a thread have met.         *)
(***************************************************************************)
EXTENDS IpcList

CONSTANT Thread

VARIABLES
    stat,   \* "READY" (or running), "SUSPEND", or "UNLINKED": still RT_THREAD_SUSPEND,
            \* but an rt_thread_resume has taken it off the list it waited in
    armed,  \* the threads whose thread_timer is started
    error,  \* thread->error
    object  \* "live", the steps of a detach, "gone"; "halted", "raced"

blocking == <<stat, armed, error>>

Error == {"EOK", "EINTR", "ETIMEOUT", "ERROR"}

BlockingInit ==
    /\ stat = [t \in Thread |-> "READY"]
    /\ armed = {}
    /\ error = [t \in Thread |-> "EOK"]

BlockingTypeOK ==
    /\ stat \in [Thread -> {"READY", "SUSPEND", "UNLINKED"}]
    /\ armed \subseteq Thread
    /\ error \in [Thread -> Error]

\* The kernel runs, and the object may be used.
Runs == object \notin {"halted", "raced"}
Usable == Runs /\ object # "gone"

\* t is suspended, thread->error being e, and with a timeout its timer started.
Suspended(t, e, timed) ==
    /\ stat' = [stat EXCEPT ![t] = "SUSPEND"]
    /\ armed' = IF timed THEN armed \cup {t} ELSE armed
    /\ error' = [error EXCEPT ![t] = e]

\* The threads S are resumed and find e in thread->error.
Woken(S, e) ==
    /\ stat' = [t \in Thread |-> IF t \in S THEN "READY" ELSE stat[t]]
    /\ armed' = armed \ S
    /\ error' = [t \in Thread |-> IF t \in S THEN e ELSE error[t]]

\* _thread_timeout: the time of a wait is over
Elapsed(t) == Runs /\ t \in armed /\ Woken({t}, "ETIMEOUT")

\* rt_thread_resume by somebody else, which leaves thread->error alone: the thread is
\* unlinked and its timer stopped ...
Unlinks(t) ==
    /\ Runs
    /\ stat[t] = "SUSPEND"
    /\ stat' = [stat EXCEPT ![t] = "UNLINKED"]
    /\ armed' = armed \ {t}
    /\ UNCHANGED error

\* ... and, after interrupts were enabled, put into the ready table.
Inserts(t) ==
    /\ Runs
    /\ stat[t] = "UNLINKED"
    /\ stat' = [stat EXCEPT ![t] = "READY"]
    /\ UNCHANGED <<armed, error>>

\* An rt_thread_resume that read stat while t waited meets another wake-up of t: it
\* takes a READY thread off the ready table, or inserts it twice.  What becomes of the
\* ready table is in module Scheduler; here the behaviour ends.
Races(t) ==
    /\ Runs
    /\ stat[t] # "SUSPEND"
    /\ object' = "raced"
    /\ UNCHANGED blocking

\* The loop of _ipc_list_resume_all: its test, with interrupts enabled ...
ResumeAllTest(list, nonempty, empty) ==
    /\ object' = IF list # <<>> THEN nonempty ELSE empty
    /\ UNCHANGED blocking

\* ... and its region, which resumes the first thread.  If the list has emptied since
\* the test, its head is taken for a thread, and the RT_ASSERT on the type of the
\* object in rt_thread_resume fails.
ResumeAllFirst(list, again) ==
    IF list = <<>> THEN object' = "halted" /\ UNCHANGED blocking
    ELSE object' = again /\ Woken({Head(list)}, "ERROR")

Rest(list) == IF list = <<>> THEN list ELSE Tail(list)

=============================================================================
