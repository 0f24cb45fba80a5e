----------------------------- MODULE QueueCalls -----------------------------
(***************************************************************************)
(* The calls of a mailbox or a message queue as their threads see them, and  *)
(* the two lists of waiting threads.  rt_mb_* and rt_mq_* have this part in  *)
(* common; each adds its own storage.                                        *)
(***************************************************************************)
EXTENDS Blocking

CONSTANTS
    Value,      \* the messages
    SIZE,       \* mb->size, mq->max_msgs
    Flag,       \* RT_IPC_FLAG_FIFO or RT_IPC_FLAG_PRIO
    Prio,       \* [Thread -> Nat]
    Times       \* the times given to a wait: of "zero", "some" and "forever"

ASSUME QueueAssumption ==
    /\ IsFiniteSet(Thread)
    /\ SIZE \in Nat \ {0}
    /\ Flag \in Flags
    /\ Prio \in [Thread -> Nat]
    /\ Times \subseteq {"zero", "some", "forever"} /\ "zero" \in Times

VARIABLES
    entry,      \* mb->entry, mq->entry: the messages there are
    receivers,  \* parent.suspend_thread
    senders,    \* suspend_sender_thread
    pc,         \* "user", or the call t is in: "put", "urgent" or "take"
    asleep,     \* the threads inside the rt_schedule of their call
    arg,        \* the message a sender brings
    timeout,    \* the time a caller waits
    result      \* the outcome of the last call

lists == <<receivers, senders>>
local == <<pc, asleep, arg, timeout, result>>
calls == <<lists, object, local, blocking>>

CallsInit ==
    /\ receivers = <<>> /\ senders = <<>>
    /\ object = "live"
    /\ pc = [t \in Thread |-> "user"]
    /\ asleep = {}
    /\ arg \in {[t \in Thread |-> v] : v \in Value}
    /\ timeout = [t \in Thread |-> "zero"]
    /\ result = [t \in Thread |-> <<"none">>]
    /\ BlockingInit

\* a detach resumes the receivers, then the senders, then unlinks the object
Phase == {"live", "receivers", "receiver", "senders", "sender", "unlinking", "gone",
          "halted", "raced"}

CallsTypeOK ==
    /\ receivers \in Seq(Thread) /\ senders \in Seq(Thread)
    /\ object \in Phase
    /\ pc \in [Thread -> {"user", "put", "urgent", "take"}]
    /\ asleep \subseteq Thread
    /\ arg \in [Thread -> Value]
    /\ timeout \in [Thread -> Times]
    /\ BlockingTypeOK

\* t calls a send, an urgent send or a receive.
Calls(t, op, v, time) ==
    /\ pc[t] = "user"
    /\ Usable
    /\ op = "urgent" => time = "zero"
    /\ pc' = [pc EXCEPT ![t] = op]
    /\ arg' = [arg EXCEPT ![t] = v]
    /\ timeout' = [timeout EXCEPT ![t] = time]
    /\ UNCHANGED <<lists, object, asleep, result, blocking>>

\* t is at the test of its loop: it has not waited yet, or was woken with RT_EOK.
Looks(t) == Runs /\ (t \in asleep => stat[t] = "READY" /\ error[t] = "EOK")

Returns(t, r) ==
    /\ pc' = [pc EXCEPT ![t] = "user"]
    /\ asleep' = asleep \ {t}
    /\ result' = [result EXCEPT ![t] = r]
    /\ UNCHANGED <<object, arg, timeout>>

\* _ipc_list_resume, if anybody waits
WakeFirst(list) ==
    IF list = <<>> THEN UNCHANGED blocking ELSE Woken({Head(list)}, "EOK")

\* The call of t waits, with the time that is left if it has waited before.
Waits(t) ==
    /\ pc[t] \in {"put", "take"} /\ Looks(t)
    /\ timeout[t] # "zero"
    /\ Suspended(t, "EINTR", timeout[t] = "some")
    /\ IF pc[t] = "take"
       THEN receivers' = Enqueue(receivers, t, Flag, Prio) /\ UNCHANGED senders
       ELSE senders' = Enqueue(senders, t, Flag, Prio) /\ UNCHANGED receivers
    /\ asleep' = asleep \cup {t}
    /\ UNCHANGED <<object, pc, arg, timeout, result>>

\* -RT_EFULL or -RT_ETIMEOUT: no time was given, or a timed wait has used it up
GivesUp(t) ==
    /\ pc[t] # "user" /\ Looks(t)
    /\ timeout[t] = "zero" \/ (timeout[t] = "some" /\ t \in asleep)
    /\ error' = [error EXCEPT ![t] = IF t \notin asleep THEN @
                                     ELSE IF pc[t] = "take" THEN "ETIMEOUT" ELSE "EINTR"]
    /\ Returns(t, <<"failed">>)
    /\ UNCHANGED <<lists, stat, armed>>

\* the wait ended with an error
WaitFails(t) ==
    /\ Runs
    /\ t \in asleep
    /\ stat[t] = "READY" /\ error[t] # "EOK"
    /\ Returns(t, <<"failed">>)
    /\ UNCHANGED <<lists, blocking>>

\* the timeout, or the first half of an rt_thread_resume by somebody else
WaitEnds(t) ==
    /\ Elapsed(t) \/ Unlinks(t)
    /\ receivers' = Unlink(receivers, t)
    /\ senders' = Unlink(senders, t)
    /\ UNCHANGED <<object, local>>

\* its second half
ResumeInsert(t) == Inserts(t) /\ UNCHANGED <<lists, object, local>>

ResumeRaced(t) == t \in asleep /\ Races(t) /\ UNCHANGED <<lists, local>>

\* Mutant: the senders that wait for space are forgotten.
ResumeAll_KeepsSenders ==
    /\ Usable
    /\ Woken(Range(receivers), "ERROR")
    /\ receivers' = <<>>
    /\ UNCHANGED <<senders, object, local>>

\* RT_IPC_CMD_RESET: both lists, with interrupts disabled throughout
ResumeAll ==
    /\ Usable
    /\ Woken(Range(receivers) \cup Range(senders), "ERROR")
    /\ receivers' = <<>> /\ senders' = <<>>
    /\ UNCHANGED <<object, local>>

\* A detach or delete: the receivers, then the senders, then the object.  A list is
\* tested with interrupts enabled, before every thread and after the last one.
DetachBegin ==
    /\ object = "live"
    /\ object' = "receivers"
    /\ UNCHANGED <<lists, local, blocking>>

DetachTest ==
    /\ \/ object = "receivers" /\ ResumeAllTest(receivers, "receiver", "senders")
       \/ object = "senders" /\ ResumeAllTest(senders, "sender", "unlinking")
    /\ UNCHANGED <<lists, local>>

DetachReceiver ==
    /\ object = "receiver"
    /\ ResumeAllFirst(receivers, "receivers")
    /\ receivers' = Rest(receivers)
    /\ UNCHANGED <<senders, local>>

DetachSender ==
    /\ object = "sender"
    /\ ResumeAllFirst(senders, "senders")
    /\ senders' = Rest(senders)
    /\ UNCHANGED <<receivers, local>>

\* rt_object_detach, rt_object_delete
DetachEnd ==
    /\ object = "unlinking"
    /\ object' = "gone"
    /\ UNCHANGED <<lists, local, blocking>>

Detach == DetachBegin \/ DetachTest \/ DetachReceiver \/ DetachSender \/ DetachEnd

\* the object is initialised again when nobody is left in a call
Reborn ==
    /\ object = "gone"
    /\ \A t \in Thread : pc[t] = "user"
    /\ object' = "live"
    /\ UNCHANGED <<lists, local, blocking>>

\* What a thread does without touching the storage.
CallStep(t) ==
    \/ \E op \in {"put", "urgent", "take"}, v \in Value, time \in Times :
          Calls(t, op, v, time)
    \/ WaitFails(t) \/ WaitEnds(t) \/ ResumeInsert(t) \/ ResumeRaced(t)

\* nothing is said of what follows
Stopped == ~Runs /\ UNCHANGED calls

\* The threads that were woken for a message, or for space, and have not looked yet.
OnTheWay(op) ==
    {t \in asleep : pc[t] = op /\ stat[t] = "READY" /\ error[t] = "EOK"}

=============================================================================
