------------------------------- MODULE Mailbox -------------------------------
(***************************************************************************)
(* The mailbox of ipc.c: a ring of SIZE words.  Senders wait for space,       *)
(* receivers for a message; a thread that is woken looks again, and may find *)
(* that another one was faster.                                              *)
(***************************************************************************)
EXTENDS QueueCalls

VARIABLES msg_pool, in_offset, out_offset

ring == <<msg_pool, in_offset, out_offset, entry>>
vars == <<ring, calls>>

-----------------------------------------------------------------------------

Init ==
    /\ msg_pool \in {[i \in 0 .. SIZE - 1 |-> v] : v \in Value}
    /\ in_offset = 0 /\ out_offset = 0 /\ entry = 0
    /\ CallsInit

Succ(i) == IF i + 1 >= SIZE THEN 0 ELSE i + 1

\* _rt_mb_send_wait with space
Send(t) ==
    /\ pc[t] = "put" /\ Looks(t)
    /\ entry < SIZE
    /\ msg_pool' = [msg_pool EXCEPT ![in_offset] = arg[t]]
    /\ in_offset' = Succ(in_offset)
    /\ entry' = entry + 1
    /\ WakeFirst(receivers)
    /\ receivers' = Rest(receivers)
    /\ Returns(t, <<"ok">>)
    /\ UNCHANGED <<out_offset, senders>>

\* Mutant: the message goes where the next ordinary one would.
UrgentSend_AtEnd(t) ==
    /\ pc[t] = "urgent" /\ Looks(t)
    /\ entry < SIZE
    /\ msg_pool' = [msg_pool EXCEPT ![in_offset] = arg[t]]
    /\ in_offset' = Succ(in_offset)
    /\ entry' = entry + 1
    /\ WakeFirst(receivers)
    /\ receivers' = Rest(receivers)
    /\ Returns(t, <<"ok">>)
    /\ UNCHANGED <<out_offset, senders>>

\* rt_mb_urgent with space: the message goes in front of the oldest one
UrgentSend(t) ==
    /\ pc[t] = "urgent" /\ Looks(t)
    /\ entry < SIZE
    /\ out_offset' = IF out_offset > 0 THEN out_offset - 1 ELSE SIZE - 1
    /\ msg_pool' = [msg_pool EXCEPT ![out_offset'] = arg[t]]
    /\ entry' = entry + 1
    /\ WakeFirst(receivers)
    /\ receivers' = Rest(receivers)
    /\ Returns(t, <<"ok">>)
    /\ UNCHANGED <<in_offset, senders>>

\* _rt_mb_recv with a message
Receive(t) ==
    /\ pc[t] = "take" /\ Looks(t)
    /\ entry > 0
    /\ out_offset' = Succ(out_offset)
    /\ entry' = entry - 1
    /\ WakeFirst(senders)
    /\ senders' = Rest(senders)
    /\ Returns(t, <<"got", msg_pool[out_offset]>>)
    /\ UNCHANGED <<msg_pool, in_offset, receivers>>

\* The call cannot proceed: a full mailbox, or an empty one.
Stuck(t) == IF pc[t] = "take" THEN entry = 0 ELSE entry = SIZE

Block(t) == Stuck(t) /\ Waits(t) /\ UNCHANGED ring

GiveUp(t) == Stuck(t) /\ GivesUp(t) /\ UNCHANGED ring

Cleared == entry' = 0 /\ in_offset' = 0 /\ out_offset' = 0 /\ UNCHANGED msg_pool

\* rt_mb_control(RT_IPC_CMD_RESET)
Reset == ResumeAll /\ Cleared

\* rt_mb_init of a mailbox that was detached
InitAgain == Reborn /\ Cleared

Next ==
    \/ \E t \in Thread :
         \/ Send(t) \/ UrgentSend(t) \/ Receive(t) \/ Block(t) \/ GiveUp(t)
         \/ CallStep(t) /\ UNCHANGED ring
    \/ Reset \/ InitAgain
    \/ (Detach \/ Stopped) /\ UNCHANGED ring

Spec == Init /\ [][Next]_vars

-----------------------------------------------------------------------------
(* Properties.                                                              *)

TypeOK ==
    /\ msg_pool \in [0 .. SIZE - 1 -> Value]
    /\ in_offset \in 0 .. SIZE - 1 /\ out_offset \in 0 .. SIZE - 1
    /\ entry \in 0 .. SIZE
    /\ CallsTypeOK

\* The ring read from out_offset is a bounded queue: however sends, urgent sends,
\* receives, timeouts, resets and resumes interleave, a message is delivered to one
\* receiver, in order, and a call that failed has left no trace.
queue == [i \in 1 .. entry |-> msg_pool[(out_offset + i - 1) % SIZE]]
call == [t \in Thread |->
           CASE pc[t] = "user" -> result[t]
             [] pc[t] = "take" -> <<"take">>
             [] OTHER          -> <<pc[t], arg[t]>>]
Queue == INSTANCE BoundedQueue
ImplementsQueue == Queue!Spec

\* No wakeup is lost: while a receiver waits, for every message in the mailbox some
\* other receiver is on its way to it; and the same for senders and space.  A woken
\* thread may be overtaken, but then it waits again for a later message.
NoLostWakeup ==
    /\ receivers # <<>> => entry <= Cardinality(OnTheWay("take"))
    /\ senders # <<>> => SIZE - entry <= Cardinality(OnTheWay("put"))

=============================================================================
