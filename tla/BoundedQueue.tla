---------------------------- MODULE BoundedQueue ----------------------------
(***************************************************************************)
(* What a mailbox and a message queue promise: a queue of at most SIZE        *)
(* messages.  A call takes effect at one moment between its invocation and   *)
(* its return, or fails and has none.                                        *)
(***************************************************************************)
EXTENDS Naturals, Sequences

CONSTANTS Thread, Value, SIZE

VARIABLES
    queue,  \* the messages, the oldest first
    call    \* the request a thread waits for, or the outcome of its last one

Put == {<<"put", v>> : v \in Value}
Urgent == {<<"urgent", v>> : v \in Value}
Take == {<<"take">>}
Request == Put \cup Urgent \cup Take
Outcome == {<<"none">>, <<"ok">>, <<"failed">>} \cup {<<"got", v>> : v \in Value}

Init ==
    /\ queue = <<>>
    /\ call = [t \in Thread |-> <<"none">>]

Invoke(t, r) ==
    /\ call[t] \in Outcome
    /\ call' = [call EXCEPT ![t] = r]
    /\ UNCHANGED queue

\* A message is appended, or put in front of all others.
Accept(t) ==
    /\ call[t] \in Put \cup Urgent
    /\ Len(queue) < SIZE
    /\ queue' = IF call[t] \in Put THEN Append(queue, call[t][2])
                ELSE <<call[t][2]>> \o queue
    /\ call' = [call EXCEPT ![t] = <<"ok">>]

\* The first message is delivered, to one thread.
Deliver(t) ==
    /\ call[t] \in Take
    /\ queue # <<>>
    /\ call' = [call EXCEPT ![t] = <<"got", Head(queue)>>]
    /\ queue' = Tail(queue)

\* Refused or timed out, or ended by a reset, a detach or a resume.
Fail(t) ==
    /\ call[t] \in Request
    /\ call' = [call EXCEPT ![t] = <<"failed">>]
    /\ UNCHANGED queue

Reset == queue' = <<>> /\ UNCHANGED call

Next ==
    \/ \E t \in Thread : Accept(t) \/ Deliver(t) \/ Fail(t)
                         \/ \E r \in Request : Invoke(t, r)
    \/ Reset

Spec == Init /\ [][Next]_<<queue, call>>

=============================================================================
