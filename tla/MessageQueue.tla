---------------------------- MODULE MessageQueue ----------------------------
(***************************************************************************)
(* The message queue of ipc.c: SIZE nodes, linked in a free list and in the   *)
(* queue.  A message is copied with interrupts enabled, so a call is several *)
(* steps: a sender takes a free node, fills it, links it; a receiver unlinks *)
(* the first node, copies it, gives the node back.                           *)
(***************************************************************************)
EXTENDS QueueCalls

CONSTANT Null

ASSUME NullAssumption == Null \notin 1 .. SIZE

Node == 1 .. SIZE

VARIABLES
    next,            \* msg->next
    data,            \* the bytes of the message in a node
    msg_queue_head, msg_queue_tail, msg_queue_free,
    node,            \* the node a thread has in its hands, or Null
    copied           \* the threads that have copied theirs

queueVars == <<msg_queue_head, msg_queue_tail, entry>>
pool == <<next, data, msg_queue_free, queueVars>>
hands == <<node, copied>>
mqVars == <<pool, hands, calls>>

-----------------------------------------------------------------------------

\* rt_mq_init links the nodes in the free list, the last one first.
FreshLinks == [n \in Node |-> IF n = 1 THEN Null ELSE n - 1]

MqInit ==
    /\ next = FreshLinks
    /\ msg_queue_free = SIZE
    /\ msg_queue_head = Null /\ msg_queue_tail = Null
    /\ entry = 0
    /\ data \in {[n \in Node |-> v] : v \in Value}
    /\ node = [t \in Thread |-> Null]
    /\ copied = {}
    /\ CallsInit

\* The first region of a send: a node is taken off the free list.
Grab(t) ==
    /\ pc[t] \in {"put", "urgent"} /\ Looks(t)
    /\ node[t] = Null
    /\ msg_queue_free # Null
    /\ node' = [node EXCEPT ![t] = msg_queue_free]
    /\ msg_queue_free' = next[msg_queue_free]
    /\ asleep' = asleep \ {t}
    /\ UNCHANGED <<next, data, queueVars, copied, lists, object, pc, arg, timeout, result,
                   blocking>>

\* the copy into the node, interrupts enabled
Fill(t) ==
    /\ Runs
    /\ pc[t] \in {"put", "urgent"}
    /\ node[t] # Null /\ t \notin copied
    /\ next' = IF pc[t] = "put" THEN [next EXCEPT ![node[t]] = Null] ELSE next
    /\ data' = [data EXCEPT ![node[t]] = arg[t]]
    /\ copied' = copied \cup {t}
    /\ UNCHANGED <<msg_queue_free, queueVars, node, calls>>

HandsEmpty(t) == node' = [node EXCEPT ![t] = Null] /\ copied' = copied \ {t}

\* The second region of a send: the node is linked at the end, and a receiver woken.
Link(t) ==
    /\ Runs
    /\ pc[t] = "put" /\ t \in copied
    /\ next' = IF msg_queue_tail = Null THEN next
               ELSE [next EXCEPT ![msg_queue_tail] = node[t]]
    /\ msg_queue_tail' = node[t]
    /\ msg_queue_head' = IF msg_queue_head = Null THEN node[t] ELSE msg_queue_head
    /\ entry' = entry + 1
    /\ WakeFirst(receivers)
    /\ receivers' = Rest(receivers)
    /\ Returns(t, <<"ok">>)
    /\ HandsEmpty(t)
    /\ UNCHANGED <<data, msg_queue_free, senders>>

\* The second region of rt_mq_urgent: linked in front.
LinkUrgent(t) ==
    /\ Runs
    /\ pc[t] = "urgent" /\ t \in copied
    /\ next' = [next EXCEPT ![node[t]] = msg_queue_head]
    /\ msg_queue_head' = node[t]
    /\ msg_queue_tail' = IF msg_queue_tail = Null THEN node[t] ELSE msg_queue_tail
    /\ entry' = entry + 1
    /\ WakeFirst(receivers)
    /\ receivers' = Rest(receivers)
    /\ Returns(t, <<"ok">>)
    /\ HandsEmpty(t)
    /\ UNCHANGED <<data, msg_queue_free, senders>>

\* Mutants: the tail is left pointing at the node that was the last one; the node is
\* free again, and a sender woken, before it has been copied.
UnlinkFirst_KeepsTail(t) ==
    /\ pc[t] = "take" /\ Looks(t)
    /\ node[t] = Null
    /\ entry > 0
    /\ node' = [node EXCEPT ![t] = msg_queue_head]
    /\ msg_queue_head' = next[msg_queue_head]
    /\ entry' = entry - 1
    /\ asleep' = asleep \ {t}
    /\ UNCHANGED <<next, data, msg_queue_free, msg_queue_tail, copied, lists, object, pc,
                   arg, timeout, result, blocking>>

UnlinkFirst_FreesNode(t) ==
    /\ pc[t] = "take" /\ Looks(t)
    /\ node[t] = Null
    /\ entry > 0
    /\ node' = [node EXCEPT ![t] = msg_queue_head]
    /\ msg_queue_head' = next[msg_queue_head]
    /\ msg_queue_tail' = IF msg_queue_tail = msg_queue_head THEN Null ELSE msg_queue_tail
    /\ next' = [next EXCEPT ![msg_queue_head] = msg_queue_free]
    /\ msg_queue_free' = msg_queue_head
    /\ entry' = entry - 1
    /\ asleep' = asleep \ {t}
    /\ UNCHANGED <<data, copied, lists, object, pc, arg, timeout, result, blocking>>

\* The first region of a receive: the first node is unlinked.
UnlinkFirst(t) ==
    /\ pc[t] = "take" /\ Looks(t)
    /\ node[t] = Null
    /\ entry > 0
    /\ node' = [node EXCEPT ![t] = msg_queue_head]
    /\ msg_queue_head' = next[msg_queue_head]
    /\ msg_queue_tail' = IF msg_queue_tail = msg_queue_head THEN Null ELSE msg_queue_tail
    /\ entry' = entry - 1
    /\ asleep' = asleep \ {t}
    /\ UNCHANGED <<next, data, msg_queue_free, copied, lists, object, pc, arg, timeout,
                   result, blocking>>

\* the copy out of the node, interrupts enabled
CopyOut(t) ==
    /\ Runs
    /\ pc[t] = "take"
    /\ node[t] # Null /\ t \notin copied
    /\ result' = [result EXCEPT ![t] = <<"got", data[node[t]]>>]
    /\ copied' = copied \cup {t}
    /\ UNCHANGED <<pool, node, lists, object, pc, asleep, arg, timeout, blocking>>

\* Mutant: the node is given back and no sender woken.
GiveBack_NoWake(t) ==
    /\ Runs
    /\ pc[t] = "take" /\ t \in copied
    /\ next' = [next EXCEPT ![node[t]] = msg_queue_free]
    /\ msg_queue_free' = node[t]
    /\ Returns(t, result[t])
    /\ HandsEmpty(t)
    /\ UNCHANGED <<data, queueVars, lists, blocking>>

\* The second region of a receive: the node is free again, and a sender woken.
GiveBack(t) ==
    /\ Runs
    /\ pc[t] = "take" /\ t \in copied
    /\ next' = [next EXCEPT ![node[t]] = msg_queue_free]
    /\ msg_queue_free' = node[t]
    /\ WakeFirst(senders)
    /\ senders' = Rest(senders)
    /\ Returns(t, result[t])
    /\ HandsEmpty(t)
    /\ UNCHANGED <<data, queueVars, receivers>>

\* The call cannot proceed: no free node, or no message.
MqStuck(t) ==
    /\ node[t] = Null
    /\ IF pc[t] = "take" THEN entry = 0 ELSE msg_queue_free = Null

MqBlock(t) == MqStuck(t) /\ Waits(t) /\ UNCHANGED <<pool, hands>>

MqGiveUp(t) == MqStuck(t) /\ GivesUp(t) /\ UNCHANGED <<pool, hands>>

\* The i-th node after p, following the links.
Walk(link, p, i) ==
    LET at[k \in 0 .. i] == IF k = 0 THEN p
                            ELSE IF at[k - 1] = Null THEN Null ELSE link[at[k - 1]]
    IN  at[i]

\* The nodes of the list that begins at p, one too many if it does not end.
Chain(link, p) ==
    LET len == Cardinality({i \in 0 .. SIZE : Walk(link, p, i) # Null})
    IN  [i \in 1 .. len |-> Walk(link, p, i - 1)]

\* rt_mq_control(RT_IPC_CMD_RESET): the queued nodes go to the free list one by one,
\* so that the last one is the first to be used again
MqReset ==
    /\ ResumeAll
    /\ LET queued == Chain(next, msg_queue_head)
       IN  /\ next' = [n \in Node |->
                         IF n \notin Range(queued) THEN next[n]
                         ELSE LET i == IndexOf(queued, n)
                              IN  IF i = 1 THEN msg_queue_free ELSE queued[i - 1]]
           /\ msg_queue_free' = IF queued = <<>> THEN msg_queue_free
                                ELSE queued[Len(queued)]
           /\ msg_queue_tail' = IF msg_queue_tail \in Range(queued) THEN Null
                                ELSE msg_queue_tail
    /\ msg_queue_head' = Null
    /\ entry' = 0
    /\ UNCHANGED <<data, hands>>

\* rt_mq_init of a queue that was detached
MqInitAgain ==
    /\ Reborn
    /\ next' = FreshLinks
    /\ msg_queue_free' = SIZE
    /\ msg_queue_head' = Null /\ msg_queue_tail' = Null
    /\ entry' = 0
    /\ UNCHANGED <<data, hands>>

MqNext ==
    \/ \E t \in Thread :
         \/ Grab(t) \/ Fill(t) \/ Link(t) \/ LinkUrgent(t)
         \/ UnlinkFirst(t) \/ CopyOut(t) \/ GiveBack(t)
         \/ MqBlock(t) \/ MqGiveUp(t)
         \/ CallStep(t) /\ UNCHANGED <<pool, hands>>
    \/ MqReset \/ MqInitAgain
    \/ (Detach \/ Stopped) /\ UNCHANGED <<pool, hands>>

MqSpec == MqInit /\ [][MqNext]_mqVars

-----------------------------------------------------------------------------
(* Properties.                                                              *)

MqTypeOK ==
    /\ next \in [Node -> Node \cup {Null}]
    /\ data \in [Node -> Value]
    /\ {msg_queue_head, msg_queue_tail, msg_queue_free} \subseteq Node \cup {Null}
    /\ entry \in 0 .. SIZE
    /\ node \in [Thread -> Node \cup {Null}]
    /\ copied \subseteq Thread
    /\ CallsTypeOK

\* Every node is in the queue, in the free list or in the hands of one thread, and in
\* one of them only; entry counts the queue and the tail is its last node.  The three
\* are changed in separate regions with other threads, and a reset, in between.
NodesAccounted ==
    LET queued == Chain(next, msg_queue_head)
        free == Chain(next, msg_queue_free)
        busy == {t \in Thread : node[t] # Null}
    IN  /\ Range(queued) \cup Range(free) \cup {node[t] : t \in busy} = Node
        /\ Len(queued) + Len(free) + Cardinality(busy) = SIZE
        /\ entry = Len(queued)
        /\ msg_queue_tail = IF queued = <<>> THEN Null ELSE queued[Len(queued)]

\* The linked nodes are a bounded queue: a message arrives when its node is linked and
\* is delivered when it is unlinked, and the copy made later, with other calls in
\* between, is of that message.
mqQueue == [i \in 1 .. entry |-> data[Walk(next, msg_queue_head, i - 1)]]
mqCall == [t \in Thread |->
             CASE pc[t] = "user" -> result[t]
               [] pc[t] = "take" ->
                    IF node[t] = Null THEN <<"take">>
                    ELSE IF t \in copied THEN result[t] ELSE <<"got", data[node[t]]>>
               [] OTHER          -> <<pc[t], arg[t]>>]
MqQueue == INSTANCE BoundedQueue WITH queue <- mqQueue, call <- mqCall
MqImplementsQueue == MqQueue!Spec

\* No wakeup is lost: while a receiver waits, for every message some other receiver is
\* on its way to it; while a sender waits, for every free node some other sender is.
MqNoLostWakeup ==
    /\ receivers # <<>> => entry <= Cardinality(OnTheWay("take"))
    /\ senders # <<>> => Len(Chain(next, msg_queue_free)) <= Cardinality(OnTheWay("put"))

=============================================================================
