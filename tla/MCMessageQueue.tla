--------------------------- MODULE MCMessageQueue ---------------------------
(* Threads of one priority, a queue of two nodes, two messages.               *)
EXTENDS MessageQueue, TLC

MCPrio == [t \in Thread |-> 0]

\* Threads and messages are interchangeable.
Symmetry == Permutations(Thread) \cup Permutations(Value)

\* Never read: what a free node holds, the link of a node in hand unless a sender has
\* prepared it, its bytes before that and after a receiver has copied them, and what a
\* call was given once it is past it.  Nothing is said of a stopped kernel.  The two
\* nodes are interchangeable too: the first free or queued one is called 2.
Anchor == IF msg_queue_free # Null THEN msg_queue_free ELSE msg_queue_head
Name(n) == IF n # Null /\ Anchor = 1 THEN 3 - n ELSE n
InHand(t) ==
    IF node[t] = Null THEN <<>>
    ELSE IF pc[t] = "take"
         THEN IF t \in copied THEN result[t] ELSE <<"got", data[node[t]]>>
         ELSE IF t \in copied THEN <<Name(next[node[t]]), data[node[t]]>> ELSE <<>>
View ==
    IF ~Runs THEN <<>>
    ELSE <<mqQueue, [n \in Node \ {Name(node[t]) : t \in Thread} |-> Name(next[Name(n)])],
           Name(msg_queue_head), Name(msg_queue_tail), Name(msg_queue_free), entry,
           [t \in Thread |-> Name(node[t])], copied,
           lists, object, pc, asleep, stat, armed, [t \in Thread |-> InHand(t)],
           [t \in Thread |-> IF pc[t] \in {"put", "urgent"} THEN <<arg[t]>> ELSE <<>>],
           [t \in Thread |-> IF pc[t] # "user" /\ node[t] = Null THEN timeout[t] ELSE ""],
           [t \in Thread |-> IF t \in asleep THEN error[t] ELSE ""]>>
=============================================================================
