------------------------------ MODULE MCMailbox ------------------------------
(* Threads of one priority, a mailbox of two words, two messages.             *)
EXTENDS Mailbox, TLC

MCPrio == [t \in Thread |-> 0]

\* Threads and messages are interchangeable.
Symmetry == Permutations(Thread) \cup Permutations(Value)

\* What is stored in an unused word, and what a call that has returned was about,
\* is never read.  Nothing is said of a stopped kernel.
View ==
    IF ~Runs THEN <<>>
    ELSE <<queue, in_offset, entry, lists, object, pc, asleep,
           [t \in Thread |-> IF pc[t] \in {"put", "urgent"} THEN <<arg[t]>> ELSE <<>>],
           [t \in Thread |-> IF pc[t] # "user" THEN timeout[t] ELSE ""],
           [t \in Thread |-> IF t \in asleep THEN error[t] ELSE ""], stat, armed>>
=============================================================================
