------------------------------- MODULE MCTimer -------------------------------
(* One hard timer and two soft ones.                                         *)
EXTENDS Timer, TLC

CONSTANTS h1, s1, s2

MCDelays == (h1 :> {1, 2}) @@ (s1 :> {1}) @@ (s2 :> {2})

\* The deadline of a timer that is in no list, and next_timeout before it is
\* assigned, are never read: states that differ only there are the same.
Waiting == Range(lists["hard"]) \cup Range(lists["soft"])
Live(f) == [t \in Timer |-> IF t \in Waiting THEN f[t] ELSE 0]
View == <<tick, lists, temp, Live(timeout), Live(due),
          [t \in AppTimer |-> init_tick[t]], active, periodic, isr, pc, stat, busy, stale,
          IF pc \in {"found", "delay"} THEN next ELSE 0>>
=============================================================================
