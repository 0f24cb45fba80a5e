----------------------------- MODULE MutexProofs -----------------------------
(***************************************************************************)
(* A mutex has one owner, who believes to hold it as often as it is held,    *)
(* and a thread that waits for a mutex is where its owner will find it, for  *)
(* any number of threads and mutexes, however long the chains of owners      *)
(* along which priorities are inherited.  Inheritance comes to its end, also *)
(* round a cycle of waiting threads, and leaves every list in order and      *)
(* every owner as urgent as the threads it keeps waiting, and no more.       *)
(***************************************************************************)
EXTENDS Mutex, ListProofs

\* A priority, or that of a mutex without waiters or ceiling.
Rank == PRIORITIES \cup {PRIO_NONE}

\* The types; what a nudged thread believes is some number.
Types ==
    /\ owner \in [Mutex -> Thread \cup {None}]
    /\ hold \in [Mutex -> 0 .. HOLD_MAX]
    /\ mprio \in [Mutex -> Rank] /\ ceiling \in [Mutex -> Rank]
    /\ waiters \in [Mutex -> Seq(Thread)]
    /\ live \subseteq Mutex
    /\ prio \in [Thread -> PRIORITIES]
    /\ taken \in [Thread -> SUBSET Mutex]
    /\ pending \in [Thread -> Mutex \cup {None}]
    /\ stat \in [Thread -> {"READY", "SUSPEND", "CLOSE"}]
    /\ error \in [Thread -> {"EOK", "ETIMEOUT", "ERROR"}]
    /\ armed \subseteq Thread
    /\ pc \in [Thread -> Mutex \cup {None}]
    /\ held \in [Thread -> [Mutex -> Int]]
    /\ op \in [Thread -> {"none", "unlinked", "removed"}]
    /\ nudged \subseteq Thread /\ skipped \in BOOLEAN /\ raced \in BOOLEAN

\* A thread between the two halves of rt_thread_resume still waits, without a timer; one between those
\* of rt_thread_delete owns nothing, and is not closed yet.
AwaySound ==
    \A t \in Thread :
        /\ op[t] = "unlinked" => stat[t] = "SUSPEND" /\ t \in nudged /\ t \notin armed
        /\ op[t] = "removed" => stat[t] # "CLOSE" /\ \A m \in Mutex : owner[m] # t

\* A mutex is held as long as it has an owner.
HoldSound == \A m \in Mutex : hold[m] > 0 <=> owner[m] # None

\* A thread that waits will be told RT_EOK, unless its timer or a detach says otherwise;
\* only the timers of threads that wait run.
WaitSound ==
    /\ \A t \in Thread : stat[t] = "SUSPEND" => error[t] = "EOK"
    /\ \A t \in armed : stat[t] = "SUSPEND"

\* Who will be told RT_EOK and was not resumed directly is the owner, once.
HandOffSound ==
    \A m \in live, t \in Thread \ nudged :
        HandedTo(t, m) => owner[m] = t /\ hold[m] = 1

\* What threads believe about mutexes that were detached stays within bounds.
BeliefBounded ==
    \A m \in Mutex \ live, t \in Thread \ nudged : held[t][m] \in 0 .. HOLD_MAX

\* The inductive invariant.
IInv ==
    /\ Types /\ WaitersLinked /\ Exclusion
    /\ AwaySound /\ HoldSound /\ WaitSound /\ HandOffSound /\ BeliefBounded

-----------------------------------------------------------------------------
(* Priorities.                                                              *)

\* Priorities are numbers below PRIO_NONE.
LEMMA RanksAre ==
    /\ PRIO_NONE \in Nat /\ PRIORITIES \subseteq Nat /\ Rank \subseteq Nat
    /\ \A p \in PRIORITIES : p < PRIO_NONE
    /\ InitPrio \in [Thread -> PRIORITIES]
  BY MutexAssumption DEF Rank

\* The more urgent of two ranks is one of them.
LEMMA MinOfRanks ==
    ASSUME NEW a \in Rank, NEW b \in Rank
    PROVE  MinOf(a, b) \in Rank /\ (a \in PRIORITIES => MinOf(a, b) \in PRIORITIES)
  BY RanksAre DEF MinOf, Rank

\* The first waiter brings its priority.
LEMMA HeadPriorityRank ==
    ASSUME NEW list \in Seq(Thread), NEW pr \in [Thread -> PRIORITIES]
    PROVE  HeadPriority(list, pr) \in Rank
  BY DEF HeadPriority, Rank

\* _thread_get_mutex_priority finds a priority no lower than the thread's own.
LEMMA MutexPriorityType ==
    ASSUME NEW t \in Thread, NEW tk \in SUBSET Mutex, NEW mp \in [Mutex -> Rank],
           NEW ceil \in [Mutex -> Rank]
    PROVE  GetMutexPriority(t, tk, mp, ceil) \in PRIORITIES
  <1> DEFINE all == {InitPrio[t]} \cup {MinOf(mp[m], ceil[m]) : m \in tk}
             p == CHOOSE x \in all : \A q \in all : x <= q
  <1>1. InitPrio[t] \in PRIORITIES /\ InitPrio[t] \in all
    BY RanksAre
  <1>2. \A m \in tk : MinOf(mp[m], ceil[m]) \in Rank
    BY MinOfRanks
  <1>3. all \subseteq Rank
    BY <1>1, <1>2 DEF Rank
  <1>4. all \in SUBSET Nat /\ all # {}
    BY <1>1, <1>3, RanksAre
  <1>5. p = GetMutexPriority(t, tk, mp, ceil)
    BY DEF GetMutexPriority
  <1> HIDE DEF all
  <1>6. \E x \in all : \A q \in all : x <= q
    BY <1>4, MinimumExists
  <1>7. p \in all /\ p <= InitPrio[t]
    BY <1>1, <1>6
  <1> HIDE DEF p
  <1>8. p \in Rank /\ p # PRIO_NONE
    <2>1. p \in Rank /\ p \in Nat /\ InitPrio[t] \in Nat
      BY <1>1, <1>3, <1>7, RanksAre
    <2>2. InitPrio[t] < PRIO_NONE /\ PRIO_NONE \in Nat
      BY <1>1, RanksAre
    <2> QED BY <2>1, <2>2, <1>7
  <1> QED BY <1>5, <1>8 DEF Rank

-----------------------------------------------------------------------------
(* The loop of _thread_update_priority.                                     *)

\* What the loop works on.
Values ==
    [prio : [Thread -> PRIORITIES], mprio : [Mutex -> Rank],
     waiters : [Mutex -> Seq(Thread)], t : Thread \cup {None}]

\* The same threads wait for each mutex as in list, if in another order.
Requeued(k, list) ==
    /\ k \in Values
    /\ \A m \in Mutex : IsInjective(k.waiters[m]) /\ Range(k.waiters[m]) = Range(list[m])

\* By wait, a thread waits only where it is in the list, and only for an owner.
WaitsIn(wait, list) ==
    /\ wait \in [Thread -> Mutex \cup {None}]
    /\ \A u \in Thread : wait[u] # None =>
          u \in Range(list[wait[u]]) /\ owner[wait[u]] \in Thread

\* The fields of such a record, each by itself,
LEMMA ValuesAre ==
    ASSUME NEW k \in Values
    PROVE  /\ k.prio \in [Thread -> PRIORITIES] /\ k.mprio \in [Mutex -> Rank]
           /\ k.waiters \in [Mutex -> Seq(Thread)] /\ k.t \in Thread \cup {None}
  BY Zenon DEF Values

\* and a record of such fields.
LEMMA ValuesMade ==
    ASSUME NEW pr \in [Thread -> PRIORITIES], NEW mp \in [Mutex -> Rank],
           NEW w \in [Mutex -> Seq(Thread)], NEW t \in Thread \cup {None}
    PROVE  [prio |-> pr, mprio |-> mp, waiters |-> w, t |-> t] \in Values
  BY DEF Values

\* The fields that the loop assigns.
WithThread(k, t) == [k EXCEPT !.t = t]

\* The other fields stay.
LEMMA ThreadSet ==
    ASSUME NEW k \in Values, NEW t \in Thread \cup {None}
    PROVE  /\ WithThread(k, t) \in Values
           /\ WithThread(k, t).prio = k.prio
           /\ WithThread(k, t).mprio = k.mprio
           /\ WithThread(k, t).waiters = k.waiters
           /\ WithThread(k, t).t = t
  BY Zenon DEF Values, WithThread

WithPriority(k, t, p) == [k EXCEPT !.prio[t] = p, !.t = t]

\* The fields other than the priorities.
LEMMA PrioritySet ==
    ASSUME NEW k \in Values, NEW t \in Thread, NEW p \in PRIORITIES
    PROVE  /\ WithPriority(k, t, p) \in Values
           /\ WithPriority(k, t, p).mprio = k.mprio
           /\ WithPriority(k, t, p).waiters = k.waiters
           /\ WithPriority(k, t, p).t = t
  BY Zenon DEF Values, WithPriority

\* Only that thread gets another priority.
LEMMA PriorityGiven ==
    ASSUME NEW k \in Values, NEW t \in Thread, NEW p \in PRIORITIES
    PROVE  WithPriority(k, t, p).prio = [k.prio EXCEPT ![t] = p]
  BY Zenon DEF Values, WithPriority

WithQueue(k, m, q, mp) == [k EXCEPT !.waiters[m] = q, !.mprio = mp]

\* The thread and the priorities of threads stay.
LEMMA QueueSet ==
    ASSUME NEW k \in Values, NEW m \in Mutex, NEW q \in Seq(Thread), NEW mp \in [Mutex -> Rank]
    PROVE  /\ WithQueue(k, m, q, mp) \in Values
           /\ WithQueue(k, m, q, mp).prio = k.prio
           /\ WithQueue(k, m, q, mp).mprio = mp
           /\ WithQueue(k, m, q, mp).waiters = [k.waiters EXCEPT ![m] = q]
  BY Zenon DEF Values, WithQueue

\* The waiting thread is unlinked and queued anew: it stays among the same threads.
LEMMA QueuedAnew ==
    ASSUME NEW list \in Seq(Thread), IsInjective(list), NEW t \in Range(list),
           NEW pr \in [Thread -> PRIORITIES]
    PROVE  LET q == Enqueue(Unlink(list, t), t, "PRIO", pr)
           IN  q \in Seq(Thread) /\ IsInjective(q) /\ Range(q) = Range(list)
  <1> DEFINE r == Unlink(list, t)
  <1>1. r \in Seq(Thread) /\ IsInjective(r) /\ Range(r) = Range(list) \ {t}
    BY UnlinkUnlinks
  <1>2. t \in Thread
    BY ListEmpty
  <1>3. pr \in [Thread -> Nat]
    BY RanksAre
  <1> HIDE DEF r
  <1>4. /\ Enqueue(r, t, "PRIO", pr) \in Seq(Thread)
        /\ IsInjective(Enqueue(r, t, "PRIO", pr))
        /\ Range(Enqueue(r, t, "PRIO", pr)) = Range(r) \cup {t}
    BY <1>1, <1>2, <1>3, EnqueueLinks
  <1> QED BY <1>1, <1>4 DEF r

\* What one round of the loop assigns.
PropagateFields(k, r, wait, tk, ceil) ==
    LET m == wait[k.t]
        q == Enqueue(Unlink(k.waiters[m], k.t), k.t, "PRIO", k.prio)
        mp == [k.mprio EXCEPT ![m] = HeadPriority(q, k.prio)]
        o == owner[m]
        p == GetMutexPriority(o, tk[o], mp, ceil)
    IN  /\ r.waiters = [k.waiters EXCEPT ![m] = q]
        /\ r.mprio = mp
        /\ \/ p = k.prio[o] /\ r.prio = k.prio /\ r.t = None
           \/ p # k.prio[o] /\ r.prio = [k.prio EXCEPT ![o] = p] /\ r.t = o

\* One round keeps everybody in the list where they wait.
LEMMA PropagateKeeps ==
    ASSUME owner \in [Mutex -> Thread \cup {None}],
           NEW list \in [Mutex -> Seq(Thread)], NEW k, Requeued(k, list),
           NEW wait, WaitsIn(wait, list), k.t # None, wait[k.t] # None,
           NEW tk \in [Thread -> SUBSET Mutex], NEW ceil \in [Mutex -> Rank]
    PROVE  /\ PropagateFields(k, Propagate(k, wait, tk, ceil), wait, tk, ceil)
           /\ Requeued(Propagate(k, wait, tk, ceil), list)
  <1> DEFINE m == wait[k.t]
             q == Enqueue(Unlink(k.waiters[m], k.t), k.t, "PRIO", k.prio)
             mp == [k.mprio EXCEPT ![m] = HeadPriority(q, k.prio)]
             o == owner[m]
             p == GetMutexPriority(o, tk[o], mp, ceil)
             next == WithQueue(k, m, q, mp)
             r == Propagate(k, wait, tk, ceil)
  <1>1. /\ k \in Values /\ k.t \in Thread
        /\ k.prio \in [Thread -> PRIORITIES] /\ k.mprio \in [Mutex -> Rank]
        /\ k.waiters \in [Mutex -> Seq(Thread)]
    BY ValuesAre DEF Requeued
  <1>2. /\ m \in Mutex /\ k.t \in Range(list[m]) /\ o \in Thread
    BY <1>1 DEF WaitsIn
  <1>3. /\ k.waiters[m] \in Seq(Thread) /\ IsInjective(k.waiters[m])
        /\ Range(k.waiters[m]) = Range(list[m])
    BY <1>1, <1>2 DEF Requeued
  <1>4. q \in Seq(Thread) /\ IsInjective(q) /\ Range(q) = Range(list[m])
    BY <1>1, <1>2, <1>3, QueuedAnew
  <1>5. r = IF p = k.prio[o] THEN WithThread(next, None)
            ELSE WithPriority(next, o, p)
    BY Zenon DEF Propagate, WithQueue, WithThread, WithPriority
  <1>6. /\ r.waiters = [k.waiters EXCEPT ![m] = q] /\ r.mprio = mp
        /\ \/ p = k.prio[o] /\ r.prio = k.prio /\ r.t = None
           \/ p # k.prio[o] /\ r.prio = [k.prio EXCEPT ![o] = p] /\ r.t = o
        => PropagateFields(k, r, wait, tk, ceil)
    BY Zenon DEF PropagateFields
  <1> HIDE DEF q, m, o
  <1>7. mp \in [Mutex -> Rank]
    BY <1>1, <1>2, <1>4, HeadPriorityRank
  <1> HIDE DEF mp
  <1>8. /\ next \in Values /\ next.waiters = [k.waiters EXCEPT ![m] = q]
        /\ next.prio = k.prio /\ next.mprio = mp
    <2>1. k \in Values /\ m \in Mutex /\ q \in Seq(Thread) /\ mp \in [Mutex -> Rank]
      BY <1>1, <1>2, <1>4, <1>7
    <2> QED BY <2>1, QueueSet
  <1> HIDE DEF next
  <1>9. \A n \in Mutex : IsInjective(next.waiters[n]) /\ Range(next.waiters[n]) = Range(list[n])
    BY <1>1, <1>2, <1>4, <1>8 DEF Requeued
  <1>10. p \in PRIORITIES
    BY <1>2, <1>7, MutexPriorityType
  <1> HIDE DEF p, r
  <1>11. CASE p = k.prio[o]
    <2>1. r = WithThread(next, None)
      BY <1>5, <1>11
    <2>2. /\ r \in Values /\ r.waiters = next.waiters /\ r.prio = next.prio
          /\ r.mprio = next.mprio /\ r.t = None
      BY <2>1, <1>8, ThreadSet
    <2>3. PropagateFields(k, r, wait, tk, ceil)
      BY <2>2, <1>6, <1>8, <1>11
    <2>4. Requeued(r, list)
      BY <2>2, <1>9, Zenon DEF Requeued
    <2> QED BY <2>3, <2>4 DEF r
  <1>12. CASE p # k.prio[o]
    <2>1. r = WithPriority(next, o, p)
      BY <1>5, <1>12
    <2>2. next \in Values /\ o \in Thread /\ p \in PRIORITIES
      BY <1>2, <1>8, <1>10
    <2>3. r \in Values /\ r.waiters = next.waiters /\ r.mprio = next.mprio /\ r.t = o
      BY ONLY <2>1, <2>2, PrioritySet
    <2>4. r.prio = [next.prio EXCEPT ![o] = p]
      BY ONLY <2>1, <2>2, PriorityGiven
    <2>5. PropagateFields(k, r, wait, tk, ceil)
      BY <2>3, <2>4, <1>6, <1>8, <1>12
    <2>6. Requeued(r, list)
      BY <2>3, <1>9, Zenon DEF Requeued
    <2> QED BY <2>5, <2>6 DEF r
  <1> QED BY <1>11, <1>12

\* A round of the loop: it has ended, or goes on.
Round(c, wait, tk, ceil) ==
    IF c.t = None \/ wait[c.t] = None THEN WithThread(c, None)
    ELSE Propagate(c, wait, tk, ceil)

\* A round of the loop moves threads within their lists only.
LEMMA RoundKeeps ==
    ASSUME owner \in [Mutex -> Thread \cup {None}],
           NEW list \in [Mutex -> Seq(Thread)], NEW k, Requeued(k, list),
           NEW wait, WaitsIn(wait, list),
           NEW tk \in [Thread -> SUBSET Mutex], NEW ceil \in [Mutex -> Rank]
    PROVE  Requeued(Round(k, wait, tk, ceil), list)
  <1>1. CASE k.t = None \/ wait[k.t] = None
    <2>1. Round(k, wait, tk, ceil) = WithThread(k, None)
      BY <1>1, Zenon DEF Round
    <2>2. k \in Values /\ None \in Thread \cup {None}
      BY DEF Requeued
    <2>3. WithThread(k, None) \in Values /\ WithThread(k, None).waiters = k.waiters
      BY ONLY <2>2, ThreadSet
    <2> QED BY <2>1, <2>3, Zenon DEF Requeued
  <1>2. CASE ~(k.t = None \/ wait[k.t] = None)
    <2>1. Round(k, wait, tk, ceil) = Propagate(k, wait, tk, ceil)
      BY <1>2, Zenon DEF Round
    <2>2. k.t # None /\ wait[k.t] # None
      BY <1>2
    <2>3. Requeued(Propagate(k, wait, tk, ceil), list)
      BY <2>2, PropagateKeeps
    <2> QED BY <2>1, <2>3
  <1> QED BY <1>1, <1>2

\* The bound of the loop is the number of pairs of a thread and a priority.
LEMMA RoundsAre ==
    /\ Rounds \in Nat /\ IsFiniteSet(Thread \X PRIORITIES)
    /\ Cardinality(Thread \X PRIORITIES) = Rounds
  <1>1. IsFiniteSet(Thread) /\ PRIORITIES \subseteq 0 .. PRIO_NONE - 1 /\ PRIO_NONE \in Nat
    BY MutexAssumption
  <1>2. IsFiniteSet(0 .. PRIO_NONE - 1)
    BY <1>1, FS_Interval
  <1>3. IsFiniteSet(PRIORITIES)
    BY <1>1, <1>2, FS_Subset
  <1>4. Cardinality(Thread) \in Nat /\ Cardinality(PRIORITIES) \in Nat
    BY <1>1, <1>3, FS_CardinalityType
  <1>5. /\ IsFiniteSet(Thread \X PRIORITIES)
        /\ Cardinality(Thread \X PRIORITIES) = Cardinality(Thread) * Cardinality(PRIORITIES)
    BY <1>1, <1>3, FS_Product
  <1> QED BY <1>4, <1>5 DEF Rounds

\* n rounds from a, each from what f says of the one before.
RoundsFrom(f, a, wait, tk, ceil, n) ==
    [i \in 0 .. n |-> IF i = 0 THEN a ELSE Round(f[i - 1], wait, tk, ceil)]

\* The function that computes the rounds exists, up to any number of them.
LEMMA RoundsExist ==
    ASSUME NEW a, NEW wait, NEW tk, NEW ceil, NEW n \in Nat
    PROVE  \E f : f = RoundsFrom(f, a, wait, tk, ceil, n)
  <1> DEFINE Step(f, i) == IF i = 0 THEN a ELSE Round(f[i - 1], wait, tk, ceil)
             Good(j) == \E f : f = [i \in 0 .. j |-> Step(f, i)]
             Bad == {j \in Nat : ~Good(j)}
  <1>1. Good(0)
    <2> DEFINE f == [i \in 0 .. 0 |-> a]
    <2>1. [i \in 0 .. 0 |-> Step(f, i)] = f
      <3>1. \A i \in 0 .. 0 : Step(f, i) = a
        OBVIOUS
      <3> QED BY <3>1
    <2> QED BY <2>1
  <1>2. ASSUME NEW j \in Nat, Good(j) PROVE Good(j + 1)
    <2>1. PICK f : f = [i \in 0 .. j |-> Step(f, i)]
      BY <1>2
    <2> DEFINE g == [i \in 0 .. j + 1 |-> IF i = j + 1 THEN Round(f[j], wait, tk, ceil) ELSE f[i]]
    <2>2. ASSUME NEW i \in 0 .. j + 1 PROVE g[i] = Step(g, i)
      <3>1. CASE i = 0
        <4>1. g[0] = f[0] /\ f[0] = Step(f, 0)
          BY <2>1, <1>2
        <4> QED BY <3>1, <4>1
      <3>2. CASE i = j + 1
        <4>1. g[i] = Round(f[j], wait, tk, ceil) /\ g[i - 1] = f[j] /\ i # 0
          BY <3>2, <1>2
        <4> QED BY <4>1
      <3>3. CASE i # 0 /\ i # j + 1
        <4>1. i \in 0 .. j /\ i - 1 \in 0 .. j /\ i - 1 # j + 1
          BY <3>3, <1>2
        <4>2. g[i] = f[i] /\ g[i - 1] = f[i - 1]
          BY <3>3, <4>1, <1>2
        <4>3. f[i] = Step(f, i)
          BY <2>1, <4>1
        <4> QED BY <3>3, <4>2, <4>3
      <3> QED BY <3>1, <3>2, <3>3
    <2>3. g = [i \in 0 .. j + 1 |-> Step(g, i)]
      <3> DEFINE e == [i \in 0 .. j + 1 |-> Step(g, i)]
      <3>1. \A i \in 0 .. j + 1 : g[i] = e[i]
        BY <2>2
      <3>2. DOMAIN g = 0 .. j + 1 /\ g = [i \in DOMAIN g |-> g[i]]
        OBVIOUS
      <3>3. DOMAIN e = 0 .. j + 1 /\ e = [i \in DOMAIN e |-> e[i]]
        OBVIOUS
      <3> HIDE DEF g, e
      <3>4. g = e
        BY <3>1, <3>2, <3>3
      <3> QED BY <3>4 DEF e
    <2> QED BY <2>3
  <1>3. \A j \in Nat : Good(j)
    <2> SUFFICES ASSUME Bad # {} PROVE FALSE
      OBVIOUS
    <2> HIDE DEF Good
    <2>1. Bad \in SUBSET Nat
      OBVIOUS
    <2>2. PICK j \in Bad : \A i \in Bad : j <= i
      BY <2>1, MinimumExists
    <2>3. j \in Nat /\ ~Good(j)
      BY <2>2
    <2>4. j # 0
      BY <2>3, <1>1
    <2>5. j - 1 \in Nat /\ j - 1 \notin Bad
      BY <2>2, <2>3, <2>4
    <2>6. Good(j - 1)
      BY <2>5
    <2>7. Good((j - 1) + 1)
      BY <2>5, <2>6, <1>2
    <2> QED BY <2>3, <2>7
  <1> QED BY <1>3, Zenon DEF RoundsFrom

\* h leads from k to r in as many rounds as the loop may need.
RunOf(h, k, t, p, wait, tk, ceil, r) ==
    /\ h[0] = WithPriority(k, t, p)
    /\ \A n \in 1 .. Rounds : h[n] = Round(h[n - 1], wait, tk, ceil)
    /\ r = h[Rounds]

\* _thread_update_priority is what its rounds lead to.
LEMMA UpdateRounds ==
    ASSUME NEW k, NEW t, NEW p, NEW wait, NEW tk, NEW ceil
    PROVE  \E h : RunOf(h, k, t, p, wait, tk, ceil, UpdatePriority(k, t, p, wait, tk, ceil))
  <1> DEFINE a == WithPriority(k, t, p)
             F(f) == RoundsFrom(f, a, wait, tk, ceil, Rounds)
             h == CHOOSE f : f = F(f)
  <1>1. Rounds \in Nat
    BY RoundsAre
  <1>2. UpdatePriority(k, t, p, wait, tk, ceil) = h[Rounds]
    BY DEF UpdatePriority, Round, RoundsFrom, WithThread, WithPriority
  <1> HIDE DEF a
  <1>3. \E f : f = F(f)
    BY <1>1, RoundsExist
  <1>4. h = F(h)
    BY <1>3, Zenon
  <1> HIDE DEF h
  <1>5. /\ h[0] = a
        /\ \A n \in 1 .. Rounds : h[n] = Round(h[n - 1], wait, tk, ceil)
    BY <1>1, <1>4 DEF RoundsFrom
  <1> QED BY <1>2, <1>5, Zenon DEF a, RunOf

\* _thread_update_priority keeps everybody in the list where they wait.
LEMMA UpdateKeeps ==
    ASSUME owner \in [Mutex -> Thread \cup {None}],
           NEW list \in [Mutex -> Seq(Thread)], NEW k, Requeued(k, list),
           NEW t \in Thread, NEW p \in PRIORITIES, NEW wait, WaitsIn(wait, list),
           NEW tk \in [Thread -> SUBSET Mutex], NEW ceil \in [Mutex -> Rank]
    PROVE  Requeued(UpdatePriority(k, t, p, wait, tk, ceil), list)
  <1> DEFINE a == WithPriority(k, t, p)
  <1>1. Rounds \in Nat
    BY RoundsAre
  <1>2. Requeued(a, list)
    <2>1. k \in Values /\ t \in Thread /\ p \in PRIORITIES
      BY DEF Requeued
    <2>2. a \in Values /\ a.waiters = k.waiters
      BY ONLY <2>1, PrioritySet
    <2> HIDE DEF a
    <2> QED BY <2>2 DEF Requeued
  <1>3. PICK h : RunOf(h, k, t, p, wait, tk, ceil, UpdatePriority(k, t, p, wait, tk, ceil))
    BY UpdateRounds
  <1> HIDE DEF a
  <1> DEFINE Bad == {n \in 0 .. Rounds : ~Requeued(h[n], list)}
  <1>4. Bad = {}
    <2> SUFFICES ASSUME Bad # {} PROVE FALSE
      OBVIOUS
    <2>1. Bad \in SUBSET Nat
      BY <1>1
    <2>2. PICK n \in Bad : \A i \in Bad : n <= i
      BY <2>1, MinimumExists
    <2>3. n \in 0 .. Rounds /\ ~Requeued(h[n], list) /\ n # 0
      BY <2>2, <1>2, <1>3 DEF RunOf, a
    <2>4. n \in 1 .. Rounds /\ n - 1 \in 0 .. Rounds /\ n - 1 \notin Bad
      BY <2>2, <2>3, <1>1
    <2>5. Requeued(h[n - 1], list)
      BY <2>4
    <2>6. Requeued(Round(h[n - 1], wait, tk, ceil), list)
      BY <2>5, RoundKeeps
    <2> QED BY <2>3, <2>4, <2>6, <1>3 DEF RunOf
  <1> QED BY <1>1, <1>3, <1>4 DEF RunOf

\* The owner's priority is looked at, and what follows from it.
LEMMA RecomputeKeeps ==
    ASSUME owner \in [Mutex -> Thread \cup {None}],
           NEW list \in [Mutex -> Seq(Thread)], NEW k, Requeued(k, list),
           NEW o \in Thread, NEW wait, WaitsIn(wait, list),
           NEW tk \in [Thread -> SUBSET Mutex], NEW ceil \in [Mutex -> Rank]
    PROVE  Requeued(Recompute(k, o, wait, tk, ceil), list)
  <1> DEFINE p == GetMutexPriority(o, tk[o], k.mprio, ceil)
  <1>1. k.mprio \in [Mutex -> Rank]
    BY ValuesAre DEF Requeued
  <1>2. p \in PRIORITIES
    BY <1>1, MutexPriorityType
  <1>3. Requeued(UpdatePriority(k, o, p, wait, tk, ceil), list)
    BY <1>2, UpdateKeeps
  <1>4. Recompute(k, o, wait, tk, ceil) =
          IF p = k.prio[o] THEN k ELSE UpdatePriority(k, o, p, wait, tk, ceil)
    BY Zenon DEF Recompute
  <1> QED BY <1>3, <1>4

-----------------------------------------------------------------------------
(* What the actions start the loop with, and what they take from it.         *)

\* The actions start from the lists as they are.
LEMMA NowRequeued ==
    ASSUME prio \in [Thread -> PRIORITIES], NEW mp \in [Mutex -> Rank],
           NEW w \in [Mutex -> Seq(Thread)], \A m \in Mutex : IsInjective(w[m])
    PROVE  Requeued(Now(mp, w), w)
  <1>1. Now(mp, w) \in Values
    BY ValuesMade DEF Now
  <1>2. Now(mp, w).waiters = w
    BY DEF Now
  <1> QED BY <1>1, <1>2 DEF Requeued

\* The threads that are suspended are in the lists of mutexes that have an owner.
LEMMA WaitsOnWaits ==
    ASSUME NEW list \in [Mutex -> Seq(Thread)], NEW st,
           NEW pend \in [Thread -> Mutex \cup {None}],
           \A u \in Thread : st[u] = "SUSPEND" /\ ~Away(u) =>
              /\ pend[u] # None /\ u \in Range(list[pend[u]]) /\ owner[pend[u]] \in Thread
    PROVE  WaitsIn(WaitsOn(st, pend), list)
  BY DEF WaitsIn, WaitsOn

\* The variables that _thread_update_priority changes, after a step.
NextQueues(list) ==
    /\ prio' \in [Thread -> PRIORITIES] /\ mprio' \in [Mutex -> Rank]
    /\ waiters' \in [Mutex -> Seq(Thread)]
    /\ \A m \in Mutex : IsInjective(waiters'[m]) /\ Range(waiters'[m]) = Range(list[m])

\* The variables take over what the loop leaves.
LEMMA BecomesKeeps ==
    ASSUME NEW list, NEW k, Requeued(k, list), Becomes(k)
    PROVE  NextQueues(list)
  <1>1. k \in Values
    BY DEF Requeued
  <1>2. /\ k.prio \in [Thread -> PRIORITIES] /\ k.mprio \in [Mutex -> Rank]
        /\ k.waiters \in [Mutex -> Seq(Thread)]
    BY <1>1, ValuesAre
  <1> QED BY <1>2 DEF Becomes, NextQueues, Requeued

\* A thread that gives up leaves the list of the mutex, and nobody else does.
LEMMA DroppedKeeps ==
    ASSUME Types, WaitersLinked, NEW t \in Thread, NEW m \in Mutex, NEW st,
           \A u \in Thread : st[u] = "SUSPEND" => u # t /\ stat[u] = "SUSPEND"
    PROVE  Requeued(Dropped(t, m, st), [waiters EXCEPT ![m] = Unlink(@, t)])
  <1> DEFINE w == [waiters EXCEPT ![m] = Unlink(@, t)]
             mp == [mprio EXCEPT ![m] = HeadPriority(Unlink(waiters[m], t), prio)]
             o == owner[m]
             wait == WaitsOn(st, pending)
  <1>1. /\ Unlink(waiters[m], t) \in Seq(Thread) /\ IsInjective(Unlink(waiters[m], t))
        /\ Range(Unlink(waiters[m], t)) = Range(waiters[m]) \ {t}
    BY UnlinkUnlinks DEF Types, WaitersLinked
  <1>2. /\ w \in [Mutex -> Seq(Thread)]
        /\ \A n \in Mutex : IsInjective(w[n])
        /\ \A n \in Mutex : w[n] = IF n = m THEN Unlink(waiters[m], t) ELSE waiters[n]
    BY <1>1 DEF Types, WaitersLinked
  <1>3. mp \in [Mutex -> Rank]
    BY <1>1, HeadPriorityRank DEF Types
  <1>4. Dropped(t, m, st) =
          IF o # None /\ prio[o] = prio[t] THEN Recompute(Now(mp, w), o, wait, taken, ceiling)
          ELSE Now(mp, w)
    BY Zenon DEF Dropped
  <1> HIDE DEF w, mp, wait
  <1>5. Requeued(Now(mp, w), w)
    BY <1>2, <1>3, NowRequeued DEF Types
  <1>6. WaitsIn(wait, w)
    <2>1. ASSUME NEW u \in Thread, st[u] = "SUSPEND", ~Away(u)
          PROVE  pending[u] # None /\ u \in Range(w[pending[u]]) /\ owner[pending[u]] \in Thread
      <3>1. u # t /\ stat[u] = "SUSPEND" /\ pending[u] # None /\ pending[u] \in Mutex
        BY <2>1 DEF Types, WaitersLinked
      <3>2. u \in Range(waiters[pending[u]]) /\ owner[pending[u]] \in Thread
        BY <3>1, <2>1 DEF Types, WaitersLinked
      <3> QED BY <3>1, <3>2, <1>1, <1>2
    <2> QED BY <2>1, <1>2, WaitsOnWaits DEF wait, Types
  <1>7. CASE o # None /\ prio[o] = prio[t]
    <2>1. o \in Thread
      BY <1>7 DEF Types
    <2>2. Requeued(Recompute(Now(mp, w), o, wait, taken, ceiling), w)
      BY <1>2, <1>5, <1>6, <2>1, RecomputeKeeps DEF Types
    <2> QED BY <1>4, <1>7, <2>2 DEF w
  <1>8. CASE ~(o # None /\ prio[o] = prio[t])
    BY <1>4, <1>5, <1>8 DEF w
  <1> QED BY <1>7, <1>8

-----------------------------------------------------------------------------
(* The initial states and the actions.                                      *)

\* RT_NULL is no thread and no mutex.
LEMMA NoneIsNot == None \notin Thread /\ None \notin Mutex
  BY MutexAssumption

\* Nobody has taken anything yet.
LEMMA InitInv == Init => IInv
  <1> SUFFICES ASSUME Init PROVE IInv
    OBVIOUS
  <1>1. Types
    <2>1. <<>> \in Seq(Thread) /\ 0 \in 0 .. HOLD_MAX /\ 0 \in Int
      BY MutexAssumption
    <2>2. PRIO_NONE \in Rank /\ InitPrio \in [Thread -> PRIORITIES]
      BY RanksAre DEF Rank
    <2> QED BY <2>1, <2>2 DEF Init, Types
  <1>2. WaitersLinked
    <2>1. <<>> \in Seq(Thread) /\ Range(<<>>) = {} /\ IsInjective(<<>>)
      BY DEF Range, IsInjective
    <2>2. /\ \A t \in Thread : stat[t] = "READY" /\ taken[t] = {}
          /\ \A m \in Mutex : owner[m] = None
      BY DEF Init
    <2>3. \A m \in Mutex : IsInjective(waiters[m]) /\ Range(waiters[m]) = {}
      BY <2>1 DEF Init
    <2> QED BY <2>2, <2>3, NoneIsNot DEF WaitersLinked
  <1>3. Exclusion /\ HandOffSound
    BY NoneIsNot DEF Init, Exclusion, HandOffSound, HandedTo
  <1>4. HoldSound /\ WaitSound /\ BeliefBounded /\ AwaySound
    BY DEF Init, HoldSound, WaitSound, BeliefBounded, AwaySound
  <1> QED BY <1>1, <1>2, <1>3, <1>4 DEF IInv

\* The owner takes the mutex once more, and knows.
LEMMA TakeAgainInv ==
    ASSUME IInv, NEW t \in Thread, NEW m \in Mutex, TakeAgain(t, m)
    PROVE  IInv'
  <1> USE DEF TakeAgain, Calls, Runs, history
  <1>1. Types'
    BY MutexAssumption DEF IInv, Types
  <1>2. WaitersLinked'
    BY DEF IInv, WaitersLinked, Away
  <1>3. Exclusion'
    BY NoneIsNot DEF IInv, Types, Exclusion, HandedTo
  <1>4. HandOffSound'
    BY NoneIsNot DEF IInv, Types, HandOffSound, HandedTo
  <1>5. HoldSound'
    BY NoneIsNot, MutexAssumption DEF IInv, Types, HoldSound
  <1>6. WaitSound' /\ AwaySound'
    BY DEF IInv, Types, WaitSound, AwaySound
  <1>7. BeliefBounded'
    BY DEF IInv, Types, BeliefBounded
  <1> QED BY <1>1, <1>2, <1>3, <1>4, <1>5, <1>6, <1>7 DEF IInv

\* The owner gives one of its takes back, and keeps the mutex.
LEMMA ReleaseAgainInv ==
    ASSUME IInv, NEW t \in Thread, NEW m \in Mutex, ReleaseAgain(t, m)
    PROVE  IInv'
  <1> USE DEF ReleaseAgain, Calls, Runs, history, threadVars
  <1>1. Types'
    BY MutexAssumption DEF IInv, Types
  <1>2. WaitersLinked'
    BY DEF IInv, WaitersLinked, Away
  <1>3. Exclusion'
    BY NoneIsNot DEF IInv, Types, Exclusion, HandedTo
  <1>4. HandOffSound'
    BY NoneIsNot DEF IInv, Types, HandOffSound, HandedTo
  <1>5. HoldSound' /\ WaitSound' /\ AwaySound' /\ BeliefBounded'
    BY DEF IInv, Types, HoldSound, WaitSound, AwaySound, BeliefBounded
  <1> QED BY <1>1, <1>2, <1>3, <1>4, <1>5 DEF IInv

\* Who is told RT_EOK has been the owner since the hand-off.
LEMMA TakeReturnInv ==
    ASSUME IInv, NEW t \in Thread, TakeReturn(t)
    PROVE  IInv'
  <1> USE DEF TakeReturn, Runs, history, mutexVars
  <1> DEFINE m == pc[t]
  <1>1. m \in Mutex
    BY DEF IInv, Types
  <1>2. Types'
    BY <1>1, MutexAssumption DEF IInv, Types, MinOf
  <1>3. WaitersLinked'
    BY DEF IInv, Types, WaitersLinked, Away
  <1>4. Exclusion'
    <2>1. HandedTo(t, m)
      BY DEF HandedTo
    <2>2. m \in live /\ t \notin nudged => owner[m] = t /\ hold[m] = 1 /\ held[t][m] = 0
      BY <2>1, <1>1 DEF IInv, HandOffSound, Exclusion
    <2>3. m \in live /\ t \notin nudged => held'[t][m] = 1
      BY <2>2, <1>1, MutexAssumption DEF IInv, Types, MinOf
    <2>4. ASSUME NEW n \in live, NEW u \in Thread \ nudged
          PROVE  IF owner[n] = u THEN held'[u][n] = (IF HandedTo(u, n)' THEN 0 ELSE hold[n])
                 ELSE held'[u][n] = 0
      <3>1. CASE u = t /\ n = m
        BY <3>1, <2>2, <2>3, <1>1, NoneIsNot DEF HandedTo, IInv, Types
      <3>2. CASE ~(u = t /\ n = m)
        <4>1. held'[u][n] = held[u][n] /\ (HandedTo(u, n)' <=> HandedTo(u, n))
          BY <3>2, <1>1, NoneIsNot DEF HandedTo, IInv, Types
        <4> QED BY <4>1 DEF IInv, Exclusion
      <3> QED BY <3>1, <3>2
    <2> QED BY <2>4 DEF Exclusion
  <1>5. HandOffSound'
    BY NoneIsNot DEF IInv, Types, HandOffSound, HandedTo
  <1>6. HoldSound' /\ WaitSound' /\ AwaySound'
    BY DEF IInv, Types, HoldSound, WaitSound, AwaySound
  <1>7. BeliefBounded'
    BY <1>1, MutexAssumption DEF IInv, Types, BeliefBounded, MinOf
  <1> QED BY <1>2, <1>3, <1>4, <1>5, <1>6, <1>7 DEF IInv

\* A free mutex has no waiters, and nobody believes to hold it.
LEMMA TakeFreeInv ==
    ASSUME IInv, NEW t \in Thread, NEW m \in Mutex, TakeFree(t, m)
    PROVE  IInv'
  <1> USE DEF TakeFree, Calls, Runs, history
  <1>1. Types'
    <2>1. MinOf(prio[t], ceiling[m]) \in PRIORITIES
      BY MinOfRanks DEF IInv, Types, Rank
    <2>2. PRIO_NONE \in Rank
      BY DEF Rank
    <2> QED BY <2>1, <2>2, MutexAssumption DEF IInv, Types
  <1>2. WaitersLinked'
    BY NoneIsNot DEF IInv, Types, WaitersLinked, Away
  <1>3. Exclusion'
    BY NoneIsNot DEF IInv, Types, Exclusion, HandedTo
  <1>4. HandOffSound'
    BY NoneIsNot DEF IInv, Types, HandOffSound, HandedTo
  <1>5. HoldSound'
    BY NoneIsNot, MutexAssumption DEF IInv, Types, HoldSound
  <1>6. WaitSound' /\ AwaySound'
    BY DEF IInv, Types, WaitSound, AwaySound
  <1>7. BeliefBounded'
    BY DEF IInv, Types, BeliefBounded
  <1> QED BY <1>1, <1>2, <1>3, <1>4, <1>5, <1>6, <1>7 DEF IInv

\* A new ceiling may move waiting threads within their lists.
LEMMA SetCeilingInv ==
    ASSUME IInv, NEW m \in Mutex, NEW p \in Ceilings, SetCeiling(m, p)
    PROVE  IInv'
  <1> USE DEF SetCeiling, history
  <1> DEFINE k == Now(mprio, waiters)
             wait == WaitsOn(stat, pending)
  <1>1. Requeued(k, waiters)
    <2>1. /\ prio \in [Thread -> PRIORITIES] /\ mprio \in [Mutex -> Rank]
          /\ waiters \in [Mutex -> Seq(Thread)] /\ \A n \in Mutex : IsInjective(waiters[n])
      BY DEF IInv, Types, WaitersLinked, Away
    <2> QED BY ONLY <2>1, NowRequeued DEF k
  <1>2. WaitsIn(wait, waiters)
    <2>1. waiters \in [Mutex -> Seq(Thread)] /\ pending \in [Thread -> Mutex \cup {None}]
      BY DEF IInv, Types
    <2>2. ASSUME NEW u \in Thread, stat[u] = "SUSPEND", ~Away(u)
          PROVE  /\ pending[u] # None /\ u \in Range(waiters[pending[u]])
                 /\ owner[pending[u]] \in Thread
      BY <2>1, <2>2 DEF IInv, Types, WaitersLinked, Away
    <2> QED BY ONLY <2>1, <2>2, WaitsOnWaits DEF wait
  <1>3. ceiling' \in [Mutex -> Rank]
    BY MutexAssumption DEF IInv, Types, Rank
  <1>4. NextQueues(waiters)
    <2> HIDE DEF k, wait
    <2>1. CASE owner[m] = None
      <3>1. Becomes(k)
        BY <2>1 DEF k
      <3> QED BY <3>1, <1>1, BecomesKeeps
    <2>2. CASE owner[m] # None
      <3> DEFINE r == Recompute(k, owner[m], wait, taken, ceiling')
      <3>1. Becomes(r)
        BY <2>2 DEF k, wait
      <3>2. owner[m] \in Thread
        BY <2>2 DEF IInv, Types
      <3>3. Requeued(r, waiters)
        BY <3>2, <1>1, <1>2, <1>3, RecomputeKeeps DEF IInv, Types
      <3> HIDE DEF r
      <3> QED BY <3>1, <3>3, BecomesKeeps
    <2> QED BY <2>1, <2>2
  <1>5. Types'
    <2>1. raced' \in BOOLEAN
      BY DEF Requeues
    <2> QED BY <1>3, <1>4, <2>1 DEF IInv, Types, NextQueues
  <1>6. WaitersLinked'
    BY <1>4 DEF IInv, WaitersLinked, Away, NextQueues
  <1>7. Exclusion' /\ HandOffSound'
    BY DEF IInv, Exclusion, HandOffSound, HandedTo
  <1>8. HoldSound' /\ WaitSound' /\ AwaySound' /\ BeliefBounded'
    BY DEF IInv, HoldSound, WaitSound, AwaySound, BeliefBounded
  <1> QED BY <1>5, <1>6, <1>7, <1>8 DEF IInv

\* A thread that gives up is in no list any more: it only forgets what it waited for.
LEMMA TakeFailInv ==
    ASSUME IInv, NEW t \in Thread, TakeFail(t)
    PROVE  IInv'
  <1> USE DEF TakeFail, Runs
  <1> DEFINE m == pc[t]
             list == [waiters EXCEPT ![m] = Unlink(@, t)]
  <1>1. m \in Mutex
    BY DEF IInv, Types
  <1>2. Requeued(Dropped(t, m, stat), list)
    BY <1>1, DroppedKeeps DEF IInv
  <1>3. NextQueues(list)
    BY <1>2, BecomesKeeps, Zenon
  <1>4. list = waiters
    <2>1. t \notin Range(waiters[m])
      BY <1>1 DEF IInv, WaitersLinked, Away
    <2>2. Unlink(waiters[m], t) = waiters[m]
      BY <2>1, <1>1, UnlinkUnlinks DEF IInv, Types
    <2> QED BY <2>2, <1>1 DEF IInv, Types
  <1>5. NextQueues(waiters)
    BY <1>3, <1>4
  <1> HIDE DEF list
  <1>6. skipped' \in BOOLEAN /\ raced' \in BOOLEAN
    BY DEF IInv, Types, Requeues
  <1>7. Types'
    BY <1>5, <1>6 DEF IInv, Types, NextQueues
  <1>8. WaitersLinked'
    BY <1>5, NoneIsNot DEF IInv, Types, WaitersLinked, Away, NextQueues
  <1>9. Exclusion' /\ HandOffSound'
    BY NoneIsNot DEF IInv, Types, Exclusion, HandOffSound, HandedTo
  <1>10. HoldSound' /\ WaitSound' /\ AwaySound' /\ BeliefBounded'
    BY DEF IInv, HoldSound, WaitSound, AwaySound, BeliefBounded
  <1> QED BY <1>7, <1>8, <1>9, <1>10 DEF IInv

\* The threads that wait after t has stopped waiting for m.
Without(m, t) == [waiters EXCEPT ![m] = Unlink(@, t)]

\* The lists without t.
LEMMA WithoutSound ==
    ASSUME IInv, NEW t \in Thread, NEW m \in Mutex
    PROVE  /\ Without(m, t) \in [Mutex -> Seq(Thread)]
           /\ \A n \in Mutex : /\ IsInjective(Without(m, t)[n])
                               /\ Range(Without(m, t)[n]) = Range(waiters[n]) \ (IF n = m THEN {t} ELSE {})
  <1>1. waiters \in [Mutex -> Seq(Thread)] /\ \A n \in Mutex : IsInjective(waiters[n])
    BY DEF IInv, Types, WaitersLinked, Away
  <1>2. /\ Unlink(waiters[m], t) \in Seq(Thread) /\ IsInjective(Unlink(waiters[m], t))
        /\ Range(Unlink(waiters[m], t)) = Range(waiters[m]) \ {t}
    BY <1>1, UnlinkUnlinks
  <1>3. \A n \in Mutex : Without(m, t)[n] = IF n = m THEN Unlink(waiters[m], t) ELSE waiters[n]
    BY <1>1 DEF Without
  <1>4. Without(m, t) \in [Mutex -> Seq(Thread)]
    BY <1>1, <1>2 DEF Without
  <1> QED BY <1>1, <1>2, <1>3, <1>4

\* A thread that times out is in no list, and will not be told RT_EOK.
LEMMA TimeoutInv ==
    ASSUME IInv, NEW t \in Thread, Timeout(t)
    PROVE  IInv'
  <1> USE DEF Timeout, history
  <1> DEFINE m == pc[t]
  <1>1. stat[t] = "SUSPEND" /\ m = pending[t] /\ m \in Mutex
    BY DEF IInv, Types, WaitersLinked, Away, WaitSound
  <1>2. IInv /\ t \in Thread /\ m \in Mutex /\ waiters' = Without(m, t)
    BY <1>1 DEF Without
  <1> HIDE DEF m
  <1>3. /\ waiters' \in [Mutex -> Seq(Thread)]
        /\ \A n \in Mutex : /\ IsInjective(waiters'[n])
                            /\ Range(waiters'[n]) = Range(waiters[n]) \ (IF n = m THEN {t} ELSE {})
    BY ONLY <1>2, WithoutSound
  <1>4. Types'
    BY <1>3 DEF IInv, Types
  <1>5. WaitersLinked'
    <2>1. \A u \in Thread : stat'[u] = IF u = t THEN "READY" ELSE stat[u]
      BY DEF IInv, Types
    <2>2. \A n \in Mutex : n # m => t \notin Range(waiters[n])
      BY <1>1 DEF IInv, WaitersLinked, Away
    <2>3. \A n \in Mutex : Range(waiters'[n]) = Range(waiters[n]) \ {t}
      BY <1>3, <2>2
    <2> QED BY <1>3, <2>1, <2>3 DEF IInv, WaitersLinked, Away
  <1>6. Exclusion' /\ HandOffSound'
    BY <1>1 DEF IInv, Types, Exclusion, HandOffSound, HandedTo
  <1>7. HoldSound' /\ WaitSound' /\ BeliefBounded'
    BY DEF IInv, Types, HoldSound, WaitSound, BeliefBounded
  <1>8. AwaySound'
    <2>1. op[t] # "unlinked"
      BY DEF Away
    <2> QED BY <2>1 DEF IInv, Types, AwaySound
  <1> QED BY <1>4, <1>5, <1>6, <1>7, <1>8 DEF IInv

\* rt_thread_resume takes a thread off its list; it may be told anything from now on.
LEMMA ResumeUnlinkInv ==
    ASSUME IInv, NEW t \in Thread, ResumeUnlink(t)
    PROVE  IInv'
  <1> DEFINE m == pc[t]
  <1>0. /\ stat[t] = "SUSPEND" /\ op[t] = "none" /\ armed' = armed \ {t}
        /\ op' = [op EXCEPT ![t] = "unlinked"] /\ nudged' = nudged \cup {t}
        /\ owner' = owner /\ hold' = hold /\ mprio' = mprio /\ ceiling' = ceiling
        /\ live' = live /\ prio' = prio /\ taken' = taken /\ pending' = pending
        /\ stat' = stat /\ error' = error /\ pc' = pc /\ held' = held
        /\ skipped' = skipped /\ raced' = raced
        /\ waiters' = Without(m, t)
    BY DEF ResumeUnlink, Without
  <1>1. m = pending[t] /\ m \in Mutex /\ ~Away(t)
    <2>1. ~Away(t)
      BY <1>0 DEF Away
    <2>2. pending[t] \in Mutex
      BY <1>0 DEF IInv, Types, WaitersLinked
    <2>3. t \in Range(waiters[pending[t]])
      BY <1>0, <2>1, <2>2 DEF IInv, WaitersLinked
    <2> QED BY <2>1, <2>2, <2>3 DEF IInv, WaitersLinked
  <1> HIDE DEF m
  <1>2. IInv /\ t \in Thread /\ m \in Mutex /\ waiters' = Without(m, t)
    BY <1>0, <1>1
  <1>3. /\ waiters' \in [Mutex -> Seq(Thread)]
        /\ \A n \in Mutex : /\ IsInjective(waiters'[n])
                            /\ Range(waiters'[n]) = Range(waiters[n]) \ (IF n = m THEN {t} ELSE {})
    BY ONLY <1>2, WithoutSound
  <1>4. Types'
    BY <1>0, <1>3 DEF IInv, Types
  <1>5. WaitersLinked'
    <2>1. \A u \in Thread : Away(u)' <=> (u = t \/ Away(u))
      BY <1>0 DEF IInv, Types, Away
    <2>2. \A n \in Mutex : n # m => t \notin Range(waiters[n])
      BY <1>1 DEF IInv, WaitersLinked
    <2>3. \A n \in Mutex : Range(waiters'[n]) = Range(waiters[n]) \ {t}
      BY <1>3, <2>2
    <2> QED BY <1>0, <1>3, <2>1, <2>3 DEF IInv, WaitersLinked
  <1>6. Exclusion' /\ HandOffSound'
    BY <1>0 DEF IInv, Types, Exclusion, HandOffSound, HandedTo
  <1>7. HoldSound' /\ WaitSound' /\ AwaySound' /\ BeliefBounded'
    BY <1>0 DEF IInv, Types, HoldSound, WaitSound, AwaySound, BeliefBounded
  <1> QED BY <1>4, <1>5, <1>6, <1>7 DEF IInv

\* The thread that was taken off its list becomes ready.
LEMMA ResumeInsertInv ==
    ASSUME IInv, NEW t \in Thread, ResumeInsert(t)
    PROVE  IInv'
  <1>0. /\ op[t] = "unlinked" /\ op' = [op EXCEPT ![t] = "none"]
        /\ stat' = [stat EXCEPT ![t] = "READY"]
        /\ owner' = owner /\ hold' = hold /\ mprio' = mprio /\ ceiling' = ceiling
        /\ waiters' = waiters /\ live' = live /\ prio' = prio /\ taken' = taken
        /\ pending' = pending /\ error' = error /\ armed' = armed /\ pc' = pc
        /\ held' = held /\ nudged' = nudged /\ skipped' = skipped /\ raced' = raced
    BY DEF ResumeInsert, mutexVars, history
  <1>1. stat[t] = "SUSPEND" /\ t \in nudged /\ Away(t)
    BY <1>0 DEF IInv, AwaySound, Away
  <1>2. \A u \in Thread : /\ stat'[u] = IF u = t THEN "READY" ELSE stat[u]
                          /\ op'[u] = IF u = t THEN "none" ELSE op[u]
    BY <1>0 DEF IInv, Types
  <1>3. Types'
    BY <1>0 DEF IInv, Types
  <1>4. WaitersLinked'
    BY <1>0, <1>1, <1>2 DEF IInv, WaitersLinked, Away
  <1>5. Exclusion' /\ HandOffSound'
    BY <1>0, <1>1, <1>2 DEF IInv, Exclusion, HandOffSound, HandedTo
  <1>6. WaitSound'
    BY <1>0, <1>2 DEF IInv, Types, WaitSound, AwaySound
  <1>7. HoldSound' /\ AwaySound' /\ BeliefBounded'
    BY <1>0, <1>2 DEF IInv, HoldSound, AwaySound, BeliefBounded
  <1> QED BY <1>3, <1>4, <1>5, <1>6, <1>7 DEF IInv

\* A thread that is deleted is first taken off its list.
LEMMA DeleteRemoveInv ==
    ASSUME IInv, NEW t \in Thread, DeleteRemove(t)
    PROVE  IInv'
  <1>0. /\ op[t] = "none" /\ stat[t] # "CLOSE" /\ \A m \in Mutex : owner[m] # t
        /\ op' = [op EXCEPT ![t] = "removed"]
        /\ owner' = owner /\ hold' = hold /\ mprio' = mprio /\ ceiling' = ceiling
        /\ live' = live /\ prio' = prio /\ taken' = taken /\ pending' = pending
        /\ stat' = stat /\ error' = error /\ pc' = pc /\ held' = held /\ armed' = armed
        /\ nudged' = nudged /\ skipped' = skipped /\ raced' = raced
        /\ waiters' = [m \in Mutex |-> IF stat[t] = "SUSPEND" /\ pending[t] = m
                                      THEN Unlink(waiters[m], t) ELSE waiters[m]]
    BY DEF DeleteRemove, history
  <1>1. \A n \in Mutex : /\ Unlink(waiters[n], t) \in Seq(Thread)
                         /\ IsInjective(Unlink(waiters[n], t))
                         /\ Range(Unlink(waiters[n], t)) = Range(waiters[n]) \ {t}
    BY UnlinkUnlinks DEF IInv, Types, WaitersLinked
  <1>2. \A n \in Mutex : t \in Range(waiters[n]) => stat[t] = "SUSPEND" /\ pending[t] = n
    BY DEF IInv, WaitersLinked
  <1>3. /\ waiters' \in [Mutex -> Seq(Thread)]
        /\ \A n \in Mutex : IsInjective(waiters'[n]) /\ Range(waiters'[n]) = Range(waiters[n]) \ {t}
    <2>1. waiters \in [Mutex -> Seq(Thread)] /\ \A n \in Mutex : IsInjective(waiters[n])
      BY DEF IInv, Types, WaitersLinked
    <2>2. \A n \in Mutex : waiters'[n] = IF stat[t] = "SUSPEND" /\ pending[t] = n
                                         THEN Unlink(waiters[n], t) ELSE waiters[n]
      BY <1>0
    <2>3. waiters' \in [Mutex -> Seq(Thread)]
      BY <1>0, <1>1, <2>1
    <2> QED BY <2>1, <2>2, <2>3, <1>1, <1>2
  <1>4. Types'
    BY <1>0, <1>3 DEF IInv, Types
  <1>5. WaitersLinked'
    <2>1. \A u \in Thread : Away(u)' <=> (u = t \/ Away(u))
      BY <1>0 DEF IInv, Types, Away
    <2>2. ASSUME NEW u \in Thread, NEW n \in Mutex
          PROVE  /\ u \in Range(waiters'[n]) <=> stat'[u] = "SUSPEND" /\ pending'[u] = n /\ ~Away(u)'
                 /\ u \in Range(waiters'[n]) =>
                      pc'[u] = n /\ n \in live' /\ owner'[n] \notin {None, u}
                 /\ n \in taken'[u] <=> n \in live' /\ owner'[n] = u
      <3>1. /\ u \in Range(waiters[n]) <=> stat[u] = "SUSPEND" /\ pending[u] = n /\ ~Away(u)
            /\ u \in Range(waiters[n]) => pc[u] = n /\ n \in live /\ owner[n] \notin {None, u}
            /\ n \in taken[u] <=> n \in live /\ owner[n] = u
        BY DEF IInv, WaitersLinked
      <3> QED BY <3>1, <2>1, <1>0, <1>3
    <2>3. \A u \in Thread : stat'[u] = "SUSPEND" => pending'[u] # None
      BY <1>0 DEF IInv, WaitersLinked
    <2> QED BY <1>3, <2>2, <2>3 DEF WaitersLinked
  <1>6. Exclusion' /\ HandOffSound'
    BY <1>0 DEF IInv, Exclusion, HandOffSound, HandedTo
  <1>7. HoldSound' /\ WaitSound' /\ AwaySound' /\ BeliefBounded'
    BY <1>0 DEF IInv, Types, HoldSound, WaitSound, AwaySound, BeliefBounded
  <1> QED BY <1>4, <1>5, <1>6, <1>7 DEF IInv

\* A closed thread waits for nothing and holds nothing.
LEMMA DeleteCloseInv ==
    ASSUME IInv, NEW t \in Thread, DeleteClose(t)
    PROVE  IInv'
  <1>0. /\ op[t] = "removed" /\ op' = [op EXCEPT ![t] = "none"]
        /\ stat' = [stat EXCEPT ![t] = "CLOSE"] /\ armed' = armed \ {t}
        /\ pc' = [pc EXCEPT ![t] = None]
        /\ pending' = IF pending[t] \in live THEN [pending EXCEPT ![t] = None] ELSE pending
        /\ owner' = owner /\ hold' = hold /\ ceiling' = ceiling
        /\ live' = live /\ taken' = taken /\ error' = error /\ held' = held
        /\ nudged' = nudged
    BY DEF DeleteClose
  <1>1. Away(t) /\ stat[t] # "CLOSE" /\ \A m \in Mutex : owner[m] # t
    BY <1>0 DEF IInv, AwaySound, Away
  <1>2. \A n \in Mutex : t \notin Range(waiters[n])
    BY <1>1 DEF IInv, WaitersLinked
  <1>3. NextQueues(waiters)
    <2>1. CASE pending[t] \notin live
      <3>1. prio' = prio /\ mprio' = mprio /\ waiters' = waiters
        BY <2>1 DEF DeleteClose
      <3> QED BY <3>1 DEF IInv, Types, WaitersLinked, NextQueues
    <2>2. CASE pending[t] \in live
      <3> DEFINE m == pending[t]
                 list == [waiters EXCEPT ![m] = Unlink(@, t)]
      <3>1. m \in Mutex
        BY <2>2 DEF IInv, Types
      <3>2. \A u \in Thread : stat'[u] = "SUSPEND" => u # t /\ stat[u] = "SUSPEND"
        BY <1>0 DEF IInv, Types
      <3>3. Requeued(Dropped(t, m, stat'), list)
        BY <3>1, <3>2, DroppedKeeps DEF IInv
      <3>4. Becomes(Dropped(t, m, stat'))
        BY <2>2 DEF DeleteClose
      <3>5. NextQueues(list)
        BY ONLY <3>3, <3>4, BecomesKeeps, Zenon
      <3>6. list = waiters
        <4>1. Unlink(waiters[m], t) = waiters[m]
          BY <1>2, <3>1, UnlinkUnlinks DEF IInv, Types
        <4> QED BY <4>1, <3>1 DEF IInv, Types
      <3> QED BY <3>5, <3>6
    <2> QED BY <2>1, <2>2
  <1>4. \A u \in Thread : /\ stat'[u] = IF u = t THEN "CLOSE" ELSE stat[u]
                          /\ pc'[u] = IF u = t THEN None ELSE pc[u]
                          /\ u # t => pending'[u] = pending[u]
                          /\ Away(u)' <=> (u # t /\ Away(u))
    BY <1>0 DEF IInv, Types, Away
  <1>5. Types'
    <2>1. skipped' \in BOOLEAN /\ raced' \in BOOLEAN
      BY DEF DeleteClose, IInv, Types, Requeues
    <2>2. pending' \in [Thread -> Mutex \cup {None}]
      BY <1>0 DEF IInv, Types
    <2> QED BY <1>0, <1>3, <2>1, <2>2 DEF IInv, Types, NextQueues
  <1>6. WaitersLinked'
    BY <1>0, <1>2, <1>3, <1>4 DEF IInv, WaitersLinked, NextQueues
  <1>7. Exclusion' /\ HandOffSound'
    BY <1>0, <1>1, <1>4, NoneIsNot DEF IInv, Types, Exclusion, HandOffSound, HandedTo
  <1>8. HoldSound' /\ WaitSound' /\ AwaySound' /\ BeliefBounded'
    BY <1>0, <1>4 DEF IInv, Types, HoldSound, WaitSound, AwaySound, BeliefBounded
  <1> QED BY <1>5, <1>6, <1>7, <1>8 DEF IInv

\* The end of the behaviours that are followed changes nothing but the history.
LEMMA RaceInv ==
    ASSUME IInv, NEW t \in Thread, Race(t)
    PROVE  IInv'
  <1>0. /\ owner' = owner /\ hold' = hold /\ mprio' = mprio /\ ceiling' = ceiling
        /\ waiters' = waiters /\ live' = live /\ prio' = prio /\ taken' = taken
        /\ pending' = pending /\ stat' = stat /\ error' = error /\ armed' = armed
        /\ op' = op /\ pc' = pc /\ held' = held /\ nudged' = nudged
        /\ skipped' = skipped /\ raced' = TRUE
    BY DEF Race, mutexVars, threadVars
  <1>1. Types' /\ WaitersLinked' /\ Exclusion' /\ AwaySound'
    BY <1>0 DEF IInv, Types, WaitersLinked, Exclusion, HandedTo, AwaySound, Away
  <1>2. HoldSound' /\ WaitSound' /\ HandOffSound' /\ BeliefBounded'
    BY <1>0 DEF IInv, HoldSound, WaitSound, HandOffSound, HandedTo, BeliefBounded
  <1> QED BY <1>1, <1>2 DEF IInv

\* The waiters of a detached mutex are told that they failed.
LEMMA DetachInv ==
    ASSUME IInv, NEW m \in Mutex, Detach(m)
    PROVE  IInv'
  <1> DEFINE woken == Range(waiters[m])
  <1>1. /\ \A u \in woken : u \in Thread /\ stat[u] = "SUSPEND" /\ pending[u] = m /\ pc[u] = m
        /\ \A u \in Thread : u \notin woken => ~(stat[u] = "SUSPEND" /\ pending[u] = m /\ ~Away(u))
        /\ \A u \in woken : ~Away(u)
    BY ListEmpty DEF IInv, Types, WaitersLinked, Away
  <1>2. /\ error' = [u \in Thread |-> IF u \in woken THEN "ERROR" ELSE error[u]]
        /\ stat' = [u \in Thread |-> IF u \in woken THEN "READY" ELSE stat[u]]
        /\ armed' = armed \ woken
    BY DEF Detach
  <1>3. /\ live' = live \ {m} /\ taken' = [u \in Thread |-> taken[u] \ {m}]
        /\ held' = [u \in Thread |-> [held[u] EXCEPT ![m] = 0]]
        /\ owner' = owner /\ hold' = hold /\ mprio' = mprio /\ ceiling' = ceiling
        /\ prio' = prio /\ pending' = pending /\ pc' = pc /\ nudged' = nudged
        /\ skipped' = skipped /\ raced' = raced /\ op' = op
    BY DEF Detach, history
  <1>4. /\ waiters' \in [Mutex -> Seq(Thread)]
        /\ \A n \in Mutex : /\ IsInjective(waiters'[n])
                            /\ Range(waiters'[n]) = IF n = m THEN {} ELSE Range(waiters[n])
    <2>1. Range(<<>>) = {} /\ IsInjective(<<>>) /\ <<>> \in Seq(Thread)
      BY DEF Range, IsInjective
    <2>2. /\ waiters \in [Mutex -> Seq(Thread)] /\ \A n \in Mutex : IsInjective(waiters[n])
          /\ waiters' = [waiters EXCEPT ![m] = <<>>]
      BY DEF Detach, IInv, Types, WaitersLinked, Away
    <2> QED BY <2>1, <2>2
  <1> HIDE DEF woken
  <1>5. \A u \in Thread : /\ stat'[u] = IF u \in woken THEN "READY" ELSE stat[u]
                          /\ error'[u] = IF u \in woken THEN "ERROR" ELSE error[u]
                          /\ taken'[u] = taken[u] \ {m}
                          /\ \A n \in Mutex : held'[u][n] = IF n = m THEN 0 ELSE held[u][n]
    BY <1>2, <1>3 DEF IInv, Types
  <1>6. Types'
    BY <1>2, <1>3, <1>4 DEF IInv, Types
  <1>7. WaitersLinked'
    <2>1. ASSUME NEW u \in Thread, NEW n \in Mutex
          PROVE  /\ u \in Range(waiters'[n]) <=> stat'[u] = "SUSPEND" /\ pending'[u] = n /\ ~Away(u)'
                 /\ u \in Range(waiters'[n]) =>
                      pc'[u] = n /\ n \in live' /\ owner'[n] \notin {None, u}
                 /\ n \in taken'[u] <=> n \in live' /\ owner'[n] = u
      <3>1. u \in Range(waiters[n]) <=> stat[u] = "SUSPEND" /\ pending[u] = n /\ ~Away(u)
        BY DEF IInv, WaitersLinked, Away
      <3>2. u \in Range(waiters[n]) => pc[u] = n /\ n \in live /\ owner[n] \notin {None, u}
        BY DEF IInv, WaitersLinked, Away
      <3>3. n \in taken[u] <=> n \in live /\ owner[n] = u
        BY DEF IInv, WaitersLinked, Away
      <3>4. CASE n = m
        BY <3>3, <3>4, <1>1, <1>3, <1>4, <1>5 DEF Away
      <3>5. CASE n # m
        BY <3>1, <3>2, <3>3, <3>5, <1>1, <1>3, <1>4, <1>5 DEF Away
      <3> QED BY <3>4, <3>5
    <2>2. \A u \in Thread : stat'[u] = "SUSPEND" => pending'[u] # None
      BY <1>3, <1>5 DEF IInv, WaitersLinked, Away
    <2> QED BY <2>1, <2>2, <1>4 DEF WaitersLinked, Away
  <1>8. \A u \in Thread, n \in live' : HandedTo(u, n)' <=> HandedTo(u, n)
    BY <1>1, <1>3, <1>5 DEF HandedTo, IInv, Types
  <1>9. Exclusion' /\ HandOffSound'
    BY <1>3, <1>5, <1>8 DEF IInv, Types, Exclusion, HandOffSound
  <1>10. HoldSound' /\ WaitSound' /\ AwaySound'
    BY <1>1, <1>2, <1>3, <1>5 DEF IInv, Types, HoldSound, WaitSound, AwaySound, Away
  <1>11. BeliefBounded'
    BY <1>3, <1>5, MutexAssumption DEF IInv, Types, BeliefBounded
  <1> QED BY <1>6, <1>7, <1>9, <1>10, <1>11 DEF IInv

\* The caller waits for a mutex that another thread owns.
LEMMA TakeBlockInv ==
    ASSUME IInv, NEW t \in Thread, NEW m \in Mutex, NEW timed \in BOOLEAN, TakeBlock(t, m, timed)
    PROVE  IInv'
  <1> DEFINE q == Enqueue(waiters[m], t, "PRIO", prio)
             mp == [mprio EXCEPT ![m] = MinOf(@, prio[t])]
             list == [waiters EXCEPT ![m] = q]
             k == Now(mp, list)
             wait == WaitsOn(stat', pending')
             u == UpdatePriority(k, owner[m], prio[t], wait, taken, ceiling)
  <1>1. /\ stat[t] = "READY" /\ pc[t] = None /\ m \in live
        /\ owner[m] \in Thread /\ owner[m] # t /\ ~Away(t)
    BY DEF TakeBlock, Calls, Runs, IInv, Types, AwaySound, Away
  <1>2. /\ error' = [error EXCEPT ![t] = "EOK"] /\ stat' = [stat EXCEPT ![t] = "SUSPEND"]
        /\ pending' = [pending EXCEPT ![t] = m] /\ pc' = [pc EXCEPT ![t] = m]
        /\ armed' = IF timed THEN armed \cup {t} ELSE armed
        /\ owner' = owner /\ hold' = hold /\ ceiling' = ceiling /\ live' = live
        /\ taken' = taken /\ held' = held /\ nudged' = nudged /\ skipped' = skipped
        /\ op' = op /\ raced' \in BOOLEAN
    BY DEF TakeBlock, history, Requeues
  <1>3. Becomes(IF prio[t] < mprio[m] /\ prio[t] < prio[owner[m]] THEN u ELSE k)
    BY Zenon DEF TakeBlock
  <1>4. /\ q \in Seq(Thread) /\ IsInjective(q) /\ Range(q) = Range(waiters[m]) \cup {t}
    <2>1. waiters[m] \in Seq(Thread) /\ IsInjective(waiters[m])
      BY DEF IInv, Types, WaitersLinked, Away
    <2>2. t \notin Range(waiters[m])
      BY <1>1 DEF IInv, WaitersLinked, Away
    <2>3. prio \in [Thread -> PRIORITIES]
      BY DEF IInv, Types
    <2>4. prio \in [Thread -> Nat]
      BY <2>3, RanksAre
    <2> QED BY <2>1, <2>2, <2>4, EnqueueLinks
  <1> HIDE DEF q
  <1>5. /\ list \in [Mutex -> Seq(Thread)] /\ \A n \in Mutex : IsInjective(list[n])
        /\ \A n \in Mutex : Range(list[n]) = Range(waiters[n]) \cup (IF n = m THEN {t} ELSE {})
    <2>1. waiters \in [Mutex -> Seq(Thread)] /\ \A n \in Mutex : IsInjective(waiters[n])
      BY DEF IInv, Types, WaitersLinked, Away
    <2>2. list \in [Mutex -> Seq(Thread)] /\ \A n \in Mutex : list[n] = IF n = m THEN q ELSE waiters[n]
      BY <2>1, <1>4
    <2> QED BY <2>1, <2>2, <1>4
  <1>6. mp \in [Mutex -> Rank]
    BY MinOfRanks DEF IInv, Types, Rank
  <1> HIDE DEF list, mp
  <1>7. Requeued(k, list)
    BY <1>5, <1>6, NowRequeued DEF IInv, Types
  <1>8. \A v \in Thread : /\ stat'[v] = IF v = t THEN "SUSPEND" ELSE stat[v]
                          /\ pending'[v] = IF v = t THEN m ELSE pending[v]
                          /\ pc'[v] = IF v = t THEN m ELSE pc[v]
                          /\ error'[v] = IF v = t THEN "EOK" ELSE error[v]
    BY <1>2 DEF IInv, Types
  <1>9. WaitsIn(wait, list)
    <2>1. ASSUME NEW v \in Thread, stat'[v] = "SUSPEND", ~Away(v)
          PROVE  pending'[v] # None /\ v \in Range(list[pending'[v]]) /\ owner[pending'[v]] \in Thread
      <3>1. CASE v = t
        BY <3>1, <1>1, <1>5, <1>8, NoneIsNot
      <3>2. CASE v # t
        <4>1. stat[v] = "SUSPEND" /\ pending'[v] = pending[v]
          BY <2>1, <3>2, <1>8
        <4>2. /\ pending[v] # None /\ pending[v] \in Mutex
              /\ v \in Range(waiters[pending[v]]) /\ owner[pending[v]] \in Thread
          BY <4>1, <2>1 DEF IInv, Types, WaitersLinked
        <4> QED BY <4>1, <4>2, <1>5
      <3> QED BY <3>1, <3>2
    <2>2. pending' \in [Thread -> Mutex \cup {None}]
      BY <1>2 DEF IInv, Types
    <2> QED BY <2>1, <2>2, <1>5, WaitsOnWaits
  <1> HIDE DEF k, wait
  <1>10. NextQueues(list)
    <2>1. Requeued(u, list)
      BY <1>1, <1>5, <1>7, <1>9, UpdateKeeps DEF IInv, Types
    <2> HIDE DEF u
    <2> QED BY <2>1, <1>3, <1>7, BecomesKeeps
  <1> HIDE DEF u
  <1>11. Types'
    BY <1>2, <1>10 DEF IInv, Types, NextQueues
  <1>12. WaitersLinked'
    <2>1. \A n \in Mutex : /\ IsInjective(waiters'[n])
                           /\ Range(waiters'[n]) = Range(waiters[n]) \cup (IF n = m THEN {t} ELSE {})
      BY <1>5, <1>10 DEF NextQueues
    <2>2. \A n \in Mutex : t \notin Range(waiters[n])
      BY <1>1 DEF IInv, WaitersLinked, Away
    <2> QED BY <1>1, <1>2, <1>8, <2>1, <2>2, NoneIsNot DEF IInv, WaitersLinked, Away
  <1>13. \A v \in Thread, n \in Mutex : HandedTo(v, n)' <=> HandedTo(v, n)
    BY <1>1, <1>8, NoneIsNot DEF HandedTo
  <1>14. Exclusion' /\ HandOffSound'
    BY <1>2, <1>13 DEF IInv, Types, Exclusion, HandOffSound
  <1>15. HoldSound' /\ WaitSound' /\ BeliefBounded'
    BY <1>2, <1>8 DEF IInv, Types, HoldSound, WaitSound, BeliefBounded
  <1>16. AwaySound'
    <2>1. \A v \in Thread : op[v] = "unlinked" => v # t
      BY <1>1 DEF Away
    <2> QED BY <2>1, <1>1, <1>2, <1>8 DEF IInv, AwaySound, Away
  <1> QED BY <1>11, <1>12, <1>14, <1>15, <1>16 DEF IInv

\* What a release does to the releasing thread, whoever gets the mutex.
LEMMA ReleaseSound ==
    ASSUME IInv, NEW t \in Thread, NEW m \in Mutex, Release(t, m)
    PROVE  /\ stat[t] = "READY" /\ pc[t] = None /\ m \in live /\ owner[m] = t /\ hold[m] = 1
           /\ t \notin nudged => held[t][m] = 1
           /\ prio' \in [Thread -> PRIORITIES]
           /\ held' = [held EXCEPT ![t][m] = @ - 1]
           /\ ceiling' = ceiling /\ live' = live /\ error' = error /\ pc' = pc
           /\ nudged' = nudged /\ skipped' = skipped /\ op' = op /\ raced' = raced
  <1>1. /\ stat[t] = "READY" /\ pc[t] = None /\ m \in live /\ owner[m] = t /\ hold[m] = 1
        /\ held' = [held EXCEPT ![t][m] = @ - 1] /\ prio' = Lowered(t, m)
        /\ ceiling' = ceiling /\ live' = live /\ error' = error /\ pc' = pc
        /\ nudged' = nudged /\ skipped' = skipped /\ op' = op /\ raced' = raced
    BY DEF Release, Calls, Runs, history
  <1>2. ~HandedTo(t, m)
    BY <1>1, NoneIsNot DEF HandedTo
  <1>3. t \notin nudged => held[t][m] = 1
    BY <1>1, <1>2 DEF IInv, Exclusion
  <1>4. Lowered(t, m) \in [Thread -> PRIORITIES]
    <2>1. GetMutexPriority(t, taken[t] \ {m}, mprio, ceiling) \in PRIORITIES
      <3>1. taken[t] \ {m} \in SUBSET Mutex
        BY DEF IInv, Types
      <3> QED BY <3>1, MutexPriorityType DEF IInv, Types
    <2> QED BY <2>1 DEF Lowered, IInv, Types
  <1> QED BY <1>1, <1>3, <1>4

\* The mutex goes to the first waiter, who owns it from now on, or becomes free.
LEMMA ReleaseInv ==
    ASSUME IInv, NEW t \in Thread, NEW m \in Mutex, Release(t, m)
    PROVE  IInv'
  <1>1. /\ stat[t] = "READY" /\ pc[t] = None /\ m \in live /\ owner[m] = t /\ hold[m] = 1
        /\ t \notin nudged => held[t][m] = 1
        /\ prio' \in [Thread -> PRIORITIES]
        /\ held' = [held EXCEPT ![t][m] = @ - 1]
        /\ ceiling' = ceiling /\ live' = live /\ error' = error /\ pc' = pc
        /\ nudged' = nudged /\ skipped' = skipped /\ op' = op /\ raced' = raced
    BY ReleaseSound
  <1>2. /\ held' \in [Thread -> [Mutex -> Int]]
        /\ \A u \in Thread, n \in Mutex :
             held'[u][n] = IF u = t /\ n = m THEN held[t][m] - 1 ELSE held[u][n]
    BY <1>1 DEF IInv, Types
  <1>3. BeliefBounded'
    BY <1>1, <1>2 DEF IInv, BeliefBounded
  <1>4. \A u \in Thread : u \notin nudged => ~HandedTo(u, m)
    BY <1>1, NoneIsNot DEF IInv, HandOffSound, HandedTo
  <1>5. CASE waiters[m] = <<>>
    <2>1. /\ owner' = [owner EXCEPT ![m] = None] /\ hold' = [hold EXCEPT ![m] = 0]
          /\ mprio' = [mprio EXCEPT ![m] = PRIO_NONE]
          /\ taken' = [taken EXCEPT ![t] = @ \ {m}]
          /\ waiters' = waiters /\ pending' = pending /\ stat' = stat /\ armed' = armed
      BY <1>5 DEF Release
    <2>2. Types'
      <3>1. PRIO_NONE \in Rank /\ 0 \in 0 .. HOLD_MAX
        BY MutexAssumption DEF Rank
      <3> QED BY <2>1, <3>1, <1>1, <1>2 DEF IInv, Types
    <2>3. WaitersLinked'
      <3>1. Range(waiters[m]) = {}
        BY <1>5 DEF Range
      <3> QED BY <2>1, <3>1, <1>1, NoneIsNot DEF IInv, Types, WaitersLinked, Away
    <2>4. Exclusion' /\ HandOffSound'
      BY <2>1, <1>1, <1>2, <1>4, NoneIsNot DEF IInv, Types, Exclusion, HandOffSound, HandedTo
    <2>5. HoldSound' /\ WaitSound' /\ AwaySound'
      BY <2>1, <1>1, NoneIsNot DEF IInv, Types, HoldSound, WaitSound, AwaySound
    <2> QED BY <2>2, <2>3, <2>4, <2>5, <1>3 DEF IInv
  <1>6. CASE waiters[m] # <<>>
    <2> DEFINE n == Head(waiters[m])
    <2>1. /\ owner' = [owner EXCEPT ![m] = n] /\ hold' = hold
          /\ waiters' = [waiters EXCEPT ![m] = Tail(@)]
          /\ mprio' = [mprio EXCEPT ![m] = HeadPriority(Tail(waiters[m]), prio')]
          /\ taken' = [taken EXCEPT ![t] = @ \ {m}, ![n] = @ \cup {m}]
          /\ pending' = [pending EXCEPT ![n] = None]
          /\ stat' = [stat EXCEPT ![n] = "READY"]
          /\ armed' = armed \ {n}
      BY <1>6 DEF Release
    <2>2. /\ n \in Range(waiters[m]) /\ n \in Thread
          /\ Tail(waiters[m]) \in Seq(Thread) /\ IsInjective(Tail(waiters[m]))
          /\ Range(Tail(waiters[m])) = Range(waiters[m]) \ {n}
      BY <1>6, ListEmpty, TailLinks DEF IInv, Types, WaitersLinked, Away
    <2> HIDE DEF n
    <2>3. /\ stat[n] = "SUSPEND" /\ pending[n] = m /\ pc[n] = m /\ n # t /\ error[n] = "EOK"
          /\ ~Away(n)
      BY <2>2, <1>1 DEF IInv, WaitersLinked, Away, WaitSound
    <2>4. /\ \A u \in Thread : /\ stat'[u] = IF u = n THEN "READY" ELSE stat[u]
                               /\ pending'[u] = IF u = n THEN None ELSE pending[u]
                               /\ taken'[u] = IF u = n THEN taken[n] \cup {m}
                                              ELSE IF u = t THEN taken[t] \ {m} ELSE taken[u]
          /\ \A x \in Mutex : owner'[x] = IF x = m THEN n ELSE owner[x]
      BY <2>1, <2>3 DEF IInv, Types
    <2>5. /\ waiters' \in [Mutex -> Seq(Thread)]
          /\ \A x \in Mutex : /\ IsInjective(waiters'[x])
                              /\ Range(waiters'[x]) = Range(waiters[x]) \ (IF x = m THEN {n} ELSE {})
      <3>1. /\ waiters \in [Mutex -> Seq(Thread)] /\ \A x \in Mutex : IsInjective(waiters[x])
        BY DEF IInv, Types, WaitersLinked, Away
      <3> QED BY <3>1, <2>1, <2>2
    <2>6. Types'
      <3>1. HeadPriority(Tail(waiters[m]), prio') \in Rank
        BY <2>2, <1>1, HeadPriorityRank
      <3>2. mprio' \in [Mutex -> Rank] /\ taken' \in [Thread -> SUBSET Mutex]
        BY <2>1, <2>2, <3>1 DEF IInv, Types
      <3> QED BY <2>1, <2>2, <2>5, <3>2, <1>1, <1>2 DEF IInv, Types
    <2>7. WaitersLinked'
      <3>1. ASSUME NEW u \in Thread, NEW x \in Mutex
            PROVE  /\ u \in Range(waiters'[x]) <=> stat'[u] = "SUSPEND" /\ pending'[u] = x /\ ~Away(u)'
                   /\ u \in Range(waiters'[x]) =>
                        pc'[u] = x /\ x \in live' /\ owner'[x] \notin {None, u}
                   /\ x \in taken'[u] <=> x \in live' /\ owner'[x] = u
        <4>1. /\ u \in Range(waiters[x]) <=> stat[u] = "SUSPEND" /\ pending[u] = x /\ ~Away(u)
              /\ u \in Range(waiters[x]) => pc[u] = x /\ x \in live /\ owner[x] \notin {None, u}
              /\ x \in taken[u] <=> x \in live /\ owner[x] = u
          BY DEF IInv, WaitersLinked, Away
        <4>2. u \in Range(waiters'[x]) <=> stat'[u] = "SUSPEND" /\ pending'[u] = x /\ ~Away(u)'
          BY <4>1, <2>3, <2>4, <2>5, <1>1 DEF Away
        <4>3. u \in Range(waiters'[x]) =>
                pc'[u] = x /\ x \in live' /\ owner'[x] \notin {None, u}
          BY <4>1, <2>2, <2>4, <2>5, <1>1, NoneIsNot
        <4>4. x \in taken'[u] <=> x \in live' /\ owner'[x] = u
          BY <4>1, <2>3, <2>4, <1>1
        <4> QED BY <4>2, <4>3, <4>4
      <3>2. \A u \in Thread : stat'[u] = "SUSPEND" => pending'[u] # None
        BY <2>4 DEF IInv, WaitersLinked, Away
      <3> QED BY <3>1, <3>2, <2>5 DEF WaitersLinked, Away
    <2>8. /\ \A u \in Thread, x \in Mutex :
               HandedTo(u, x)' <=> HandedTo(u, x) \/ (u = n /\ x = m)
      BY <2>3, <2>4, <1>1 DEF HandedTo
    <2>9. Exclusion'
      <3>1. ASSUME NEW x \in live, NEW u \in Thread \ nudged
            PROVE  IF owner'[x] = u THEN held'[u][x] = (IF HandedTo(u, x)' THEN 0 ELSE hold[x])
                   ELSE held'[u][x] = 0
        <4>1. x \in Mutex /\ u \in Thread
          BY DEF IInv, Types
        <4>2. IF owner[x] = u THEN held[u][x] = (IF HandedTo(u, x) THEN 0 ELSE hold[x])
              ELSE held[u][x] = 0
          BY DEF IInv, Exclusion
        <4>3. CASE x # m
          BY <4>1, <4>2, <4>3, <2>4, <2>8, <1>2
        <4>4. CASE x = m /\ u = n
          BY <4>1, <4>2, <4>4, <2>3, <2>4, <2>8, <1>1, <1>2
        <4>5. CASE x = m /\ u # n
          BY <4>1, <4>2, <4>5, <2>4, <1>1, <1>2
        <4> QED BY <4>3, <4>4, <4>5
      <3> QED BY <3>1, <2>1, <1>1 DEF Exclusion
    <2>10. HandOffSound'
      BY <2>1, <2>4, <2>8, <1>1, <1>4 DEF IInv, Types, HandOffSound
    <2>11. HoldSound' /\ WaitSound' /\ AwaySound'
      BY <2>1, <2>2, <2>3, <2>4, <1>1, NoneIsNot DEF IInv, Types, HoldSound, WaitSound, AwaySound, Away
    <2> QED BY <2>6, <2>7, <2>9, <2>10, <2>11, <1>3 DEF IInv
  <1> QED BY <1>5, <1>6

\* Every action keeps the inductive invariant.
LEMMA NextInv == IInv /\ [Next]_vars => IInv'
  <1> SUFFICES ASSUME IInv, [Next]_vars PROVE IInv'
    OBVIOUS
  <1>1. CASE UNCHANGED vars
    <2>1. Types' /\ WaitersLinked' /\ Exclusion' /\ AwaySound'
      BY <1>1 DEF vars, mutexVars, threadVars, history, IInv, Types, WaitersLinked,
                  Exclusion, HandedTo, AwaySound, Away
    <2>2. HoldSound' /\ WaitSound' /\ HandOffSound' /\ BeliefBounded'
      BY <1>1 DEF vars, mutexVars, threadVars, history, IInv, HoldSound, WaitSound,
                  HandOffSound, HandedTo, BeliefBounded
    <2> QED BY <2>1, <2>2 DEF IInv
  <1>2. ASSUME NEW t \in Thread, NEW m \in Mutex, TakeAgain(t, m) PROVE IInv'
    BY <1>2, TakeAgainInv
  <1>3. ASSUME NEW t \in Thread, NEW m \in Mutex, TakeFree(t, m) PROVE IInv'
    BY <1>3, TakeFreeInv
  <1>4. ASSUME NEW t \in Thread, NEW m \in Mutex, NEW timed \in BOOLEAN, TakeBlock(t, m, timed)
        PROVE  IInv'
    BY <1>4, TakeBlockInv
  <1>5. ASSUME NEW t \in Thread, NEW m \in Mutex, ReleaseAgain(t, m) PROVE IInv'
    BY <1>5, ReleaseAgainInv
  <1>6. ASSUME NEW t \in Thread, NEW m \in Mutex, Release(t, m) PROVE IInv'
    BY <1>6, ReleaseInv
  <1>7. ASSUME NEW t \in Thread, TakeReturn(t) PROVE IInv'
    BY <1>7, TakeReturnInv
  <1>8. ASSUME NEW t \in Thread, TakeFail(t) PROVE IInv'
    BY <1>8, TakeFailInv
  <1>9. ASSUME NEW t \in Thread, Timeout(t) PROVE IInv'
    BY <1>9, TimeoutInv
  <1>10. ASSUME NEW t \in Thread, ResumeUnlink(t) \/ ResumeInsert(t) PROVE IInv'
    BY <1>10, ResumeUnlinkInv, ResumeInsertInv
  <1>11. ASSUME NEW t \in Thread, DeleteRemove(t) \/ DeleteClose(t) \/ Race(t) PROVE IInv'
    BY <1>11, DeleteRemoveInv, DeleteCloseInv, RaceInv
  <1>12. ASSUME NEW m \in Mutex, Detach(m) PROVE IInv'
    BY <1>12, DetachInv
  <1>13. ASSUME NEW m \in Mutex, NEW p \in Ceilings, SetCeiling(m, p) PROVE IInv'
    BY <1>13, SetCeilingInv
  <1> QED BY <1>1, <1>2, <1>3, <1>4, <1>5, <1>6, <1>7, <1>8, <1>9, <1>10, <1>11, <1>12, <1>13
          DEF Next

-----------------------------------------------------------------------------

\* The inductive invariant holds in every reachable state.
THEOREM MutexInvariant == Spec => []IInv
  <1>1. Init => IInv
    BY InitInv
  <1>2. IInv /\ [Next]_vars => IInv'
    BY NextInv
  <1> QED BY <1>1, <1>2, PTL DEF Spec

\* A thread that was told RT_EOK by rt_mutex_take and was not resumed directly holds
\* the mutex, as often as the mutex counts, and nobody else believes to: whatever the
\* hand-offs, timeouts, deletions and detaches around it, and though the mutex is
\* handed over before the new owner's take has returned.
THEOREM ExclusionCorrect == Spec => []MutualExclusion
  <1>1. IInv => MutualExclusion
    BY DEF IInv, MutualExclusion
  <1> QED BY <1>1, MutexInvariant, PTL

\* A thread that blocks in rt_mutex_take is in the list of that mutex only, however
\* often _thread_update_priority queues it anew, and the mutex has another owner, in
\* whose list it is, until the thread gets it or gives up.
THEOREM WaitersCorrect == Spec => []WaitersSound
  <1>1. IInv => WaitersSound
    BY DEF IInv, WaitersSound
  <1> QED BY <1>1, MutexInvariant, PTL

\* Every variable keeps its type: the hold count and what threads believe of it stay
\* within RT_MUTEX_HOLD_MAX, and inheritance ends at a priority of some thread.
THEOREM TypeCorrect == Spec => []TypeOK
  <1>1. IInv => TypeOK
    <2> SUFFICES ASSUME IInv, NEW t \in Thread \ nudged PROVE held[t] \in [Mutex -> 0 .. HOLD_MAX]
      BY DEF IInv, Types, TypeOK, Rank
    <2>1. ASSUME NEW m \in Mutex PROVE held[t][m] \in 0 .. HOLD_MAX
      <3>1. CASE m \in live
        <4>1. held[t][m] = 0 \/ held[t][m] = hold[m]
          BY <3>1 DEF IInv, Exclusion
        <4>2. hold[m] \in 0 .. HOLD_MAX /\ 0 \in 0 .. HOLD_MAX
          BY MutexAssumption DEF IInv, Types
        <4> QED BY <4>1, <4>2
      <3>2. CASE m \notin live
        BY <3>2 DEF IInv, BeliefBounded
      <3> QED BY <3>1, <3>2
    <2>2. held[t] \in [Mutex -> Int]
      BY DEF IInv, Types
    <2> QED BY <2>1, <2>2
  <1> QED BY <1>1, MutexInvariant, PTL

-----------------------------------------------------------------------------
(* The order of the waiters and the priorities that follow from it.          *)

\* A priority is a number below that of nobody.
LEMMA PriorityIs ==
    ASSUME NEW pr \in [Thread -> PRIORITIES], NEW u \in Thread
    PROVE  pr[u] \in PRIORITIES /\ pr[u] \in Nat /\ pr[u] < PRIO_NONE /\ pr[u] <= PRIO_NONE
  <1>1. pr[u] \in PRIORITIES
    OBVIOUS
  <1>2. PRIO_NONE \in Nat /\ pr[u] \in Nat /\ pr[u] < PRIO_NONE
    BY <1>1, RanksAre
  <1> QED BY <1>1, <1>2

\* The pairs of threads that are in order by the priorities pr, whatever that of x is.
NotAfter(pr, x) == {e \in Thread \X Thread : x \in {e[1], e[2]} \/ pr[e[1]] <= pr[e[2]]}

\* A list in order by the priorities pr, if x is not looked at.
Sorted(list, pr, x) == Ordered(list, NotAfter(pr, x))

\* A list in order, by positions.
LEMMA SortedAre ==
    ASSUME NEW list \in Seq(Thread), NEW pr, NEW x
    PROVE  Sorted(list, pr, x) <=>
             \A i, j \in 1 .. Len(list) :
                i < j => x \in {list[i], list[j]} \/ pr[list[i]] <= pr[list[j]]
  <1>1. \A i \in 1 .. Len(list) : list[i] \in Thread
    OBVIOUS
  <1>2. \A u, v \in Thread : <<u, v>> \in NotAfter(pr, x) <=> x \in {u, v} \/ pr[u] <= pr[v]
    BY DEF NotAfter
  <1> QED BY <1>1, <1>2 DEF Sorted, Ordered

\* Without x the list is in order: nobody else has to move.
LEMMA UnlinkSorted ==
    ASSUME NEW list \in Seq(Thread), IsInjective(list), NEW pr, NEW x, NEW y, Sorted(list, pr, x),
           x = y \/ x = None
    PROVE  Sorted(Unlink(list, y), pr, None)
  <1> DEFINE r == Unlink(list, y)
  <1>1. r \in Seq(Thread) /\ Range(r) = Range(list) \ {y}
    BY UnlinkUnlinks
  <1>2. Ordered(r, NotAfter(pr, x))
    BY UnlinkOrdered DEF Sorted
  <1> HIDE DEF r
  <1>3. Range(r) \subseteq Thread
    BY <1>1, ListEmpty
  <1>4. ASSUME NEW u \in Range(r), NEW v \in Range(r), <<u, v>> \in NotAfter(pr, x)
        PROVE  <<u, v>> \in NotAfter(pr, None)
    <2>1. u \in Thread /\ v \in Thread /\ (x \in {u, v} \/ pr[u] <= pr[v])
      BY <1>3, <1>4 DEF NotAfter
    <2>2. x \notin {u, v}
      BY <1>1, <2>1, NoneIsNot
    <2> QED BY <2>1, <2>2 DEF NotAfter
  <1> QED BY <1>1, <1>2, <1>4, OrderedKept DEF r, Sorted

\* _ipc_list_suspend puts a thread where it belongs.
LEMMA EnqueueSorted ==
    ASSUME NEW list \in Seq(Thread), NEW t \in Thread, NEW pr \in [Thread -> PRIORITIES],
           Sorted(list, pr, None)
    PROVE  Sorted(Enqueue(list, t, "PRIO", pr), pr, None)
  <1> DEFINE k == ScanStop(list, t, pr)
  <1>1. pr \in [Thread -> Nat]
    BY RanksAre
  <1>2. /\ k \in 1 .. Len(list) + 1
        /\ \A j \in 1 .. Len(list) : j < k => pr[list[j]] <= pr[t]
        /\ k <= Len(list) => pr[t] < pr[list[k]]
    BY <1>1, ScanStops
  <1>3. Enqueue(list, t, "PRIO", pr) = LinkAt(list, k, t)
    BY DEF Enqueue
  <1> HIDE DEF k
  <1>4. \A i \in 1 .. Len(list) : list[i] \in Thread /\ pr[list[i]] \in Nat
    BY <1>1
  <1>5. \A i, j \in 1 .. Len(list) : i < j => pr[list[i]] <= pr[list[j]]
    BY <1>4, SortedAre, NoneIsNot
  <1>6. ASSUME NEW j \in 1 .. Len(list), j < k PROVE <<list[j], t>> \in NotAfter(pr, None)
    BY <1>2, <1>4, <1>6 DEF NotAfter
  <1>7. ASSUME NEW j \in 1 .. Len(list), k <= j PROVE <<t, list[j]>> \in NotAfter(pr, None)
    <2>1. k \in 1 .. Len(list) /\ pr[t] < pr[list[k]]
      BY <1>2, <1>7
    <2>2. k = j \/ pr[list[k]] <= pr[list[j]]
      BY <1>5, <1>7, <2>1
    <2>3. pr[t] <= pr[list[j]]
      BY <1>1, <1>4, <2>1, <2>2
    <2> QED BY <1>4, <2>3 DEF NotAfter
  <1>8. Ordered(LinkAt(list, k, t), NotAfter(pr, None))
    BY <1>2, <1>6, <1>7, LinkAtOrdered DEF Sorted
  <1> QED BY <1>3, <1>8 DEF Sorted

\* The first waiter of a list in order is the most urgent one.
LEMMA HeadIsLeast ==
    ASSUME NEW list \in Seq(Thread), NEW pr \in [Thread -> PRIORITIES], Sorted(list, pr, None)
    PROVE  /\ HeadPriority(list, pr) \in Nat /\ HeadPriority(list, pr) <= PRIO_NONE
           /\ \A u \in Range(list) : HeadPriority(list, pr) <= pr[u]
           /\ \/ list = <<>> /\ HeadPriority(list, pr) = PRIO_NONE
              \/ \E u \in Range(list) : HeadPriority(list, pr) = pr[u]
  <1>1. CASE list = <<>>
    <2>1. Range(list) = {} /\ HeadPriority(list, pr) = PRIO_NONE /\ PRIO_NONE \in Nat
      BY <1>1, ListEmpty, RanksAre DEF HeadPriority
    <2> QED BY <1>1, <2>1
  <1>2. CASE list # <<>>
    <2>1. /\ Len(list) >= 1 /\ Head(list) = list[1] /\ list[1] \in Thread
          /\ HeadPriority(list, pr) = pr[list[1]] /\ list[1] \in Range(list)
      BY <1>2, ListEmpty DEF HeadPriority
    <2>2. ASSUME NEW u \in Range(list) PROVE pr[list[1]] <= pr[u]
      <3>1. PICK i \in 1 .. Len(list) : list[i] = u
        BY RangeByIndex
      <3>2. u \in Thread /\ pr[u] \in Nat
        BY <3>1, PriorityIs
      <3>3. i = 1 \/ pr[list[1]] <= pr[u]
        BY <2>1, <3>1, SortedAre, NoneIsNot
      <3> QED BY <3>1, <3>2, <3>3
    <2>3. pr[list[1]] \in Nat /\ pr[list[1]] <= PRIO_NONE
      BY <2>1, PriorityIs
    <2> QED BY <2>1, <2>2, <2>3
  <1> QED BY <1>1, <1>2

\* Only who waits and with which priorities matters to the first one's.
LEMMA HeadKept ==
    ASSUME NEW list \in Seq(Thread), NEW pr, NEW pr2, \A u \in Range(list) : pr[u] = pr2[u]
    PROVE  HeadPriority(list, pr) = HeadPriority(list, pr2)
  BY ListEmpty DEF HeadPriority

\* With fewer waiters the first one is no more urgent.
LEMMA HeadOfFewer ==
    ASSUME NEW a \in Seq(Thread), NEW b \in Seq(Thread), NEW pr \in [Thread -> PRIORITIES],
           Sorted(a, pr, None), Sorted(b, pr, None), Range(b) \subseteq Range(a)
    PROVE  HeadPriority(a, pr) <= HeadPriority(b, pr)
  <1>1. HeadPriority(a, pr) <= PRIO_NONE /\ \A u \in Range(a) : HeadPriority(a, pr) <= pr[u]
    BY HeadIsLeast
  <1>2. \/ HeadPriority(b, pr) = PRIO_NONE
        \/ \E u \in Range(b) : HeadPriority(b, pr) = pr[u]
    BY HeadIsLeast
  <1> QED BY <1>1, <1>2

\* _thread_get_mutex_priority finds the most urgent of what asks for a priority.
LEMMA GetIsLeast ==
    ASSUME NEW t \in Thread, NEW tk \in SUBSET Mutex, NEW mp \in [Mutex -> Rank],
           NEW ceil \in [Mutex -> Rank]
    PROVE  /\ GetMutexPriority(t, tk, mp, ceil) \in PRIORITIES
           /\ GetMutexPriority(t, tk, mp, ceil) \in Nat
           /\ GetMutexPriority(t, tk, mp, ceil) <= InitPrio[t]
           /\ \A m \in tk : /\ GetMutexPriority(t, tk, mp, ceil) <= mp[m]
                            /\ GetMutexPriority(t, tk, mp, ceil) <= ceil[m]
           /\ \/ GetMutexPriority(t, tk, mp, ceil) = InitPrio[t]
              \/ \E m \in tk : GetMutexPriority(t, tk, mp, ceil) = MinOf(mp[m], ceil[m])
  <1> DEFINE all == {InitPrio[t]} \cup {MinOf(mp[m], ceil[m]) : m \in tk}
             p == CHOOSE x \in all : \A q \in all : x <= q
  <1>1. InitPrio[t] \in PRIORITIES /\ InitPrio[t] \in all
    BY RanksAre
  <1>2. \A m \in tk : MinOf(mp[m], ceil[m]) \in Rank /\ MinOf(mp[m], ceil[m]) \in all
    BY MinOfRanks
  <1>3. all \subseteq Rank
    BY <1>1, <1>2 DEF Rank
  <1>4. all \in SUBSET Nat /\ all # {}
    BY <1>1, <1>3, RanksAre
  <1>5. p = GetMutexPriority(t, tk, mp, ceil)
    BY DEF GetMutexPriority
  <1>6. \A x \in all : x = InitPrio[t] \/ \E m \in tk : x = MinOf(mp[m], ceil[m])
    OBVIOUS
  <1> HIDE DEF all
  <1>7. \E x \in all : \A q \in all : x <= q
    BY <1>4, MinimumExists
  <1>8. p \in all /\ \A q \in all : p <= q
    BY <1>7
  <1> HIDE DEF p
  <1>9. p \in Nat /\ p <= InitPrio[t] /\ (p = InitPrio[t] \/ \E m \in tk : p = MinOf(mp[m], ceil[m]))
    BY <1>1, <1>4, <1>6, <1>8
  <1>10. ASSUME NEW m \in tk PROVE p <= mp[m] /\ p <= ceil[m]
    <2>1. p <= MinOf(mp[m], ceil[m])
      BY <1>2, <1>8
    <2>2. mp[m] \in Rank /\ ceil[m] \in Rank
      OBVIOUS
    <2>3. mp[m] \in Nat /\ ceil[m] \in Nat
      BY <2>2, RanksAre
    <2> QED BY <1>9, <2>1, <2>3 DEF MinOf
  <1>11. p \in PRIORITIES
    BY <1>5, MutexPriorityType
  <1> QED BY <1>5, <1>9, <1>10, <1>11

\* It depends on the mutexes in the thread's list only.
LEMMA GetSame ==
    ASSUME NEW t \in Thread, NEW tk, NEW mp, NEW mp2, NEW ceil, NEW ceil2,
           \A m \in tk : mp[m] = mp2[m] /\ ceil[m] = ceil2[m]
    PROVE  GetMutexPriority(t, tk, mp, ceil) = GetMutexPriority(t, tk, mp2, ceil2)
  <1>1. {MinOf(mp[m], ceil[m]) : m \in tk} = {MinOf(mp2[m], ceil2[m]) : m \in tk}
    OBVIOUS
  <1> QED BY <1>1 DEF GetMutexPriority

\* More mutexes, or more urgent ones, ask for no less.
LEMMA GetMore ==
    ASSUME NEW t \in Thread, NEW tk \in SUBSET Mutex, NEW tk2 \in SUBSET Mutex, tk \subseteq tk2,
           NEW mp \in [Mutex -> Rank], NEW mp2 \in [Mutex -> Rank], NEW ceil \in [Mutex -> Rank],
           \A m \in tk : mp2[m] <= mp[m]
    PROVE  GetMutexPriority(t, tk2, mp2, ceil) <= GetMutexPriority(t, tk, mp, ceil)
  <1> DEFINE a == GetMutexPriority(t, tk, mp, ceil)
             b == GetMutexPriority(t, tk2, mp2, ceil)
  <1>1. /\ a \in Nat /\ (a = InitPrio[t] \/ \E m \in tk : a = MinOf(mp[m], ceil[m]))
    BY GetIsLeast
  <1>2. b \in Nat /\ b <= InitPrio[t] /\ \A m \in tk2 : b <= mp2[m] /\ b <= ceil[m]
    BY GetIsLeast
  <1> HIDE DEF a, b
  <1>3. ASSUME NEW m \in tk, a = MinOf(mp[m], ceil[m]) PROVE b <= a
    <2>1. mp[m] \in Rank /\ ceil[m] \in Rank /\ mp2[m] \in Rank /\ m \in tk2
      OBVIOUS
    <2>2. mp[m] \in Nat /\ ceil[m] \in Nat /\ mp2[m] \in Nat
      BY <2>1, RanksAre
    <2>3. b <= mp2[m] /\ b <= ceil[m] /\ mp2[m] <= mp[m]
      BY <1>2, <2>1
    <2>4. a = mp[m] \/ a = ceil[m]
      BY <1>3 DEF MinOf
    <2> QED BY <1>2, <2>2, <2>3, <2>4
  <1>4. b <= a
    BY <1>1, <1>2, <1>3
  <1> QED BY <1>4 DEF a, b

-----------------------------------------------------------------------------
(* What the loop of _thread_update_priority establishes.                     *)

\* By wait, each thread is in the list of the mutex it waits for and in no other; the
\* mutex is in the list of its owner, another thread, and in no other.
Chains(wait, list, tk) ==
    /\ wait \in [Thread -> Mutex \cup {None}]
    /\ \A u \in Thread, m \in Mutex : u \in Range(list[m]) <=> wait[u] = m
    /\ \A u \in Thread : wait[u] # None =>
          /\ owner[wait[u]] \in Thread \ {u}
          /\ wait[u] \in tk[owner[wait[u]]]
    /\ \A u \in Thread : \A m \in tk[u] : owner[m] = u

\* A thread is never less urgent than it was made, nor than its mutexes ask for; the
\* threads in S are not more urgent than their mutexes and ceilings ask for.
Inherited(c, tk, ceil, S) ==
    /\ \A u \in Thread : c.prio[u] <= InitPrio[u]
    /\ \A u \in Thread : \A m \in tk[u] : c.prio[u] <= c.mprio[m]
    /\ \A u \in S : GetMutexPriority(u, tk[u], c.mprio, ceil) <= c.prio[u]

\* The lists are in order but for c.t; a mutex is as urgent as its first waiter, and
\* those in X are not more urgent, but for the one c.t waits for.
Queued(c, wait, X) ==
    /\ \A m \in Mutex : Sorted(c.waiters[m], c.prio, c.t)
    /\ \A m \in Mutex : c.t = None \/ wait[c.t] # m =>
          /\ c.mprio[m] <= HeadPriority(c.waiters[m], c.prio)
          /\ m \in X => c.mprio[m] = HeadPriority(c.waiters[m], c.prio)

\* A list stays in order when only priorities of others, or that of y, change.
LEMMA SortedMoved ==
    ASSUME NEW list \in Seq(Thread), NEW pr, NEW pr2, NEW x, NEW y, Sorted(list, pr, x),
           x \notin Range(list), \A u \in Range(list) : u # y => pr[u] = pr2[u]
    PROVE  Sorted(list, pr2, y)
  <1>1. \A i \in 1 .. Len(list) : list[i] \in Range(list)
    BY RangeByIndex
  <1> QED BY <1>1, SortedAre

\* From k to r the loop looks at another thread and gives it another priority.
GoesOn(k, r) ==
    r.t # None => /\ k.t # None /\ r.t \in Thread
                  /\ r.prio[r.t] # k.prio[r.t] /\ r.prio[r.t] <= k.prio[k.t]
                  /\ \A u \in Thread : u # r.t => r.prio[u] = k.prio[u]

\* One round of the loop: the mutex is right, and its owner is looked at next.  The
\* owner's new priority differs from its old one and is no less urgent than the one that
\* the round began with.
LEMMA PropagateInherits ==
    ASSUME owner \in [Mutex -> Thread \cup {None}],
           NEW list \in [Mutex -> Seq(Thread)], NEW k, Requeued(k, list), NEW wait,
           NEW tk \in [Thread -> SUBSET Mutex], NEW ceil \in [Mutex -> Rank],
           Chains(wait, list, tk), k.t # None, wait[k.t] # None,
           NEW S \in SUBSET Thread, NEW X, Inherited(k, tk, ceil, S), Queued(k, wait, X),
           NEW r, Requeued(r, list), PropagateFields(k, r, wait, tk, ceil)
    PROVE  /\ Inherited(r, tk, ceil, S) /\ Queued(r, wait, X)
           /\ GoesOn(k, r)
  <1> DEFINE t == k.t
             m == wait[t]
             q == Enqueue(Unlink(k.waiters[m], t), t, "PRIO", k.prio)
             h == HeadPriority(q, k.prio)
             mp == [k.mprio EXCEPT ![m] = h]
             o == owner[m]
             p == GetMutexPriority(o, tk[o], mp, ceil)
  <1>1. /\ k \in Values /\ t \in Thread /\ k.waiters \in [Mutex -> Seq(Thread)]
        /\ k.prio \in [Thread -> PRIORITIES] /\ k.mprio \in [Mutex -> Rank]
        /\ r \in Values /\ r.waiters \in [Mutex -> Seq(Thread)]
    BY ValuesAre DEF Requeued
  <1>2. \A n \in Mutex : /\ IsInjective(k.waiters[n]) /\ Range(k.waiters[n]) = Range(list[n])
                         /\ Range(r.waiters[n]) = Range(list[n])
    BY DEF Requeued
  <1>3. /\ m \in Mutex /\ o \in Thread /\ o # t /\ m \in tk[o]
        /\ t \in Range(list[m])
    BY <1>1 DEF Chains
  <1>4. o \notin Range(list[m])
    BY <1>3 DEF Chains
  <1>5. \A n \in Mutex : n # m => t \notin Range(list[n])
    BY <1>1 DEF Chains
  <1>6. /\ r.waiters = [k.waiters EXCEPT ![m] = q] /\ r.mprio = mp
        /\ \/ p = k.prio[o] /\ r.prio = k.prio /\ r.t = None
           \/ p # k.prio[o] /\ r.prio = [k.prio EXCEPT ![o] = p] /\ r.t = o
    BY Zenon DEF PropagateFields
  <1>7. q \in Seq(Thread) /\ Range(q) = Range(list[m])
    BY <1>1, <1>2, <1>3, <1>6
  <1>8. Sorted(q, k.prio, None)
    <2>1. /\ k.waiters[m] \in Seq(Thread) /\ IsInjective(k.waiters[m])
          /\ Sorted(k.waiters[m], k.prio, t)
      BY <1>1, <1>2, <1>3 DEF Queued
    <2>2. Unlink(k.waiters[m], t) \in Seq(Thread) /\ Sorted(Unlink(k.waiters[m], t), k.prio, None)
      BY <2>1, UnlinkUnlinks, UnlinkSorted
    <2> QED BY <1>1, <2>2, EnqueueSorted
  <1> HIDE DEF q
  <1>9. h \in Rank /\ h \in Nat /\ h <= k.prio[t]
    BY <1>1, <1>3, <1>7, <1>8, HeadIsLeast, HeadPriorityRank
  <1> HIDE DEF h, t, m, o
  <1>10. mp \in [Mutex -> Rank] /\ \A n \in Mutex : mp[n] = IF n = m THEN h ELSE k.mprio[n]
    BY <1>1, <1>3, <1>9
  <1> HIDE DEF mp
  <1>11. /\ p \in Nat /\ p <= InitPrio[o] /\ \A n \in tk[o] : p <= mp[n]
    BY <1>3, <1>10, GetIsLeast
  <1>12. p <= k.prio[t]
    <2>1. p <= h
      BY <1>3, <1>10, <1>11
    <2>2. k.prio[t] \in Nat
      BY <1>1, PriorityIs DEF t
    <2> QED BY <1>9, <1>11, <2>1, <2>2
  <1> HIDE DEF p
  <1>13. /\ r.prio[o] = p
         /\ \A u \in Thread : u # o => r.prio[u] = k.prio[u]
    BY <1>1, <1>3, <1>6
  <1>14. Inherited(r, tk, ceil, S)
    <2>1. ASSUME NEW u \in Thread
          PROVE  /\ r.prio[u] <= InitPrio[u] /\ \A n \in tk[u] : r.prio[u] <= r.mprio[n]
                 /\ u \in S => GetMutexPriority(u, tk[u], r.mprio, ceil) <= r.prio[u]
      <3>1. CASE u = o
        BY <3>1, <1>6, <1>11, <1>13 DEF p
      <3>2. CASE u # o
        <4>1. \A n \in tk[u] : n \in Mutex /\ n # m
          BY <3>2 DEF Chains, o
        <4>2. \A n \in tk[u] : r.mprio[n] = k.mprio[n]
          BY <4>1, <1>6, <1>10
        <4>3. GetMutexPriority(u, tk[u], r.mprio, ceil) = GetMutexPriority(u, tk[u], k.mprio, ceil)
          BY <4>2, GetSame
        <4>4. r.prio[u] = k.prio[u]
          BY <3>2, <1>13
        <4> QED BY <4>2, <4>3, <4>4 DEF Inherited
      <3> QED BY <3>1, <3>2
    <2> QED BY <2>1 DEF Inherited
  <1>15. \A n \in Mutex : r.waiters[n] = IF n = m THEN q ELSE k.waiters[n]
    BY <1>1, <1>3, <1>6, <1>7
  <1>16. ASSUME NEW n \in Mutex PROVE Sorted(r.waiters[n], r.prio, r.t)
    <2>1. CASE n = m
      <3>1. \A u \in Range(q) : u \in Thread /\ k.prio[u] = r.prio[u]
        BY <1>4, <1>7, <1>13, ListEmpty DEF m, o
      <3>2. None \notin Range(q)
        BY <3>1, NoneIsNot
      <3>3. Sorted(q, r.prio, r.t)
        BY <3>1, <3>2, <1>7, <1>8, SortedMoved
      <3> QED BY <2>1, <3>3, <1>15
    <2>2. CASE n # m
      <3>1. r.waiters[n] = k.waiters[n] /\ k.waiters[n] \in Seq(Thread)
        BY <2>2, <1>1, <1>15
      <3>2. Sorted(k.waiters[n], k.prio, t) /\ t \notin Range(k.waiters[n])
        BY <2>2, <1>2, <1>5 DEF Queued, m, t
      <3>3. \A u \in Range(k.waiters[n]) : u \in Thread /\ (u # r.t => k.prio[u] = r.prio[u])
        BY <3>1, <1>6, <1>13, ListEmpty
      <3> QED BY <3>1, <3>2, <3>3, SortedMoved
    <2> QED BY <2>1, <2>2
  <1>17. ASSUME NEW n \in Mutex, r.t = None \/ wait[r.t] # n
         PROVE  /\ r.mprio[n] <= HeadPriority(r.waiters[n], r.prio)
                /\ n \in X => r.mprio[n] = HeadPriority(r.waiters[n], r.prio)
    <2>1. ASSUME NEW u \in Range(r.waiters[n]) PROVE k.prio[u] = r.prio[u]
      <3>1. u \in Thread /\ wait[u] = n
        BY <1>1, <1>2, ListEmpty DEF Chains
      <3>2. u # o \/ r.prio = k.prio
        BY <3>1, <1>3, <1>6, <1>17, NoneIsNot
      <3> QED BY <3>1, <3>2, <1>13
    <2>2. HeadPriority(r.waiters[n], r.prio) = HeadPriority(r.waiters[n], k.prio)
      BY <2>1, <1>1, HeadKept
    <2>3. CASE n = m
      <3>1. r.mprio[n] = h /\ HeadPriority(r.waiters[n], k.prio) = h
        BY <2>3, <1>6, <1>10, <1>15 DEF h
      <3> QED BY <3>1, <2>2, <1>9
    <2>4. CASE n # m
      <3>1. r.mprio[n] = k.mprio[n] /\ r.waiters[n] = k.waiters[n]
        BY <2>4, <1>6, <1>10, <1>15
      <3>2. /\ k.mprio[n] <= HeadPriority(k.waiters[n], k.prio)
            /\ n \in X => k.mprio[n] = HeadPriority(k.waiters[n], k.prio)
        BY <2>4 DEF Queued, m, t
      <3> QED BY <3>1, <3>2, <2>2
    <2> QED BY <2>3, <2>4
  <1>18. Queued(r, wait, X)
    BY <1>16, <1>17 DEF Queued
  <1>19. GoesOn(k, r)
    BY <1>3, <1>6, <1>12, <1>13 DEF t, GoesOn
  <1> QED BY <1>14, <1>18, <1>19

\* Everybody is in a list where the loop may find them.
LEMMA ChainsWait ==
    ASSUME NEW list, NEW wait, NEW tk, Chains(wait, list, tk)
    PROVE  WaitsIn(wait, list)
  BY DEF Chains, WaitsIn

\* A round keeps what the loop has established; if it goes on, with another thread.
LEMMA RoundInherits ==
    ASSUME owner \in [Mutex -> Thread \cup {None}],
           NEW list \in [Mutex -> Seq(Thread)], NEW k, Requeued(k, list), NEW wait,
           NEW tk \in [Thread -> SUBSET Mutex], NEW ceil \in [Mutex -> Rank],
           Chains(wait, list, tk), NEW S \in SUBSET Thread, NEW X,
           Inherited(k, tk, ceil, S), Queued(k, wait, X)
    PROVE  LET r == Round(k, wait, tk, ceil)
           IN  /\ Inherited(r, tk, ceil, S) /\ Queued(r, wait, X)
               /\ GoesOn(k, r)
  <1> DEFINE r == Round(k, wait, tk, ceil)
  <1>1. CASE k.t = None \/ wait[k.t] = None
    <2>1. r = WithThread(k, None)
      BY <1>1, Zenon DEF Round
    <2>2. k \in Values /\ None \in Thread \cup {None}
      BY DEF Requeued
    <2>3. r.prio = k.prio /\ r.mprio = k.mprio /\ r.waiters = k.waiters /\ r.t = None
      BY ONLY <2>1, <2>2, ThreadSet
    <2> HIDE DEF r
    <2>4. Inherited(r, tk, ceil, S)
      BY <2>3 DEF Inherited
    <2>5. k.waiters \in [Mutex -> Seq(Thread)] /\ k.t \in Thread \cup {None}
      BY <2>2, ValuesAre
    <2>6. ASSUME NEW n \in Mutex PROVE Sorted(r.waiters[n], r.prio, None)
      <3>1. k.waiters[n] \in Seq(Thread) /\ Sorted(k.waiters[n], k.prio, k.t)
        BY <2>5 DEF Queued
      <3>2. Range(k.waiters[n]) = Range(list[n]) /\ Range(k.waiters[n]) \subseteq Thread
        BY <3>1, ListEmpty DEF Requeued
      <3>3. k.t \notin Range(k.waiters[n])
        BY <3>2, <2>5, <1>1, NoneIsNot DEF Chains
      <3> QED BY <3>1, <3>3, <2>3, SortedMoved
    <2>7. \A n \in Mutex : k.t = None \/ wait[k.t] # n
      BY <1>1, NoneIsNot
    <2>8. Queued(r, wait, X)
      BY <2>3, <2>6, <2>7 DEF Queued
    <2> QED BY <2>3, <2>4, <2>8 DEF r, GoesOn
  <1>2. CASE ~(k.t = None \/ wait[k.t] = None)
    <2>1. r = Propagate(k, wait, tk, ceil)
      BY <1>2, Zenon DEF Round
    <2>2. k.t # None /\ wait[k.t] # None /\ WaitsIn(wait, list)
      BY <1>2, ChainsWait
    <2>3. PropagateFields(k, r, wait, tk, ceil) /\ Requeued(r, list)
      BY <2>1, <2>2, PropagateKeeps
    <2> HIDE DEF r
    <2>4. Inherited(r, tk, ceil, S) /\ Queued(r, wait, X) /\ GoesOn(k, r)
      BY <2>2, <2>3, PropagateInherits
    <2> QED BY <2>4 DEF r
  <1> QED BY <1>1, <1>2

\* What was given so far, as pairs of a thread and a priority: as many as there were
\* rounds, none less urgent than what those threads have now, and nothing is more urgent
\* than what was given last.
Given(c, E) ==
    /\ E \subseteq Thread \X PRIORITIES
    /\ \A e \in E : /\ c.prio[e[1]] <= e[2]
                    /\ c.prio[c.t] <= c.prio[e[1]]

\* The loop goes on only by giving a thread a priority that it was not given before.
LEMMA GivenAnew ==
    ASSUME NEW k \in Values, NEW r \in Values, GoesOn(k, r), r.t # None,
           NEW E, Given(k, E), IsFiniteSet(E)
    PROVE  \E F : /\ Given(r, F) /\ IsFiniteSet(F)
                  /\ Cardinality(F) = Cardinality(E) + 1
  <1> DEFINE o == r.t
             p == r.prio[o]
             F == E \cup {<<o, p>>}
  <1>1. /\ k.prio \in [Thread -> PRIORITIES] /\ r.prio \in [Thread -> PRIORITIES]
        /\ k.t \in Thread /\ o \in Thread /\ p # k.prio[o] /\ p <= k.prio[k.t]
        /\ \A u \in Thread : u # o => r.prio[u] = k.prio[u]
    BY ValuesAre DEF GoesOn
  <1>2. \A u \in Thread : k.prio[u] \in Nat /\ r.prio[u] \in Nat /\ r.prio[u] \in PRIORITIES
    BY <1>1, PriorityIs
  <1>3. \A e \in E : e \in Thread \X PRIORITIES /\ e[1] \in Thread /\ e[2] \in Nat
    BY RanksAre DEF Given
  <1>4. <<o, p>> \notin E
    <2> SUFFICES ASSUME <<o, p>> \in E PROVE FALSE
      OBVIOUS
    <2>1. k.prio[o] <= p /\ k.prio[k.t] <= k.prio[o]
      BY DEF Given
    <2> QED BY <2>1, <1>1, <1>2
  <1>5. ASSUME NEW e \in F PROVE r.prio[e[1]] <= e[2] /\ p <= r.prio[e[1]]
    <2>1. CASE e = <<o, p>>
      BY <2>1, <1>1, <1>2
    <2>2. CASE e \in E
      <3>1. k.prio[e[1]] <= e[2] /\ k.prio[k.t] <= k.prio[e[1]] /\ e[1] \in Thread /\ e[2] \in Nat
        BY <2>2, <1>3 DEF Given
      <3>2. CASE e[1] = o
        BY <3>1, <3>2, <1>1, <1>2
      <3>3. CASE e[1] # o
        BY <3>1, <3>3, <1>1, <1>2
      <3> QED BY <3>2, <3>3
    <2> QED BY <2>1, <2>2
  <1>6. Given(r, F)
    BY <1>1, <1>2, <1>3, <1>5 DEF Given
  <1>7. IsFiniteSet(F) /\ Cardinality(F) = Cardinality(E) + 1
    BY <1>4, FS_AddElement
  <1> QED BY <1>6, <1>7

\* n rounds that have not come to an end have given n + 1 priorities.
Progress(c, n) ==
    c.t # None => \E E : Given(c, E) /\ IsFiniteSet(E) /\ Cardinality(E) = n + 1

\* What holds at the beginning of each round, and at the end.
LoopInv(c, list, wait, tk, ceil, S, X) ==
    Requeued(c, list) /\ Inherited(c, tk, ceil, S) /\ Queued(c, wait, X)

\* What the loop is started with, to give t the priority p.
LoopStart(k, t, p, list, wait, tk, ceil, S, X) ==
    /\ owner \in [Mutex -> Thread \cup {None}] /\ list \in [Mutex -> Seq(Thread)]
    /\ tk \in [Thread -> SUBSET Mutex] /\ ceil \in [Mutex -> Rank] /\ S \in SUBSET Thread
    /\ Chains(wait, list, tk)
    /\ k \in Values /\ t \in Thread /\ p \in PRIORITIES
    /\ LoopInv(WithPriority(k, t, p), list, wait, tk, ceil, S, X)

LoopEnd(r, list, wait, tk, ceil, S, X) ==
    LoopInv(r, list, wait, tk, ceil, S, X) /\ r.t = None

\* _thread_update_priority, started where inheritance may start it, comes to its end
\* within Rounds rounds, also when the threads wait for each other in a circle, and leaves
\* every list in order, every mutex with the priority of its first waiter, and every owner
\* with what its mutexes ask for: it gives no thread the same priority twice.
THEOREM UpdateInherits ==
    ASSUME NEW k, NEW t, NEW p, NEW list, NEW wait, NEW tk, NEW ceil, NEW S, NEW X,
           LoopStart(k, t, p, list, wait, tk, ceil, S, X)
    PROVE  LoopEnd(UpdatePriority(k, t, p, wait, tk, ceil), list, wait, tk, ceil, S, X)
  <1> DEFINE a == WithPriority(k, t, p)
             r == UpdatePriority(k, t, p, wait, tk, ceil)
  <1> USE DEF LoopStart
  <1>1. Rounds \in Nat
    BY RoundsAre
  <1>2. PICK h : RunOf(h, k, t, p, wait, tk, ceil, r)
    BY UpdateRounds
  <1>3. /\ h[0] = a /\ r = h[Rounds]
        /\ \A n \in 1 .. Rounds : h[n] = Round(h[n - 1], wait, tk, ceil)
    BY <1>2 DEF RunOf
  <1>4. Progress(a, 0)
    <2>1. a.prio = [k.prio EXCEPT ![t] = p] /\ a.t = t
      BY PrioritySet, PriorityGiven
    <2>2. k.prio \in [Thread -> PRIORITIES]
      BY ValuesAre
    <2>3. a.prio[t] = p /\ p \in Nat
      BY <2>1, <2>2, RanksAre
    <2> HIDE DEF a
    <2>4. Given(a, {<<t, p>>})
      BY <2>1, <2>3 DEF Given
    <2>5. IsFiniteSet({<<t, p>>}) /\ Cardinality({<<t, p>>}) = 0 + 1
      BY FS_Singleton, 0 + 1 = 1, Zenon
    <2> QED BY <2>4, <2>5 DEF Progress
  <1> HIDE DEF a, r
  <1> DEFINE Good(n) == LoopInv(h[n], list, wait, tk, ceil, S, X) /\ Progress(h[n], n)
             Bad == {n \in 0 .. Rounds : ~Good(n)}
  <1>5. Good(0)
    BY <1>3, <1>4 DEF a
  <1>6. ASSUME NEW n \in 1 .. Rounds, Good(n - 1) PROVE Good(n)
    <2> DEFINE c == h[n - 1]
               d == h[n]
    <2>1. Requeued(c, list) /\ Inherited(c, tk, ceil, S) /\ Queued(c, wait, X)
      BY <1>6 DEF LoopInv
    <2>2. d = Round(c, wait, tk, ceil)
      BY <1>3
    <2>3. Progress(c, n - 1)
      BY <1>6
    <2> HIDE DEF c, d
    <2>4. Requeued(d, list)
      BY <2>1, <2>2, ChainsWait, RoundKeeps
    <2>5. Inherited(d, tk, ceil, S) /\ Queued(d, wait, X) /\ GoesOn(c, d)
      BY <2>1, <2>2, RoundInherits
    <2>6. ASSUME d.t # None
          PROVE  \E F : Given(d, F) /\ IsFiniteSet(F) /\ Cardinality(F) = n + 1
      <3>1. c.t # None
        BY <2>5, <2>6 DEF GoesOn
      <3>2. PICK E : Given(c, E) /\ IsFiniteSet(E) /\ Cardinality(E) = (n - 1) + 1
        BY <2>3, <3>1 DEF Progress
      <3>3. c \in Values /\ d \in Values
        BY <2>1, <2>4 DEF Requeued
      <3>4. PICK F : Given(d, F) /\ IsFiniteSet(F) /\ Cardinality(F) = Cardinality(E) + 1
        BY <2>5, <2>6, <3>2, <3>3, GivenAnew
      <3>5. Cardinality(F) = n + 1
        BY <3>2, <3>4
      <3> QED BY <3>4, <3>5
    <2>7. Progress(d, n)
      BY <2>6 DEF Progress
    <2> QED BY <2>1, <2>4, <2>5, <2>7 DEF LoopInv, d
  <1> HIDE DEF Good
  <1>7. Bad = {}
    <2> SUFFICES ASSUME Bad # {} PROVE FALSE
      OBVIOUS
    <2>1. Bad \in SUBSET Nat
      BY <1>1
    <2>2. PICK n \in Bad : \A i \in Bad : n <= i
      BY <2>1, MinimumExists
    <2>3. n \in 0 .. Rounds /\ ~Good(n) /\ n # 0
      BY <2>2, <1>5
    <2>4. n \in 1 .. Rounds /\ n - 1 \in 0 .. Rounds /\ n - 1 \notin Bad
      BY <2>2, <2>3, <1>1
    <2>5. Good(n - 1)
      BY <2>4
    <2> QED BY <2>3, <2>4, <2>5, <1>6
  <1>8. Good(Rounds)
    BY <1>1, <1>7
  <1>9. LoopInv(r, list, wait, tk, ceil, S, X) /\ Progress(r, Rounds)
    BY <1>3, <1>8 DEF Good
  <1>10. r.t = None
    <2> SUFFICES ASSUME r.t # None PROVE FALSE
      OBVIOUS
    <2>1. PICK E : Given(r, E) /\ IsFiniteSet(E) /\ Cardinality(E) = Rounds + 1
      BY <1>9 DEF Progress
    <2>2. E \subseteq Thread \X PRIORITIES
      BY <2>1 DEF Given
    <2>3. Cardinality(E) <= Rounds
      BY <2>2, RoundsAre, FS_Subset
    <2> QED BY <2>1, <2>3, <1>1
  <1> QED BY <1>9, <1>10 DEF r, LoopEnd

-----------------------------------------------------------------------------
(* The priorities between the calls.                                         *)

\* What Inherited says, of the priorities pr of threads and mp of mutexes.
Lent(pr, mp, tk, ceil, S) ==
    /\ \A u \in Thread : pr[u] <= InitPrio[u]
    /\ \A u \in Thread : \A m \in tk[u] : pr[u] <= mp[m]
    /\ \A u \in S : GetMutexPriority(u, tk[u], mp, ceil) <= pr[u]

\* What Queued says when the loop has ended.
Tracks(pr, mp, w, X) ==
    \A m \in Mutex : /\ Sorted(w[m], pr, None)
                     /\ mp[m] <= HeadPriority(w[m], pr)
                     /\ m \in X => mp[m] = HeadPriority(w[m], pr)

\* A thread pending on a mutex is in the take of that mutex, and off its list only when
\* it has been told that it failed, unless rt_thread_resume woke it.
PendingSound ==
    \A t \in Thread \ nudged :
        /\ pending[t] # None /\ stat[t] # "CLOSE" => pending[t] = pc[t]
        /\ stat[t] = "READY" /\ error[t] = "EOK" => pending[t] = None

\* Threads whose priority nothing holds up any more than it should be: none of their
\* mutexes was detached while they owned it.
Settled ==
    {t \in Thread : /\ nudged = {} /\ ~skipped /\ stat[t] # "CLOSE"
                    /\ \A m \in Mutex \ live : owner[m] # t}

\* Mutexes nobody has left without having brought their priority up to date.
Tracked == {m \in live : Leaving(m) = {} /\ nudged = {}}

\* Everybody has the priority that is due, and every list and mutex follows.
Urgency == Lent(prio, mprio, taken, ceiling, Settled) /\ Tracks(prio, mprio, waiters, Tracked)

\* The inductive invariant of the priorities, beside IInv.
PriorityInv == Urgency /\ PendingSound

\* The loop may start from o with the priority p, if that fits o and everything else
\* is in order.
LEMMA UpdateFrom ==
    ASSUME Types, NEW w \in [Mutex -> Seq(Thread)], \A n \in Mutex : IsInjective(w[n]),
           NEW mp \in [Mutex -> Rank], NEW wait, NEW tk \in [Thread -> SUBSET Mutex],
           NEW ceil \in [Mutex -> Rank], Chains(wait, w, tk),
           NEW S \in SUBSET Thread, NEW X, NEW o \in Thread, NEW p \in PRIORITIES,
           Tracks(prio, mp, w, X),
           \A u \in Thread \ {o} : /\ prio[u] <= InitPrio[u]
                                   /\ \A n \in tk[u] : prio[u] <= mp[n]
                                   /\ u \in S => GetMutexPriority(u, tk[u], mp, ceil) <= prio[u],
           p <= InitPrio[o], \A n \in tk[o] : p <= mp[n],
           GetMutexPriority(o, tk[o], mp, ceil) <= p
    PROVE  LoopEnd(UpdatePriority(Now(mp, w), o, p, wait, tk, ceil), w, wait, tk, ceil, S, X)
  <1> DEFINE k == Now(mp, w)
             a == WithPriority(k, o, p)
  <1>1. prio \in [Thread -> PRIORITIES] /\ owner \in [Mutex -> Thread \cup {None}]
    BY DEF Types
  <1>2. Requeued(k, w) /\ k \in Values
    BY <1>1, NowRequeued DEF Requeued
  <1>3. k.prio = prio /\ k.mprio = mp /\ k.waiters = w
    BY DEF Now
  <1> HIDE DEF k
  <1>4. a \in Values /\ a.mprio = k.mprio /\ a.waiters = k.waiters /\ a.t = o
    BY <1>2, PrioritySet
  <1>5. a.prio = [k.prio EXCEPT ![o] = p]
    BY <1>2, PriorityGiven
  <1>6. a.prio[o] = p /\ \A u \in Thread : u # o => a.prio[u] = prio[u]
    BY <1>1, <1>3, <1>5
  <1> HIDE DEF a
  <1>7. Requeued(a, w)
    BY <1>2, <1>4 DEF Requeued
  <1>8. Inherited(a, tk, ceil, S)
    BY <1>3, <1>4, <1>6 DEF Inherited
  <1>9. ASSUME NEW n \in Mutex
        PROVE  /\ Sorted(w[n], a.prio, o)
               /\ wait[o] # n => /\ mp[n] <= HeadPriority(w[n], a.prio)
                                 /\ n \in X => mp[n] = HeadPriority(w[n], a.prio)
    <2>1. /\ w[n] \in Seq(Thread) /\ Sorted(w[n], prio, None) /\ mp[n] <= HeadPriority(w[n], prio)
          /\ n \in X => mp[n] = HeadPriority(w[n], prio)
      BY DEF Tracks
    <2>2. Range(w[n]) \subseteq Thread /\ None \notin Range(w[n])
      BY <2>1, ListEmpty, NoneIsNot
    <2>3. Sorted(w[n], a.prio, o)
      BY <2>1, <2>2, <1>6, SortedMoved
    <2>4. ASSUME wait[o] # n PROVE HeadPriority(w[n], a.prio) = HeadPriority(w[n], prio)
      <3>1. o \notin Range(w[n])
        BY <2>4 DEF Chains
      <3>2. \A u \in Range(w[n]) : a.prio[u] = prio[u]
        BY <3>1, <2>2, <1>6
      <3> QED BY <2>1, <3>2, HeadKept
    <2> QED BY <2>1, <2>3, <2>4
  <1>10. Queued(a, wait, X)
    BY <1>3, <1>4, <1>9, NoneIsNot DEF Queued
  <1>11. LoopInv(a, w, wait, tk, ceil, S, X)
    BY <1>7, <1>8, <1>10 DEF LoopInv
  <1>12. LoopStart(k, o, p, w, wait, tk, ceil, S, X)
    BY <1>1, <1>2, <1>11 DEF LoopStart, a
  <1>13. LoopEnd(UpdatePriority(k, o, p, wait, tk, ceil), w, wait, tk, ceil, S, X)
    BY ONLY <1>12, UpdateInherits
  <1> QED BY <1>13 DEF k

\* The owner is given what its mutexes ask for: then everybody has it.
LEMMA RecomputeInherits ==
    ASSUME Types, NEW w \in [Mutex -> Seq(Thread)], \A n \in Mutex : IsInjective(w[n]),
           NEW mp \in [Mutex -> Rank], NEW wait, NEW tk \in [Thread -> SUBSET Mutex],
           NEW ceil \in [Mutex -> Rank], Chains(wait, w, tk),
           NEW S \in SUBSET Thread, NEW X, NEW o \in Thread,
           Tracks(prio, mp, w, X),
           \A u \in Thread \ {o} : /\ prio[u] <= InitPrio[u]
                                   /\ \A n \in tk[u] : prio[u] <= mp[n]
                                   /\ u \in S => GetMutexPriority(u, tk[u], mp, ceil) <= prio[u]
    PROVE  LoopEnd(Recompute(Now(mp, w), o, wait, tk, ceil), w, wait, tk, ceil, S, X)
  <1> DEFINE k == Now(mp, w)
             p == GetMutexPriority(o, tk[o], mp, ceil)
             r == Recompute(k, o, wait, tk, ceil)
  <1>1. k.prio = prio /\ k.mprio = mp /\ k.waiters = w /\ k.t = None
    BY DEF Now
  <1>2. r = IF p = prio[o] THEN k ELSE UpdatePriority(k, o, p, wait, tk, ceil)
    BY <1>1, Zenon DEF Recompute
  <1>3. p \in PRIORITIES /\ p \in Nat /\ p <= InitPrio[o] /\ \A n \in tk[o] : p <= mp[n]
    BY GetIsLeast
  <1>4. CASE p = prio[o]
    <2>1. Requeued(k, w)
      BY NowRequeued DEF Types
    <2> HIDE DEF k
    <2>2. ASSUME NEW u \in Thread
          PROVE  /\ prio[u] <= InitPrio[u] /\ \A n \in tk[u] : prio[u] <= mp[n]
                 /\ u \in S => GetMutexPriority(u, tk[u], mp, ceil) <= prio[u]
      <3>1. CASE u = o
        BY <3>1, <1>3, <1>4
      <3>2. CASE u # o
        BY <3>2
      <3> QED BY <3>1, <3>2
    <2> HIDE DEF p
    <2>3. Inherited(k, tk, ceil, S)
      BY <2>2, <1>1 DEF Inherited
    <2>4. Queued(k, wait, X)
      BY <1>1 DEF Queued, Tracks
    <2>5. LoopEnd(k, w, wait, tk, ceil, S, X)
      BY <2>1, <2>3, <2>4, <1>1 DEF LoopInv, LoopEnd
    <2> QED BY <2>5, <1>2, <1>4 DEF k
  <1>5. CASE p # prio[o]
    <2>1. p <= p
      BY <1>3
    <2>2. LoopEnd(UpdatePriority(k, o, p, wait, tk, ceil), w, wait, tk, ceil, S, X)
      BY <2>1, <1>3, UpdateFrom
    <2> QED BY <2>2, <1>2, <1>5
  <1> QED BY <1>4, <1>5

\* What an action takes from the loop.
LEMMA BecomesLent ==
    ASSUME NEW r, NEW list, NEW wait, NEW tk, NEW ceil, NEW S, NEW X,
           LoopEnd(r, list, wait, tk, ceil, S, X), Becomes(r)
    PROVE  Lent(prio', mprio', tk, ceil, S) /\ Tracks(prio', mprio', waiters', X)
  <1>1. prio' = r.prio /\ mprio' = r.mprio /\ waiters' = r.waiters
    BY DEF Becomes
  <1>2. Lent(prio', mprio', tk, ceil, S)
    BY <1>1 DEF LoopEnd, LoopInv, Inherited, Lent
  <1>3. Tracks(prio', mprio', waiters', X)
    BY <1>1 DEF LoopEnd, LoopInv, Queued, Tracks
  <1> QED BY <1>2, <1>3

-----------------------------------------------------------------------------
(* The actions keep the priorities right.                                    *)

\* What a thread is pending on is left behind only by a thread that has failed.
LEMMA PendingNext ==
    ASSUME IInv, PendingSound, [Next]_vars
    PROVE  PendingSound'
  <1> USE DEF PendingSound, IInv, Types
  <1>1. CASE UNCHANGED vars
    BY <1>1 DEF vars, threadVars, history
  <1>2. ASSUME NEW t \in Thread, NEW m \in Mutex,
               TakeAgain(t, m) \/ TakeFree(t, m) \/ ReleaseAgain(t, m)
        PROVE  PendingSound'
    <2>1. /\ pc[t] = None /\ pending' = pending /\ pc' = pc /\ stat' = stat /\ nudged' = nudged
          /\ (error' = [error EXCEPT ![t] = "EOK"] \/ error' = error)
      BY <1>2 DEF TakeAgain, TakeFree, ReleaseAgain, Calls, history, threadVars
    <2> QED BY <2>1
  <1>3. ASSUME NEW t \in Thread, NEW m \in Mutex, NEW timed \in BOOLEAN, TakeBlock(t, m, timed)
        PROVE  PendingSound'
    <2>1. /\ stat' = [stat EXCEPT ![t] = "SUSPEND"] /\ pending' = [pending EXCEPT ![t] = m]
          /\ pc' = [pc EXCEPT ![t] = m] /\ error' = [error EXCEPT ![t] = "EOK"]
          /\ nudged' = nudged
      BY <1>3 DEF TakeBlock, history
    <2> QED BY <2>1
  <1>4. ASSUME NEW t \in Thread, NEW m \in Mutex, Release(t, m) PROVE PendingSound'
    <2>1. /\ pc' = pc /\ error' = error /\ nudged' = nudged
          /\ \/ pending' = pending /\ stat' = stat
             \/ \E n : /\ pending' = [pending EXCEPT ![n] = None]
                       /\ stat' = [stat EXCEPT ![n] = "READY"]
      BY <1>4 DEF Release, history
    <2> QED BY <2>1
  <1>5. ASSUME NEW t \in Thread, TakeReturn(t) PROVE PendingSound'
    <2>1. /\ stat[t] = "READY" /\ error[t] = "EOK" /\ pc' = [pc EXCEPT ![t] = None]
          /\ pending' = pending /\ stat' = stat /\ error' = error /\ nudged' = nudged
      BY <1>5 DEF TakeReturn, Runs, history
    <2> QED BY <2>1
  <1>6. ASSUME NEW t \in Thread, TakeFail(t) PROVE PendingSound'
    <2>1. /\ pc' = [pc EXCEPT ![t] = None] /\ pending' = [pending EXCEPT ![t] = None]
          /\ stat' = stat /\ error' = error /\ nudged' = nudged
      BY <1>6 DEF TakeFail
    <2> QED BY <2>1
  <1>7. ASSUME NEW t \in Thread, Timeout(t) PROVE PendingSound'
    <2>1. /\ error' = [error EXCEPT ![t] = "ETIMEOUT"] /\ stat' = [stat EXCEPT ![t] = "READY"]
          /\ pending' = pending /\ pc' = pc /\ nudged' = nudged /\ stat[t] = "SUSPEND"
      BY <1>7 DEF Timeout, history, WaitSound
    <2> QED BY <2>1
  <1>8. ASSUME NEW t \in Thread, ResumeUnlink(t) \/ ResumeInsert(t) PROVE PendingSound'
    <2>1. CASE ResumeUnlink(t)
      <3>1. /\ nudged' = nudged \cup {t} /\ stat' = stat
            /\ pending' = pending /\ pc' = pc /\ error' = error
        BY <2>1 DEF ResumeUnlink
      <3> QED BY <3>1
    <2>2. CASE ResumeInsert(t)
      <3>1. /\ nudged' = nudged /\ stat' = [stat EXCEPT ![t] = "READY"]
            /\ pending' = pending /\ pc' = pc /\ error' = error /\ op[t] = "unlinked"
        BY <2>2 DEF ResumeInsert, history
      <3>2. t \in nudged
        BY <3>1 DEF AwaySound
      <3> QED BY <3>1, <3>2
    <2> QED BY <1>8, <2>1, <2>2
  <1>9. ASSUME NEW t \in Thread, DeleteRemove(t) \/ DeleteClose(t) \/ Race(t) PROVE PendingSound'
    <2>1. CASE DeleteRemove(t) \/ Race(t)
      <3>1. /\ pending' = pending /\ pc' = pc /\ stat' = stat /\ error' = error
            /\ nudged' = nudged
        BY <2>1 DEF DeleteRemove, Race, threadVars, history
      <3> QED BY <3>1
    <2>2. CASE DeleteClose(t)
      <3>1. /\ pc' = [pc EXCEPT ![t] = None]
            /\ pending' = [pending EXCEPT ![t] = None] \/ pending' = pending
            /\ stat' = [stat EXCEPT ![t] = "CLOSE"] /\ error' = error /\ nudged' = nudged
        BY <2>2 DEF DeleteClose
      <3> QED BY <3>1
    <2> QED BY <1>9, <2>1, <2>2
  <1>10. ASSUME NEW m \in Mutex, Detach(m) PROVE PendingSound'
    <2>1. /\ error' = [u \in Thread |-> IF u \in Range(waiters[m]) THEN "ERROR" ELSE error[u]]
          /\ stat' = [u \in Thread |-> IF u \in Range(waiters[m]) THEN "READY" ELSE stat[u]]
          /\ pending' = pending /\ pc' = pc /\ nudged' = nudged
      BY <1>10 DEF Detach, history
    <2>2. \A u \in Thread : u \in Range(waiters[m]) => stat[u] = "SUSPEND"
      BY DEF WaitersLinked
    <2> QED BY <2>1, <2>2
  <1>11. ASSUME NEW m \in Mutex, NEW p \in Ceilings, SetCeiling(m, p) PROVE PendingSound'
    <2>1. pending' = pending /\ pc' = pc /\ stat' = stat /\ error' = error /\ nudged' = nudged
      BY <1>11 DEF SetCeiling, history
    <2> QED BY <2>1
  <1> QED BY <1>1, <1>2, <1>3, <1>4, <1>5, <1>6, <1>7, <1>8, <1>9, <1>10, <1>11 DEF Next

\* The chains of waiting threads, of the states and pending objects st and pend.
LEMMA ChainsFrom ==
    ASSUME IInv, NEW list, NEW st, NEW pend,
           pend \in [Thread -> Mutex \cup {None}],
           \A u \in Thread, n \in Mutex :
              /\ u \in Range(list[n]) <=> st[u] = "SUSPEND" /\ pend[u] = n /\ ~Away(u)
              /\ u \in Range(list[n]) => n \in live /\ owner[n] \notin {None, u}
    PROVE  Chains(WaitsOn(st, pend), list, taken)
  <1> DEFINE wait == WaitsOn(st, pend)
  <1>1. /\ owner \in [Mutex -> Thread \cup {None}]
        /\ \A u \in Thread, n \in Mutex : n \in taken[u] <=> n \in live /\ owner[n] = u
        /\ taken \in [Thread -> SUBSET Mutex]
    BY DEF IInv, Types, WaitersLinked
  <1>2. wait \in [Thread -> Mutex \cup {None}]
    BY DEF WaitsOn
  <1>3. \A u \in Thread : wait[u] = IF st[u] = "SUSPEND" /\ ~Away(u) THEN pend[u] ELSE None
    BY DEF WaitsOn
  <1> HIDE DEF wait
  <1>4. \A u \in Thread, n \in Mutex : u \in Range(list[n]) <=> wait[u] = n
    BY <1>3, NoneIsNot
  <1>5. ASSUME NEW u \in Thread, wait[u] # None
        PROVE  owner[wait[u]] \in Thread \ {u} /\ wait[u] \in taken[owner[wait[u]]]
    <2>1. wait[u] \in Mutex /\ u \in Range(list[wait[u]])
      BY <1>2, <1>4, <1>5
    <2>2. wait[u] \in live /\ owner[wait[u]] \notin {None, u}
      BY <2>1
    <2> QED BY <2>1, <2>2, <1>1
  <1>6. \A u \in Thread : \A n \in taken[u] : owner[n] = u
    BY <1>1
  <1>7. Chains(wait, list, taken)
    BY <1>2, <1>4, <1>5, <1>6 DEF Chains
  <1> QED BY <1>7 DEF wait

\* An action that leaves the lists, the priorities and what they depend on alone.
LEMMA UrgencyKept ==
    ASSUME Urgency, UNCHANGED <<prio, mprio, taken, ceiling, waiters, owner, live, stat,
                                pending, op, nudged, skipped>>
    PROVE  Urgency'
  <1>1. Settled' = Settled
    BY DEF Settled
  <1>2. Tracked' = Tracked
    BY DEF Tracked, Leaving, Away
  <1> QED BY <1>1, <1>2 DEF Urgency, Lent, Tracks

\* The waiters that stay when t leaves keep their order; the first is no more urgent.
LEMMA WithoutTracks ==
    ASSUME IInv, NEW X, Tracks(prio, mprio, waiters, X), NEW t \in Thread, NEW m \in Mutex,
           NEW n \in Mutex
    PROVE  /\ Sorted(Without(m, t)[n], prio, None)
           /\ n # m => Without(m, t)[n] = waiters[n]
           /\ mprio[n] \in Nat /\ HeadPriority(Without(m, t)[n], prio) \in Nat
           /\ mprio[n] <= HeadPriority(Without(m, t)[n], prio)
           /\ n # m /\ n \in X => mprio[n] = HeadPriority(Without(m, t)[n], prio)
  <1> DEFINE a == waiters[n]
             b == Without(m, t)[n]
  <1>1. /\ a \in Seq(Thread) /\ IsInjective(a) /\ prio \in [Thread -> PRIORITIES]
        /\ mprio[n] \in Rank
    BY DEF IInv, Types, WaitersLinked
  <1>2. /\ Sorted(a, prio, None) /\ mprio[n] <= HeadPriority(a, prio)
        /\ n \in X => mprio[n] = HeadPriority(a, prio)
    BY DEF Tracks
  <1>3. b \in Seq(Thread) /\ Range(b) \subseteq Range(a)
    <2>1. /\ Without(m, t) \in [Mutex -> Seq(Thread)]
          /\ Range(Without(m, t)[n]) = Range(waiters[n]) \ (IF n = m THEN {t} ELSE {})
      BY WithoutSound
    <2> QED BY <2>1
  <1>4. b = IF n = m THEN Unlink(a, t) ELSE a
    BY DEF Without, IInv, Types
  <1>5. Sorted(b, prio, None)
    BY <1>1, <1>2, <1>4, UnlinkSorted
  <1>6. mprio[n] \in Nat
    BY <1>1, RanksAre
  <1> HIDE DEF a, b
  <1>7. HeadPriority(a, prio) <= HeadPriority(b, prio)
    BY <1>1, <1>2, <1>3, <1>5, HeadOfFewer
  <1>8. HeadPriority(a, prio) \in Nat /\ HeadPriority(b, prio) \in Nat
    BY <1>1, <1>2, <1>3, <1>5, HeadIsLeast
  <1>9. mprio[n] <= HeadPriority(b, prio)
    BY <1>2, <1>6, <1>7, <1>8
  <1>10. n # m => b = a
    BY <1>4
  <1> QED BY <1>2, <1>5, <1>6, <1>8, <1>9, <1>10 DEF a, b

\* A thread leaves its place in the list of m; nobody has looked at the mutex yet.
LEMMA WithoutUrgency ==
    ASSUME IInv, Urgency, NEW t \in Thread, NEW m \in Mutex, waiters' = Without(m, t),
           UNCHANGED <<prio, mprio, taken, ceiling>>,
           Settled' \subseteq Settled, Tracked' \subseteq Tracked \ {m}
    PROVE  Urgency'
  <1>1. Lent(prio', mprio', taken', ceiling', Settled')
    BY DEF Urgency, Lent
  <1>2. Tracks(prio, mprio, waiters, Tracked)
    BY DEF Urgency
  <1>3. ASSUME NEW n \in Mutex
        PROVE  /\ Sorted(Without(m, t)[n], prio, None)
               /\ mprio[n] <= HeadPriority(Without(m, t)[n], prio)
               /\ n # m /\ n \in Tracked => mprio[n] = HeadPriority(Without(m, t)[n], prio)
    BY ONLY IInv, t \in Thread, m \in Mutex, n \in Mutex, <1>2, WithoutTracks
  <1>4. Tracks(prio', mprio', waiters', Tracked')
    BY <1>3 DEF Tracks
  <1> QED BY <1>1, <1>4 DEF Urgency

\* Nothing changes but that there are fewer threads and mutexes to speak of.
LEMMA UrgencyLess ==
    ASSUME Urgency, UNCHANGED <<prio, mprio, taken, ceiling, waiters>>,
           Settled' \subseteq Settled, Tracked' \subseteq Tracked
    PROVE  Urgency'
  <1>1. Lent(prio', mprio', taken', ceiling', Settled')
    BY DEF Urgency, Lent
  <1>2. Tracks(prio', mprio', waiters', Tracked')
    BY DEF Urgency, Tracks
  <1> QED BY <1>1, <1>2 DEF Urgency

\* A thread whose wait timed out leaves its place.
LEMMA TimeoutUrgency ==
    ASSUME IInv, Urgency, NEW t \in Thread, Timeout(t)
    PROVE  Urgency'
  <1> DEFINE m == pc[t]
  <1>1. /\ stat[t] = "SUSPEND" /\ m = pending[t] /\ m \in Mutex
    BY DEF Timeout, IInv, Types, WaitersLinked, WaitSound
  <1>2. /\ waiters' = Without(m, t) /\ stat' = [stat EXCEPT ![t] = "READY"]
        /\ UNCHANGED <<prio, mprio, taken, ceiling>>
        /\ owner' = owner /\ live' = live /\ pending' = pending /\ op' = op
        /\ skipped' = skipped /\ nudged' = nudged
    BY DEF Timeout, Without, history
  <1>3. \A u \in Thread : stat'[u] = IF u = t THEN "READY" ELSE stat[u]
    BY <1>2 DEF IInv, Types
  <1>4. Settled' \subseteq Settled
    BY <1>1, <1>2, <1>3 DEF Settled
  <1>5. Tracked' \subseteq Tracked \ {m}
    BY <1>1, <1>2, <1>3 DEF Tracked, Leaving, Away
  <1> HIDE DEF m
  <1> QED BY <1>1, <1>2, <1>4, <1>5, WithoutUrgency

\* rt_thread_resume takes a thread off its list; nothing is said of priorities after that
\* but that they are not too low.
LEMMA ResumeUrgency ==
    ASSUME IInv, Urgency, NEW t \in Thread, ResumeUnlink(t) \/ ResumeInsert(t)
    PROVE  Urgency'
  <1>1. CASE ResumeUnlink(t)
    <2> DEFINE m == pc[t]
    <2>1. m \in Mutex
      <3>1. stat[t] = "SUSPEND" /\ ~Away(t)
        BY <1>1 DEF ResumeUnlink, Away
      <3>2. pending[t] \in Mutex
        BY <3>1 DEF IInv, Types, WaitersLinked
      <3>3. t \in Range(waiters[pending[t]])
        BY <3>1, <3>2 DEF IInv, WaitersLinked
      <3> QED BY <3>2, <3>3 DEF IInv, WaitersLinked
    <2>2. /\ waiters' = Without(m, t) /\ UNCHANGED <<prio, mprio, taken, ceiling>>
          /\ nudged' = nudged \cup {t}
      BY <1>1 DEF ResumeUnlink, Without
    <2>3. Settled' = {} /\ Tracked' = {}
      BY <2>2 DEF Settled, Tracked
    <2> HIDE DEF m
    <2> QED BY <2>1, <2>2, <2>3, WithoutUrgency
  <1>2. CASE ResumeInsert(t)
    <2>1. /\ UNCHANGED <<prio, mprio, taken, ceiling, waiters>> /\ nudged' = nudged
          /\ op[t] = "unlinked"
      BY <1>2 DEF ResumeInsert, mutexVars, history
    <2>2. nudged # {}
      BY <2>1 DEF IInv, AwaySound
    <2>3. Settled' = {} /\ Tracked' = {}
      BY <2>1, <2>2 DEF Settled, Tracked
    <2> QED BY <2>1, <2>3, UrgencyLess
  <1> QED BY <1>1, <1>2

\* The first half of rt_thread_delete leaves mutex->priority to the second.
LEMMA RemoveUrgency ==
    ASSUME IInv, Urgency, NEW t \in Thread, DeleteRemove(t)
    PROVE  Urgency'
  <1> DEFINE m == pending[t]
  <1>1. /\ op[t] = "none" /\ op' = [op EXCEPT ![t] = "removed"]
        /\ UNCHANGED <<prio, mprio, taken, ceiling>>
        /\ owner' = owner /\ live' = live /\ pending' = pending /\ stat' = stat
        /\ skipped' = skipped /\ nudged' = nudged
    BY DEF DeleteRemove, history
  <1>2. waiters' = [n \in Mutex |-> IF stat[t] = "SUSPEND" /\ m = n
                                   THEN Unlink(waiters[n], t) ELSE waiters[n]]
    BY DEF DeleteRemove
  <1>3. Settled' = Settled
    BY <1>1 DEF Settled
  <1>4. \A u \in Thread : Away(u)' <=> (u = t \/ Away(u))
    BY <1>1 DEF Away, IInv, Types
  <1>5. Tracked' \subseteq Tracked \ {m}
    BY <1>1, <1>4 DEF Tracked, Leaving
  <1>6. waiters = [n \in Mutex |-> waiters[n]]
    BY DEF IInv, Types
  <1>7. CASE stat[t] = "SUSPEND"
    <2>1. m \in Mutex
      BY <1>7 DEF IInv, Types, WaitersLinked
    <2>2. waiters' = Without(m, t)
      BY <1>2, <1>6, <1>7, <2>1 DEF Without
    <2> HIDE DEF m
    <2> QED BY <2>1, <2>2, <1>1, <1>3, <1>5, WithoutUrgency
  <1>8. CASE stat[t] # "SUSPEND"
    <2>1. waiters' = waiters
      BY <1>2, <1>6, <1>8
    <2> QED BY <2>1, <1>1, <1>3, <1>5, UrgencyLess
  <1> QED BY <1>7, <1>8

\* What Lent says of one thread.
LentTo(u, pr, mp, tk, ceil, S) ==
    /\ pr[u] <= InitPrio[u] /\ \A n \in tk[u] : pr[u] <= mp[n]
    /\ u \in S => GetMutexPriority(u, tk[u], mp, ceil) <= pr[u]

\* Lent, thread by thread.
LEMMA LentToAll ==
    ASSUME NEW pr, NEW mp, NEW tk, NEW ceil, NEW S, S \subseteq Thread
    PROVE  Lent(pr, mp, tk, ceil, S) <=> \A u \in Thread : LentTo(u, pr, mp, tk, ceil, S)
  BY DEF Lent, LentTo

\* A thread that keeps its priority and its mutexes, and they what they ask for.
LEMMA LentStill ==
    ASSUME NEW S, NEW u \in Thread, LentTo(u, prio, mprio, taken, ceiling, S),
           prio'[u] = prio[u], taken'[u] = taken[u],
           \A n \in taken[u] : mprio'[n] = mprio[n] /\ ceiling'[n] = ceiling[n],
           NEW Z, u \in Z => u \in S
    PROVE  LentTo(u, prio', mprio', taken', ceiling', Z)
  <1>1. GetMutexPriority(u, taken[u], mprio', ceiling') = GetMutexPriority(u, taken[u], mprio, ceiling)
    BY GetSame
  <1> QED BY <1>1 DEF LentTo

\* What Tracks says of one mutex.
TracksAt(n, pr, mp, w, X) ==
    /\ Sorted(w[n], pr, None) /\ mp[n] <= HeadPriority(w[n], pr)
    /\ n \in X => mp[n] = HeadPriority(w[n], pr)

\* A mutex whose waiters and whose own priority stay.
LEMMA TracksStill ==
    ASSUME NEW X, NEW n \in Mutex, TracksAt(n, prio, mprio, waiters, X),
           waiters[n] \in Seq(Thread), waiters'[n] = waiters[n], mprio'[n] = mprio[n],
           \A u \in Range(waiters[n]) : prio'[u] = prio[u],
           NEW Y, n \in Y => n \in X
    PROVE  TracksAt(n, prio', mprio', waiters', Y)
  <1>1. Range(waiters[n]) \subseteq Thread /\ None \notin Range(waiters[n])
    BY ListEmpty, NoneIsNot
  <1>2. Sorted(waiters[n], prio', None)
    BY <1>1, SortedMoved DEF TracksAt
  <1>3. HeadPriority(waiters[n], prio') = HeadPriority(waiters[n], prio)
    BY HeadKept
  <1> QED BY <1>2, <1>3 DEF TracksAt

\* Nobody waits: in order.
LEMMA TracksNobody ==
    ASSUME NEW n \in Mutex, NEW pr, NEW mp, NEW w, NEW X, w[n] = <<>>, mp[n] \in Rank,
           n \in X => mp[n] = PRIO_NONE
    PROVE  TracksAt(n, pr, mp, w, X)
  <1>1. Sorted(<<>>, pr, None)
    <2>1. <<>> \in Seq(Thread) /\ Len(<<>>) = 0
      OBVIOUS
    <2>2. \A i \in 1 .. Len(<<>>) : FALSE
      BY <2>1
    <2> QED BY <2>1, <2>2, SortedAre
  <1>2. HeadPriority(<<>>, pr) = PRIO_NONE
    BY DEF HeadPriority
  <1>3. mp[n] <= PRIO_NONE
    BY RanksAre DEF Rank
  <1> QED BY <1>1, <1>2, <1>3 DEF TracksAt

\* The two together, for the next state.
LEMMA UrgencyNext ==
    ASSUME \A u \in Thread : LentTo(u, prio', mprio', taken', ceiling', Settled'),
           \A n \in Mutex : TracksAt(n, prio', mprio', waiters', Tracked')
    PROVE  Urgency'
  <1>1. Settled' \subseteq Thread
    BY DEF Settled
  <1>2. Lent(prio', mprio', taken', ceiling', Settled')
    BY <1>1, LentToAll
  <1>3. Tracks(prio', mprio', waiters', Tracked')
    BY DEF Tracks, TracksAt
  <1> QED BY <1>2, <1>3 DEF Urgency

\* And for this one.
LEMMA UrgencyNow ==
    ASSUME Urgency
    PROVE  /\ \A u \in Thread : LentTo(u, prio, mprio, taken, ceiling, Settled)
           /\ \A n \in Mutex : TracksAt(n, prio, mprio, waiters, Tracked)
  <1>1. Settled \subseteq Thread
    BY DEF Settled
  <1>2. \A u \in Thread : LentTo(u, prio, mprio, taken, ceiling, Settled)
    BY <1>1, LentToAll DEF Urgency
  <1>3. \A n \in Mutex : TracksAt(n, prio, mprio, waiters, Tracked)
    BY DEF Tracks, TracksAt, Urgency
  <1> QED BY <1>2, <1>3

\* A detached mutex asks for nothing any more; its owner may have inherited too much.
LEMMA DetachUrgency ==
    ASSUME IInv, Urgency, NEW m \in Mutex, Detach(m)
    PROVE  Urgency'
  <1>1. /\ live' = live \ {m} /\ taken' = [u \in Thread |-> taken[u] \ {m}]
        /\ waiters' = [waiters EXCEPT ![m] = <<>>]
        /\ stat' = [u \in Thread |-> IF u \in Range(waiters[m]) THEN "READY" ELSE stat[u]]
        /\ owner' = owner /\ mprio' = mprio /\ ceiling' = ceiling /\ prio' = prio
        /\ pending' = pending /\ nudged' = nudged /\ skipped' = skipped /\ op' = op
    BY DEF Detach, history
  <1>2. \A u \in Range(waiters[m]) : u \in Thread /\ stat[u] = "SUSPEND"
    BY ListEmpty DEF IInv, Types, WaitersLinked
  <1>3. /\ waiters \in [Mutex -> Seq(Thread)] /\ mprio \in [Mutex -> Rank] /\ live \subseteq Mutex
        /\ taken \in [Thread -> SUBSET Mutex]
        /\ \A u \in Thread, n \in Mutex : n \in taken[u] <=> n \in live /\ owner[n] = u
    BY DEF IInv, Types, WaitersLinked
  <1>4. ASSUME NEW u \in Thread PROVE LentTo(u, prio', mprio', taken', ceiling', Settled')
    <2>1. LentTo(u, prio, mprio, taken, ceiling, Settled)
      BY UrgencyNow
    <2>2. taken'[u] = taken[u] \ {m}
      BY <1>1
    <2>3. CASE owner[m] = u
      <3>1. u \notin Settled'
        BY <2>3, <1>1 DEF Settled
      <3> QED BY <2>1, <2>2, <3>1, <1>1 DEF LentTo
    <2>4. CASE owner[m] # u
      <3>1. taken'[u] = taken[u]
        BY <2>2, <2>4, <1>3
      <3>2. u \in Settled' => u \in Settled
        BY <1>1, <1>2 DEF Settled
      <3> QED BY <2>1, <3>1, <3>2, <1>1, LentStill
    <2> QED BY <2>3, <2>4
  <1>5. ASSUME NEW n \in Mutex PROVE TracksAt(n, prio', mprio', waiters', Tracked')
    <2>1. CASE n = m
      <3>1. m \notin Tracked' /\ waiters'[m] = <<>> /\ mprio'[m] \in Rank
        BY <1>1, <1>3 DEF Tracked
      <3> QED BY <2>1, <3>1, TracksNobody
    <2>2. CASE n # m
      <3>1. TracksAt(n, prio, mprio, waiters, Tracked)
        BY UrgencyNow
      <3>2. n \in Tracked' => n \in Tracked
        BY <1>1, <1>2 DEF Tracked, Leaving, Away
      <3>3. waiters[n] \in Seq(Thread) /\ waiters'[n] = waiters[n]
        BY <2>2, <1>1, <1>3
      <3> QED BY <3>1, <3>2, <3>3, <1>1, TracksStill
    <2> QED BY <2>1, <2>2
  <1> QED BY <1>4, <1>5, UrgencyNext

\* A free mutex nobody waits for: its ceiling applies to the new owner.
LEMMA TakeFreeUrgency ==
    ASSUME IInv, IInv', Urgency, NEW t \in Thread, NEW m \in Mutex, TakeFree(t, m)
    PROVE  Urgency'
  <1>1. /\ stat[t] = "READY" /\ m \in live /\ owner[m] = None
        /\ owner' = [owner EXCEPT ![m] = t] /\ mprio' = [mprio EXCEPT ![m] = PRIO_NONE]
        /\ prio' = [prio EXCEPT ![t] = MinOf(@, ceiling[m])]
        /\ taken' = [taken EXCEPT ![t] = @ \cup {m}]
        /\ ceiling' = ceiling /\ waiters' = waiters /\ live' = live /\ stat' = stat
        /\ pending' = pending /\ nudged' = nudged /\ skipped' = skipped /\ op' = op
    BY DEF TakeFree, Calls, Runs, history
  <1>2. /\ waiters \in [Mutex -> Seq(Thread)] /\ mprio \in [Mutex -> Rank]
        /\ ceiling \in [Mutex -> Rank] /\ prio \in [Thread -> PRIORITIES]
        /\ taken \in [Thread -> SUBSET Mutex] /\ owner \in [Mutex -> Thread \cup {None}]
        /\ mprio' \in [Mutex -> Rank] /\ taken' \in [Thread -> SUBSET Mutex]
    BY DEF IInv, Types
  <1>3. \A u \in Thread, n \in Mutex : /\ n \in taken[u] => owner[n] = u
                                       /\ u \in Range(waiters[n]) => stat[u] = "SUSPEND" /\ owner[n] # None
    BY DEF IInv, WaitersLinked
  <1>4. /\ \A u \in Thread : /\ prio'[u] = IF u = t THEN MinOf(prio[t], ceiling[m]) ELSE prio[u]
                             /\ taken'[u] = IF u = t THEN taken[t] \cup {m} ELSE taken[u]
        /\ \A n \in Mutex : mprio'[n] = IF n = m THEN PRIO_NONE ELSE mprio[n]
    BY <1>1, <1>2
  <1>5. \A u \in Thread : m \notin taken[u] /\ m \notin live \ live
    BY <1>1, <1>3, NoneIsNot
  <1>6. Settled' = Settled /\ Tracked' = Tracked
    BY <1>1, <1>2 DEF Settled, Tracked, Leaving, Away
  <1>7. LentTo(t, prio', mprio', taken', ceiling', Settled')
    <2> DEFINE tk == taken[t]
               tk2 == taken'[t]
               g == GetMutexPriority(t, tk2, mprio', ceiling)
    <2>1. LentTo(t, prio, mprio, taken, ceiling, Settled)
      BY UrgencyNow
    <2>2. /\ prio[t] \in Nat /\ ceiling[m] \in Nat /\ prio[t] <= PRIO_NONE /\ InitPrio[t] \in Nat
      BY <1>2, PriorityIs, RanksAre
    <2>3. prio'[t] \in Nat /\ prio'[t] <= prio[t] /\ (prio'[t] = prio[t] \/ prio'[t] = ceiling[m])
      BY <2>2, <1>4 DEF MinOf
    <2>4. tk \in SUBSET Mutex /\ tk2 \in SUBSET Mutex /\ tk2 = tk \cup {m} /\ tk \subseteq tk2
      BY <1>2, <1>4
    <2>5. \A n \in tk : mprio'[n] = mprio[n] /\ mprio[n] \in Nat
      BY <2>4, <1>2, <1>4, <1>5, RanksAre
    <2>6. GetMutexPriority(t, tk2, mprio', ceiling) <= GetMutexPriority(t, tk, mprio, ceiling)
      <3>1. \A n \in tk : mprio'[n] <= mprio[n]
        BY <2>5
      <3> HIDE DEF tk, tk2
      <3> QED BY <3>1, <2>4, <1>2, GetMore
    <2>7. g \in Nat /\ g <= ceiling[m] /\ GetMutexPriority(t, tk, mprio, ceiling) \in Nat
      BY <2>4, <1>2, GetIsLeast
    <2>8. t \in Settled => g <= prio'[t]
      BY <2>1, <2>2, <2>3, <2>6, <2>7 DEF LentTo
    <2>9. prio'[t] <= InitPrio[t]
      BY <2>1, <2>2, <2>3 DEF LentTo
    <2>10. \A n \in tk2 : prio'[t] <= mprio'[n]
      <3>1. ASSUME NEW n \in tk PROVE prio'[t] <= mprio'[n]
        BY <2>1, <2>2, <2>3, <2>5 DEF LentTo
      <3>2. mprio'[m] = PRIO_NONE /\ PRIO_NONE \in Nat
        BY <1>4, RanksAre
      <3>3. prio'[t] <= mprio'[m]
        BY <2>2, <2>3, <3>2
      <3> QED BY <2>4, <3>1, <3>3
    <2> QED BY <2>8, <2>9, <2>10, <1>1, <1>6 DEF LentTo
  <1>8. ASSUME NEW u \in Thread, u # t PROVE LentTo(u, prio', mprio', taken', ceiling', Settled')
    <2>1. LentTo(u, prio, mprio, taken, ceiling, Settled)
      BY UrgencyNow
    <2>2. \A n \in taken[u] : mprio'[n] = mprio[n]
      BY <1>2, <1>4, <1>5
    <2> QED BY <2>1, <2>2, <1>1, <1>4, <1>6, <1>8, LentStill
  <1>9. ASSUME NEW n \in Mutex PROVE TracksAt(n, prio', mprio', waiters', Tracked')
    <2>1. CASE n = m
      <3>1. waiters[m] \in Seq(Thread)
        BY <1>2
      <3>2. waiters[m] = <<>>
        BY <3>1, <1>1, <1>3, ListEmpty
      <3>3. mprio'[m] = PRIO_NONE /\ PRIO_NONE \in Rank
        BY <1>4 DEF Rank
      <3> QED BY <2>1, <3>2, <3>3, <1>1, TracksNobody
    <2>2. CASE n # m
      <3>1. TracksAt(n, prio, mprio, waiters, Tracked) /\ waiters[n] \in Seq(Thread)
        BY UrgencyNow, <1>2
      <3>2. \A u \in Range(waiters[n]) : prio'[u] = prio[u]
        BY <3>1, <1>1, <1>3, <1>4, ListEmpty
      <3> QED BY <3>1, <3>2, <2>2, <1>1, <1>4, <1>6, TracksStill
    <2> QED BY <2>1, <2>2
  <1> QED BY <1>7, <1>8, <1>9, UrgencyNext

\* The releasing thread keeps what its other mutexes ask for, and no more.
LEMMA LoweredLent ==
    ASSUME Types, NEW t \in Thread, NEW m \in taken[t],
           LentTo(t, prio, mprio, taken, ceiling, Settled)
    PROVE  /\ Lowered(t, m)[t] <= InitPrio[t]
           /\ \A n \in taken[t] \ {m} : Lowered(t, m)[t] <= mprio[n]
           /\ t \in Settled =>
                GetMutexPriority(t, taken[t] \ {m}, mprio, ceiling) <= Lowered(t, m)[t]
  <1> DEFINE tk == taken[t]
             tk2 == tk \ {m}
             g == GetMutexPriority(t, tk, mprio, ceiling)
             g2 == GetMutexPriority(t, tk2, mprio, ceiling)
             p == Lowered(t, m)[t]
  <1>1. /\ mprio \in [Mutex -> Rank] /\ ceiling \in [Mutex -> Rank]
        /\ prio \in [Thread -> PRIORITIES] /\ tk \in SUBSET Mutex /\ tk2 \in SUBSET Mutex
        /\ tk2 \subseteq tk /\ m \in Mutex
    BY DEF Types
  <1>2. p = IF ceiling[m] # PRIO_NONE \/ prio[t] = mprio[m] THEN g2 ELSE prio[t]
    BY <1>1 DEF Lowered
  <1>3. /\ g2 \in Nat /\ g2 <= InitPrio[t] /\ \A n \in tk2 : g2 <= mprio[n] /\ g2 <= ceiling[n]
    BY <1>1, GetIsLeast
  <1>4. g \in Nat /\ (g = InitPrio[t] \/ \E n \in tk : g = MinOf(mprio[n], ceiling[n]))
    BY <1>1, GetIsLeast
  <1>5. /\ prio[t] <= InitPrio[t] /\ \A n \in tk : prio[t] <= mprio[n]
        /\ t \in Settled => g <= prio[t]
    BY DEF LentTo
  <1>6. CASE ceiling[m] # PRIO_NONE \/ prio[t] = mprio[m]
    BY <1>2, <1>3, <1>6
  <1>7. CASE ceiling[m] = PRIO_NONE /\ prio[t] # mprio[m]
    <2>1. p = prio[t]
      BY <1>2, <1>7
    <2>2. prio[t] \in Nat
      BY <1>1, PriorityIs
    <2>3. \A n \in Mutex : mprio[n] \in Rank /\ ceiling[n] \in Rank
      BY <1>1
    <2>4. \A n \in Mutex : mprio[n] \in Nat /\ ceiling[n] \in Nat /\ mprio[n] <= PRIO_NONE
      <3>1. \A r \in Rank : r \in Nat /\ r <= PRIO_NONE
        BY RanksAre DEF Rank
      <3> QED BY <2>3, <3>1
    <2> HIDE DEF p, g, g2, tk2
    <2>5. ASSUME t \in Settled PROVE g2 <= prio[t]
      <3>1. g <= prio[t]
        BY <1>5, <2>5
      <3>2. CASE g = InitPrio[t]
        <4>1. g2 <= g
          BY <3>2, <1>3
        <4> QED BY <4>1, <3>1, <1>3, <1>4, <2>2
      <3>3. ASSUME NEW n \in tk, g = MinOf(mprio[n], ceiling[n]) PROVE g2 <= prio[t]
        <4>1. n \in Mutex /\ mprio[n] \in Nat /\ ceiling[n] \in Nat
          BY <1>1, <2>4
        <4>2. CASE n = m
          <5>1. mprio[m] <= PRIO_NONE /\ ceiling[m] = PRIO_NONE /\ mprio[m] \in Nat
            BY <1>1, <1>7, <2>4
          <5>2. g = mprio[m]
            BY <3>3, <4>2, <5>1, RanksAre DEF MinOf
          <5>3. prio[t] <= mprio[m] /\ mprio[m] <= prio[t]
            BY <3>1, <5>2, <1>5
          <5>4. prio[t] = mprio[m]
            BY <5>1, <5>3, <2>2
          <5> QED BY <5>4, <1>7
        <4>3. CASE n # m
          <5>1. g2 <= mprio[n] /\ g2 <= ceiling[n]
            BY <4>3, <1>3 DEF tk2
          <5>2. g2 <= g
            BY <5>1, <3>3, <1>3, <4>1 DEF MinOf
          <5> QED BY <5>2, <3>1, <1>3, <1>4, <2>2
        <4> QED BY <4>2, <4>3
      <3> QED BY <3>2, <3>3, <1>4
    <2> QED BY <2>1, <2>5, <1>5 DEF p, g2, tk2
  <1> QED BY <1>6, <1>7

\* The list without its first waiter.
LEMMA TailSorted ==
    ASSUME NEW list \in Seq(Thread), list # <<>>, NEW pr, NEW x, Sorted(list, pr, x)
    PROVE  Sorted(Tail(list), pr, x)
  <1>1. /\ Tail(list) \in Seq(Thread) /\ Len(Tail(list)) = Len(list) - 1
        /\ \A i \in 1 .. Len(Tail(list)) : Tail(list)[i] = list[i + 1]
    OBVIOUS
  <1>2. ASSUME NEW i \in 1 .. Len(Tail(list)), NEW j \in 1 .. Len(Tail(list)), i < j
        PROVE  x \in {Tail(list)[i], Tail(list)[j]} \/ pr[Tail(list)[i]] <= pr[Tail(list)[j]]
    <2>1. i + 1 \in 1 .. Len(list) /\ j + 1 \in 1 .. Len(list) /\ i + 1 < j + 1
      BY <1>1, <1>2
    <2>2. x \in {list[i + 1], list[j + 1]} \/ pr[list[i + 1]] <= pr[list[j + 1]]
      BY <2>1, SortedAre
    <2> QED BY <2>2, <1>1
  <1> QED BY <1>1, <1>2, SortedAre

\* The releasing thread, and the mutexes other than the released one.
LEMMA ReleasedUrgency ==
    ASSUME IInv, Urgency, NEW t \in Thread, NEW m \in Mutex, Release(t, m)
    PROVE  /\ \A u \in Thread : u # t => prio'[u] = prio[u]
           /\ ceiling' = ceiling /\ \A n \in Mutex : n # m => mprio'[n] = mprio[n] /\ waiters'[n] = waiters[n]
           /\ Settled' \subseteq Settled /\ Tracked' \subseteq Tracked
           /\ m \in taken[t] /\ \A u \in Thread : u # t => m \notin taken[u]
           /\ \A n \in Mutex : t \notin Range(waiters[n])
           /\ \A n \in Mutex : n # m => TracksAt(n, prio', mprio', waiters', Tracked')
  <1>1. /\ stat[t] = "READY" /\ m \in live /\ owner[m] = t /\ prio' = Lowered(t, m)
        /\ ceiling' = ceiling /\ live' = live /\ nudged' = nudged /\ skipped' = skipped
        /\ op' = op
    BY DEF Release, Calls, Runs, history
  <1>2. /\ waiters \in [Mutex -> Seq(Thread)] /\ mprio \in [Mutex -> Rank]
        /\ prio \in [Thread -> PRIORITIES] /\ stat \in [Thread -> {"READY", "SUSPEND", "CLOSE"}]
        /\ taken \in [Thread -> SUBSET Mutex] /\ owner \in [Mutex -> Thread \cup {None}]
        /\ pending \in [Thread -> Mutex \cup {None}]
    BY DEF IInv, Types
  <1>3. \A u \in Thread, n \in Mutex : /\ n \in taken[u] <=> n \in live /\ owner[n] = u
                                       /\ u \in Range(waiters[n]) => stat[u] = "SUSPEND" /\ ~Away(u)
    BY DEF IInv, WaitersLinked
  <1>4. \A u \in Thread : u # t => prio'[u] = prio[u]
    BY <1>1, <1>2 DEF Lowered
  <1>5. \A n \in Mutex : n # m => /\ mprio'[n] = mprio[n] /\ waiters'[n] = waiters[n]
                                  /\ owner'[n] = owner[n]
    BY <1>2 DEF Release
  <1>6. \A u \in Thread : \/ stat'[u] = stat[u] /\ pending'[u] = pending[u]
                          \/ /\ stat[u] = "SUSPEND" /\ ~Away(u)
                             /\ stat'[u] = "READY" /\ pending'[u] = None
    <2>1. CASE waiters[m] = <<>>
      BY <2>1 DEF Release
    <2>2. CASE waiters[m] # <<>>
      <3>1. Head(waiters[m]) \in Range(waiters[m]) /\ Head(waiters[m]) \in Thread
        BY <2>2, <1>2, ListEmpty
      <3> QED BY <2>2, <3>1, <1>2, <1>3 DEF Release
    <2> QED BY <2>1, <2>2
  <1>7. Settled' \subseteq Settled
    BY <1>1, <1>5, <1>6 DEF Settled
  <1>8. \A n \in Mutex : Leaving(n) \subseteq Leaving(n)'
    BY <1>1, <1>6, NoneIsNot DEF Leaving, Away
  <1>9. Tracked' \subseteq Tracked
    BY <1>1, <1>8 DEF Tracked, IInv, Types
  <1>10. \A n \in Mutex : t \notin Range(waiters[n])
    BY <1>1, <1>3
  <1>11. ASSUME NEW n \in Mutex, n # m PROVE TracksAt(n, prio', mprio', waiters', Tracked')
    <2>1. TracksAt(n, prio, mprio, waiters, Tracked) /\ waiters[n] \in Seq(Thread)
      BY UrgencyNow, <1>2
    <2>2. \A u \in Range(waiters[n]) : prio'[u] = prio[u]
      BY <2>1, <1>4, <1>10, ListEmpty
    <2> QED BY <2>1, <2>2, <1>5, <1>9, <1>11, TracksStill
  <1>12. m \in taken[t] /\ \A u \in Thread : u # t => m \notin taken[u]
    BY <1>1, <1>3
  <1> QED BY <1>1, <1>4, <1>5, <1>7, <1>9, <1>10, <1>11, <1>12

\* The mutex goes to the most urgent waiter, which is as urgent as those left behind.
LEMMA ReleaseUrgency ==
    ASSUME IInv, IInv', Urgency, NEW t \in Thread, NEW m \in Mutex, Release(t, m)
    PROVE  Urgency'
  <1>1. /\ \A u \in Thread : u # t => prio'[u] = prio[u]
        /\ ceiling' = ceiling /\ \A n \in Mutex : n # m => mprio'[n] = mprio[n] /\ waiters'[n] = waiters[n]
        /\ Settled' \subseteq Settled /\ Tracked' \subseteq Tracked
        /\ m \in taken[t] /\ \A u \in Thread : u # t => m \notin taken[u]
        /\ \A n \in Mutex : t \notin Range(waiters[n])
        /\ \A n \in Mutex : n # m => TracksAt(n, prio', mprio', waiters', Tracked')
    BY ReleasedUrgency
  <1>2. /\ waiters \in [Mutex -> Seq(Thread)] /\ mprio \in [Mutex -> Rank]
        /\ ceiling \in [Mutex -> Rank] /\ prio \in [Thread -> PRIORITIES]
        /\ taken \in [Thread -> SUBSET Mutex] /\ mprio' \in [Mutex -> Rank]
        /\ taken' \in [Thread -> SUBSET Mutex] /\ prio' \in [Thread -> PRIORITIES]
    BY DEF IInv, Types
  <1>3. ASSUME taken'[t] = taken[t] \ {m} PROVE LentTo(t, prio', mprio', taken', ceiling', Settled')
    <2> DEFINE tk == taken[t] \ {m}
    <2>1. LentTo(t, prio, mprio, taken, ceiling, Settled)
      BY UrgencyNow
    <2>2. /\ Lowered(t, m)[t] <= InitPrio[t] /\ \A n \in tk : Lowered(t, m)[t] <= mprio[n]
          /\ t \in Settled => GetMutexPriority(t, tk, mprio, ceiling) <= Lowered(t, m)[t]
      BY <2>1, <1>1, LoweredLent DEF IInv
    <2>3. prio' = Lowered(t, m)
      BY DEF Release
    <2>4. \A n \in tk : n \in Mutex /\ mprio'[n] = mprio[n]
      BY <1>1, <1>2
    <2>5. GetMutexPriority(t, tk, mprio', ceiling) = GetMutexPriority(t, tk, mprio, ceiling)
      BY <2>4, GetSame
    <2> HIDE DEF tk
    <2>6. taken'[t] = tk
      BY <1>3 DEF tk
    <2> QED BY <2>2, <2>3, <2>4, <2>5, <2>6, <1>1 DEF LentTo
  <1>4. ASSUME NEW u \in Thread, u # t, taken'[u] = taken[u]
        PROVE  LentTo(u, prio', mprio', taken', ceiling', Settled')
    <2>1. LentTo(u, prio, mprio, taken, ceiling, Settled)
      BY UrgencyNow
    <2>2. \A n \in taken[u] : mprio'[n] = mprio[n]
      BY <1>1, <1>2, <1>4
    <2> QED BY <2>1, <2>2, <1>1, <1>4, LentStill
  <1>5. CASE waiters[m] = <<>>
    <2>1. waiters' = waiters /\ mprio' = [mprio EXCEPT ![m] = PRIO_NONE] /\ taken' = [taken EXCEPT ![t] = @ \ {m}]
      BY <1>5 DEF Release
    <2>2. waiters'[m] = <<>> /\ mprio'[m] = PRIO_NONE /\ PRIO_NONE \in Rank
      BY <2>1, <1>2, <1>5 DEF Rank
    <2>3. TracksAt(m, prio', mprio', waiters', Tracked')
      BY <2>2, TracksNobody
    <2>4. \A u \in Thread : taken'[u] = IF u = t THEN taken[t] \ {m} ELSE taken[u]
      BY <2>1, <1>2
    <2>5. \A u \in Thread : LentTo(u, prio', mprio', taken', ceiling', Settled')
      BY <2>4, <1>3, <1>4
    <2>6. \A n \in Mutex : TracksAt(n, prio', mprio', waiters', Tracked')
      BY <2>3, <1>1
    <2> QED BY <2>5, <2>6, UrgencyNext
  <1>6. CASE waiters[m] # <<>>
    <2> DEFINE a == waiters[m]
               b == Tail(a)
               n == Head(a)
    <2>1. /\ waiters' = [waiters EXCEPT ![m] = b]
          /\ mprio' = [mprio EXCEPT ![m] = HeadPriority(b, prio')]
          /\ taken' = [taken EXCEPT ![t] = @ \ {m}, ![n] = @ \cup {m}]
      BY <1>6 DEF Release
    <2>2. /\ a \in Seq(Thread) /\ IsInjective(a) /\ n \in Range(a) /\ n \in Thread
          /\ b \in Seq(Thread) /\ Range(b) = Range(a) \ {n}
      BY <1>6, ListEmpty, TailLinks DEF IInv, Types, WaitersLinked
    <2>3. TracksAt(m, prio, mprio, waiters, Tracked)
      BY UrgencyNow
    <2>4. Sorted(a, prio, None) /\ Sorted(b, prio, None)
      BY <2>2, <2>3, <1>6, TailSorted DEF TracksAt
    <2>5. HeadPriority(a, prio) = prio[n]
      BY <1>6 DEF HeadPriority
    <2>6. waiters'[m] = b /\ mprio'[m] = HeadPriority(b, prio')
      BY <2>1, <1>2
    <2> HIDE DEF a, b, n
    <2>7. n # t /\ \A u \in Range(b) : u \in Thread /\ prio'[u] = prio[u]
      BY <2>2, <1>1, ListEmpty DEF a
    <2>8. HeadPriority(b, prio') = HeadPriority(b, prio)
      BY <2>2, <2>7, HeadKept
    <2>9. prio[n] <= HeadPriority(b, prio) /\ HeadPriority(b, prio) \in Nat
      <3>1. Range(b) \subseteq Range(a) /\ prio \in [Thread -> PRIORITIES]
        BY <2>2, <1>2
      <3>2. HeadPriority(a, prio) <= HeadPriority(b, prio)
        BY <3>1, <2>2, <2>4, HeadOfFewer
      <3>3. HeadPriority(b, prio) \in Nat
        BY <3>1, <2>2, <2>4, HeadIsLeast
      <3> QED BY <3>2, <3>3, <2>5
    <2>10. \A u \in Thread : taken'[u] = IF u = n THEN taken[n] \cup {m}
                                         ELSE IF u = t THEN taken[t] \ {m} ELSE taken[u]
      BY <2>1, <2>2, <2>7, <1>2
    <2>11. TracksAt(m, prio', mprio', waiters', Tracked')
      <3>1. None \notin Range(b)
        BY <2>7, NoneIsNot
      <3>2. Sorted(b, prio', None)
        BY <3>1, <2>2, <2>4, <2>7, SortedMoved
      <3>3. HeadPriority(b, prio') <= HeadPriority(b, prio')
        BY <2>8, <2>9
      <3> QED BY <3>2, <3>3, <2>6 DEF TracksAt
    <2>12. LentTo(n, prio', mprio', taken', ceiling', Settled')
      <3> DEFINE tk == taken[n]
                 tk2 == taken'[n]
      <3>1. LentTo(n, prio, mprio, taken, ceiling, Settled)
        BY <2>2, UrgencyNow
      <3>2. tk \in SUBSET Mutex /\ tk2 \in SUBSET Mutex /\ tk2 = tk \cup {m} /\ tk \subseteq tk2
        BY <2>2, <2>10, <1>2
      <3>3. \A x \in tk : mprio'[x] = mprio[x] /\ mprio[x] \in Nat
        BY <3>2, <2>2, <2>7, <1>1, <1>2, RanksAre
      <3>4. GetMutexPriority(n, tk2, mprio', ceiling) <= GetMutexPriority(n, tk, mprio, ceiling)
        <4>1. \A x \in tk : mprio'[x] <= mprio[x]
          BY <3>3
        <4> HIDE DEF tk, tk2
        <4> QED BY <4>1, <3>2, <2>2, <1>2, GetMore
      <3>5. /\ GetMutexPriority(n, tk2, mprio', ceiling) \in Nat
            /\ GetMutexPriority(n, tk, mprio, ceiling) \in Nat
        BY <3>2, <2>2, <1>2, GetIsLeast
      <3>6. prio'[n] = prio[n] /\ prio[n] \in Nat
        BY <2>2, <2>7, <1>1, <1>2, PriorityIs
      <3>7. n \in Settled' => GetMutexPriority(n, tk2, mprio', ceiling) <= prio'[n]
        BY <3>1, <3>4, <3>5, <3>6, <1>1 DEF LentTo
      <3>8. \A x \in tk2 : prio'[n] <= mprio'[x]
        BY <3>1, <3>2, <3>3, <3>6, <2>6, <2>8, <2>9 DEF LentTo
      <3> QED BY <3>1, <3>6, <3>7, <3>8, <1>1 DEF LentTo
    <2>13. \A u \in Thread : LentTo(u, prio', mprio', taken', ceiling', Settled')
      <3>1. taken'[t] = taken[t] \ {m} /\ \A u \in Thread \ {n, t} : taken'[u] = taken[u]
        BY <2>7, <2>10
      <3> QED BY <3>1, <2>12, <1>3, <1>4
    <2>14. \A x \in Mutex : TracksAt(x, prio', mprio', waiters', Tracked')
      BY <2>11, <1>1
    <2> QED BY <2>13, <2>14, UrgencyNext
  <1> QED BY <1>5, <1>6

\* Fewer threads and mutexes to speak of.
LEMMA UrgencyFrom ==
    ASSUME NEW S, NEW X, Lent(prio', mprio', taken', ceiling', S),
           Tracks(prio', mprio', waiters', X), Settled' \subseteq S, Tracked' \subseteq X
    PROVE  Urgency'
  <1>1. Lent(prio', mprio', taken', ceiling', Settled')
    BY DEF Lent
  <1>2. Tracks(prio', mprio', waiters', Tracked')
    BY DEF Tracks
  <1> QED BY <1>1, <1>2 DEF Urgency

\* A ceiling that is set applies to the owner, and along the chain of owners.
LEMMA SetCeilingUrgency ==
    ASSUME IInv, IInv', Urgency, NEW m \in Mutex, NEW p \in Ceilings, SetCeiling(m, p)
    PROVE  Urgency'
  <1> DEFINE wait == WaitsOn(stat, pending)
             ceil == ceiling'
             o == owner[m]
             k == Now(mprio, waiters)
  <1>1. /\ ceiling' = [ceiling EXCEPT ![m] = p]
        /\ owner' = owner /\ live' = live /\ taken' = taken /\ pending' = pending
        /\ stat' = stat /\ nudged' = nudged /\ skipped' = skipped /\ op' = op
    BY DEF SetCeiling, history
  <1>2. Becomes(IF o = None THEN k ELSE Recompute(k, o, wait, taken, ceil))
    BY Zenon DEF SetCeiling
  <1>3. /\ waiters \in [Mutex -> Seq(Thread)] /\ mprio \in [Mutex -> Rank]
        /\ ceil \in [Mutex -> Rank] /\ prio \in [Thread -> PRIORITIES]
        /\ taken \in [Thread -> SUBSET Mutex] /\ owner \in [Mutex -> Thread \cup {None}]
        /\ ceiling \in [Mutex -> Rank] /\ pending \in [Thread -> Mutex \cup {None}]
        /\ \A n \in Mutex : IsInjective(waiters[n])
    BY DEF IInv, Types, WaitersLinked
  <1>4. Chains(wait, waiters, taken)
    <2>1. \A u \in Thread, n \in Mutex :
            /\ u \in Range(waiters[n]) <=> stat[u] = "SUSPEND" /\ pending[u] = n /\ ~Away(u)
            /\ u \in Range(waiters[n]) => n \in live /\ owner[n] \notin {None, u}
      BY DEF IInv, WaitersLinked
    <2> QED BY <2>1, <1>3, ChainsFrom
  <1>5. Settled' = Settled /\ Tracked' = Tracked
    BY <1>1 DEF Settled, Tracked, Leaving, Away
  <1>6. Tracks(prio, mprio, waiters, Tracked) /\ Settled \in SUBSET Thread
    BY DEF Urgency, Settled
  <1>7. \A n \in Mutex : n # m => ceil[n] = ceiling[n]
    BY <1>1, <1>3
  <1>8. ASSUME NEW u \in Thread, u # o
        PROVE  /\ prio[u] <= InitPrio[u] /\ \A n \in taken[u] : prio[u] <= mprio[n]
               /\ u \in Settled => GetMutexPriority(u, taken[u], mprio, ceil) <= prio[u]
    <2>1. m \notin taken[u]
      BY <1>8 DEF IInv, WaitersLinked
    <2>2. \A n \in taken[u] : mprio[n] = mprio[n] /\ ceil[n] = ceiling[n]
      BY <2>1, <1>3, <1>7
    <2> HIDE DEF ceil
    <2>3. GetMutexPriority(u, taken[u], mprio, ceil) = GetMutexPriority(u, taken[u], mprio, ceiling)
      BY <2>2, GetSame
    <2>4. LentTo(u, prio, mprio, taken, ceiling, Settled)
      BY UrgencyNow
    <2> QED BY <2>3, <2>4 DEF LentTo
  <1> HIDE DEF ceil, wait
  <1>9. CASE o = None
    <2>1. prio' = prio /\ mprio' = mprio /\ waiters' = waiters
      BY <1>2, <1>9 DEF Becomes, Now
    <2>2. \A u \in Thread : u # o
      BY <1>9, NoneIsNot
    <2>3. Lent(prio, mprio, taken, ceil, Settled)
      BY <2>2, <1>6, <1>8 DEF Lent
    <2>4. Lent(prio', mprio', taken', ceiling', Settled') /\ Tracks(prio', mprio', waiters', Tracked')
      BY <2>1, <2>3, <1>1, <1>5, <1>6 DEF ceil
    <2> QED BY <2>4 DEF Urgency
  <1>10. CASE o # None
    <2> DEFINE r == Recompute(k, o, wait, taken, ceil)
    <2>1. o \in Thread
      BY <1>3, <1>10
    <2>2. \A u \in Thread \ {o} :
            /\ prio[u] <= InitPrio[u] /\ \A n \in taken[u] : prio[u] <= mprio[n]
            /\ u \in Settled => GetMutexPriority(u, taken[u], mprio, ceil) <= prio[u]
      BY <1>8
    <2>3. Types
      BY DEF IInv
    <2> HIDE DEF o
    <2>4. LoopEnd(r, waiters, wait, taken, ceil, Settled, Tracked)
      BY ONLY <2>1, <2>2, <2>3, <1>3, <1>4, <1>6, RecomputeInherits
    <2>5. Becomes(r)
      BY <1>2, <1>10
    <2> HIDE DEF r
    <2>6. Lent(prio', mprio', taken, ceil, Settled) /\ Tracks(prio', mprio', waiters', Tracked)
      BY ONLY <2>4, <2>5, BecomesLent
    <2>7. Lent(prio', mprio', taken', ceiling', Settled') /\ Tracks(prio', mprio', waiters', Tracked')
      BY <2>6, <1>1, <1>5 DEF ceil
    <2> QED BY <2>7 DEF Urgency
  <1> QED BY <1>9, <1>10

\* A thread that gives up brings the mutex up to date, and the owner, if it has not
\* passed it over; st says who waits after that.
LEMMA DroppedUrgency ==
    ASSUME IInv, Urgency, NEW t \in Thread, NEW m \in Mutex, NEW st,
           \A u \in Thread : st[u] = "SUSPEND" <=> u # t /\ stat[u] = "SUSPEND",
           \A n \in Mutex : t \in Range(waiters[n]) => n = m,
           Becomes(Dropped(t, m, st)), taken' = taken, ceiling' = ceiling,
           Settled' \subseteq Settled, Settled' # {} => ~Skips(t, m),
           Tracked' \subseteq Tracked \cup {m}
    PROVE  Urgency'
  <1> DEFINE w == Without(m, t)
             h == HeadPriority(Unlink(waiters[m], t), prio)
             mp == [mprio EXCEPT ![m] = h]
             o == owner[m]
             wait == WaitsOn(st, pending)
             k == Now(mp, w)
             X == Tracked \cup {m}
  <1>1. Dropped(t, m, st) =
          IF o # None /\ prio[o] = prio[t] THEN Recompute(k, o, wait, taken, ceiling) ELSE k
    BY Zenon DEF Dropped, Without
  <1>2. /\ waiters \in [Mutex -> Seq(Thread)] /\ mprio \in [Mutex -> Rank]
        /\ ceiling \in [Mutex -> Rank] /\ prio \in [Thread -> PRIORITIES]
        /\ taken \in [Thread -> SUBSET Mutex] /\ owner \in [Mutex -> Thread \cup {None}]
        /\ pending \in [Thread -> Mutex \cup {None}] /\ Types
    BY DEF IInv, Types
  <1>3. /\ w \in [Mutex -> Seq(Thread)] /\ \A n \in Mutex : IsInjective(w[n])
        /\ \A n \in Mutex : Range(w[n]) = Range(waiters[n]) \ (IF n = m THEN {t} ELSE {})
    BY ONLY IInv, t \in Thread, m \in Mutex, WithoutSound
  <1>4. w[m] = Unlink(waiters[m], t)
    BY <1>2 DEF Without
  <1>5. Tracks(prio, mprio, waiters, Tracked)
    BY DEF Urgency
  <1>6. ASSUME NEW n \in Mutex
        PROVE  /\ Sorted(Without(m, t)[n], prio, None)
               /\ mprio[n] \in Nat /\ HeadPriority(Without(m, t)[n], prio) \in Nat
               /\ mprio[n] <= HeadPriority(Without(m, t)[n], prio)
               /\ n # m /\ n \in Tracked => mprio[n] = HeadPriority(Without(m, t)[n], prio)
    BY ONLY IInv, t \in Thread, m \in Mutex, n \in Mutex, <1>5, WithoutTracks
  <1>7. Chains(wait, w, taken)
    <2>1. ASSUME NEW u \in Thread, NEW n \in Mutex
          PROVE  /\ u \in Range(w[n]) <=> st[u] = "SUSPEND" /\ pending[u] = n /\ ~Away(u)
                 /\ u \in Range(w[n]) => n \in live /\ owner[n] \notin {None, u}
      <3>1. /\ u \in Range(waiters[n]) <=> stat[u] = "SUSPEND" /\ pending[u] = n /\ ~Away(u)
            /\ u \in Range(waiters[n]) => n \in live /\ owner[n] \notin {None, u}
        BY DEF IInv, WaitersLinked
      <3>2. u \in Range(w[n]) <=> u \in Range(waiters[n]) /\ u # t
        BY <1>3
      <3> QED BY <3>1, <3>2
    <2> HIDE DEF w
    <2> QED BY <2>1, <1>2, ChainsFrom
  <1> HIDE DEF w, wait
  <1>8. h \in Rank /\ h = HeadPriority(w[m], prio)
    <2>1. w[m] \in Seq(Thread)
      BY <1>3
    <2> QED BY <2>1, <1>2, <1>4, HeadPriorityRank
  <1> HIDE DEF h
  <1>9. mp \in [Mutex -> Rank] /\ \A n \in Mutex : mp[n] = IF n = m THEN h ELSE mprio[n]
    BY <1>2, <1>8
  <1> HIDE DEF mp
  <1>10. \A n \in Mutex : mprio[n] <= mp[n] /\ mp[n] \in Nat /\ mprio[n] \in Nat
    BY <1>6, <1>8, <1>9 DEF w
  <1>11. Tracks(prio, mp, w, X)
    <2>1. ASSUME NEW n \in Mutex
          PROVE  /\ Sorted(w[n], prio, None) /\ mp[n] <= HeadPriority(w[n], prio)
                 /\ n \in X => mp[n] = HeadPriority(w[n], prio)
      <3>1. CASE n = m
        BY <3>1, <1>6, <1>8, <1>9, <1>10 DEF w
      <3>2. CASE n # m
        BY <3>2, <1>6, <1>9 DEF w
      <3> QED BY <3>1, <3>2
    <2> QED BY <2>1 DEF Tracks
  <1>12. ASSUME NEW u \in Thread
         PROVE  /\ prio[u] <= InitPrio[u] /\ \A n \in taken[u] : prio[u] <= mp[n]
                /\ u # o /\ u \in Settled => GetMutexPriority(u, taken[u], mp, ceiling) <= prio[u]
    <2>1. LentTo(u, prio, mprio, taken, ceiling, Settled)
      BY UrgencyNow
    <2>2. prio[u] \in Nat /\ taken[u] \subseteq Mutex
      BY <1>2, PriorityIs
    <2>3. ASSUME NEW n \in taken[u] PROVE prio[u] <= mp[n]
      <3>1. n \in Mutex /\ prio[u] <= mprio[n]
        BY <2>1, <2>2 DEF LentTo
      <3> QED BY <3>1, <2>2, <1>10
    <2>4. ASSUME u # o
          PROVE  GetMutexPriority(u, taken[u], mp, ceiling) = GetMutexPriority(u, taken[u], mprio, ceiling)
      <3>1. m \notin taken[u]
        BY <2>4 DEF IInv, WaitersLinked
      <3>2. \A n \in taken[u] : mp[n] = mprio[n]
        BY <3>1, <2>2, <1>9
      <3> QED BY <3>2, GetSame
    <2> QED BY <2>1, <2>3, <2>4 DEF LentTo
  <1>13. CASE o # None /\ prio[o] = prio[t]
    <2> DEFINE r == Recompute(k, o, wait, taken, ceiling)
    <2>1. o \in Thread /\ Settled \in SUBSET Thread
      BY <1>2, <1>13 DEF Settled
    <2>2. \A u \in Thread \ {o} :
            /\ prio[u] <= InitPrio[u] /\ \A n \in taken[u] : prio[u] <= mp[n]
            /\ u \in Settled => GetMutexPriority(u, taken[u], mp, ceiling) <= prio[u]
      BY <1>12
    <2> HIDE DEF o, X
    <2>3. LoopEnd(r, w, wait, taken, ceiling, Settled, X)
      BY ONLY <2>1, <2>2, <1>2, <1>3, <1>7, <1>9, <1>11, RecomputeInherits
    <2>4. Becomes(r)
      BY <1>1, <1>13
    <2> HIDE DEF r
    <2>5. Lent(prio', mprio', taken, ceiling, Settled) /\ Tracks(prio', mprio', waiters', X)
      BY ONLY <2>3, <2>4, BecomesLent
    <2>6. Tracked' \subseteq X
      BY DEF X
    <2> QED BY <2>5, <2>6, UrgencyFrom
  <1>14. CASE ~(o # None /\ prio[o] = prio[t])
    <2>1. Becomes(k)
      BY <1>1, <1>14
    <2>2. prio' = prio /\ mprio' = mp /\ waiters' = w
      BY <2>1 DEF Becomes, Now
    <2>3. ASSUME NEW u \in Settled'
          PROVE  GetMutexPriority(u, taken[u], mp, ceiling) <= prio[u]
      <3>1. u \in Thread /\ u \in Settled
        BY DEF Settled
      <3>2. CASE u # o
        BY <3>1, <3>2, <1>12
      <3>3. CASE u = o
        <4>1. ~Skips(t, m) /\ o # None /\ prio[o] # prio[t]
          BY <2>3, <3>1, <3>3, <1>14, NoneIsNot
        <4>2. prio[o] = GetMutexPriority(o, taken[o], mp, ceiling)
          BY <4>1, <2>2 DEF Skips
        <4>3. prio[o] \in Nat
          BY <3>1, <3>3, <1>2, PriorityIs
        <4> QED BY <3>3, <4>2, <4>3
      <3> QED BY <3>2, <3>3
    <2>4. Lent(prio, mp, taken, ceiling, Settled')
      BY <2>3, <1>12 DEF Lent
    <2>5. Lent(prio', mprio', taken', ceiling', Settled') /\ Tracks(prio', mprio', waiters', X)
      BY <2>2, <2>4, <1>11
    <2> QED BY <2>5, UrgencyFrom
  <1> QED BY <1>13, <1>14

\* The last thing a thread does that gives up: it is pending on what it tried to take.
LEMMA TakeFailUrgency ==
    ASSUME IInv, PendingSound, Urgency, NEW t \in Thread, TakeFail(t)
    PROVE  Urgency'
  <1> DEFINE m == pc[t]
  <1>1. /\ stat[t] = "READY" /\ m \in Mutex /\ Becomes(Dropped(t, m, stat))
        /\ pending' = [pending EXCEPT ![t] = None]
        /\ skipped' = (skipped \/ Skips(t, m))
        /\ owner' = owner /\ ceiling' = ceiling /\ live' = live /\ taken' = taken
        /\ stat' = stat /\ nudged' = nudged /\ op' = op
    BY DEF TakeFail, Runs, IInv, Types
  <1>2. nudged = {} => pending[t] \in {None, m}
    BY <1>1 DEF PendingSound
  <1> HIDE DEF m
  <1>3. \A n \in Mutex : t \notin Range(waiters[n])
    BY <1>1 DEF IInv, WaitersLinked
  <1>4. Settled' \subseteq Settled /\ (Settled' # {} => ~Skips(t, m))
    BY <1>1 DEF Settled
  <1>5. Tracked' \subseteq Tracked \cup {m}
    <2>1. \A u \in Thread : pending'[u] = IF u = t THEN None ELSE pending[u]
      BY <1>1 DEF IInv, Types
    <2>2. ASSUME NEW n \in Tracked', n # m PROVE n \in Tracked
      <3>1. n \in live /\ n \in Mutex /\ nudged = {} /\ Leaving(n)' = {}
        BY <1>1 DEF Tracked, IInv, Types
      <3>2. Leaving(n) \subseteq Leaving(n)'
        BY <2>1, <2>2, <3>1, <1>1, <1>2, NoneIsNot DEF Leaving, Away
      <3> QED BY <3>1, <3>2 DEF Tracked
    <2> QED BY <2>2
  <1>6. \A u \in Thread : stat[u] = "SUSPEND" <=> u # t /\ stat[u] = "SUSPEND"
    BY <1>1
  <1> QED BY <1>1, <1>3, <1>4, <1>5, <1>6, DroppedUrgency

\* rt_mutex_drop_thread does the same for a thread that is deleted while it waits, or
\* before it has run; a mutex that is none any more is left as it is.
LEMMA CloseUrgency ==
    ASSUME IInv, Urgency, NEW t \in Thread, DeleteClose(t)
    PROVE  Urgency'
  <1> DEFINE m == pending[t]
  <1>1. /\ stat' = [stat EXCEPT ![t] = "CLOSE"] /\ op' = [op EXCEPT ![t] = "none"]
        /\ op[t] = "removed"
        /\ owner' = owner /\ ceiling' = ceiling /\ live' = live /\ taken' = taken
        /\ nudged' = nudged
    BY DEF DeleteClose
  <1>2. /\ m \notin live => UNCHANGED <<prio, mprio, waiters, pending, skipped>>
        /\ m \in live => /\ m \in Mutex /\ Becomes(Dropped(t, m, stat'))
                         /\ pending' = [pending EXCEPT ![t] = None]
                         /\ skipped' = (skipped \/ Skips(t, m))
    BY DEF DeleteClose, IInv, Types
  <1> HIDE DEF m
  <1>3. \A u \in Thread : /\ stat'[u] = IF u = t THEN "CLOSE" ELSE stat[u]
                          /\ u # t => pending'[u] = pending[u] /\ op'[u] = op[u]
    BY <1>1, <1>2 DEF IInv, Types
  <1>4. Settled' \subseteq Settled /\ (Settled' # {} /\ m \in live => ~Skips(t, m))
    <2>1. (skipped => skipped') /\ (m \in live /\ Skips(t, m) => skipped')
      <3>1. CASE m \in live
        BY <3>1, <1>2, Zenon
      <3>2. CASE m \notin live
        <4>1. skipped' = skipped
          BY <3>2, <1>2
        <4> QED BY <3>2, <4>1, Zenon
      <3> QED BY <3>1, <3>2
    <2> QED BY <1>1, <1>3, <2>1 DEF Settled
  <1>5. ASSUME NEW n \in Tracked', n # m PROVE n \in Tracked
    <2>1. n \in live /\ n \in Mutex /\ nudged = {} /\ Leaving(n)' = {}
      BY <1>1 DEF Tracked, IInv, Types
    <2>2. Leaving(n) \subseteq Leaving(n)'
      BY <2>1, <1>3, <1>5 DEF Leaving, Away, m
    <2> QED BY <2>1, <2>2 DEF Tracked
  <1>6. CASE m \notin live
    <2>1. \A n \in Tracked' : n # m
      BY <1>1, <1>6 DEF Tracked
    <2>2. Tracked' \subseteq Tracked
      BY <2>1, <1>5
    <2> QED BY <2>2, <1>1, <1>2, <1>4, <1>6, UrgencyLess
  <1>7. CASE m \in live
    <2>1. Tracked' \subseteq Tracked \cup {m}
      BY <1>5
    <2>2. \A n \in Mutex : t \in Range(waiters[n]) => n = m
      BY DEF IInv, WaitersLinked, m
    <2>3. \A u \in Thread : stat'[u] = "SUSPEND" <=> u # t /\ stat[u] = "SUSPEND"
      BY <1>3
    <2>4. m \in Mutex /\ Becomes(Dropped(t, m, stat')) /\ (Settled' # {} => ~Skips(t, m))
      BY <1>2, <1>4, <1>7
    <2> QED BY <2>1, <2>2, <2>3, <2>4, <1>1, <1>4, DroppedUrgency
  <1> QED BY <1>6, <1>7

\* The first of a list that a thread is put in.
LEMMA EnqueueHead ==
    ASSUME NEW list \in Seq(Thread), IsInjective(list), NEW t \in Thread, t \notin Range(list),
           NEW pr \in [Thread -> PRIORITIES], Sorted(list, pr, None)
    PROVE  HeadPriority(Enqueue(list, t, "PRIO", pr), pr) = MinOf(HeadPriority(list, pr), pr[t])
  <1> DEFINE q == Enqueue(list, t, "PRIO", pr)
  <1>1. pr \in [Thread -> Nat]
    BY RanksAre
  <1>2. q \in Seq(Thread) /\ Range(q) = Range(list) \cup {t}
    BY <1>1, EnqueueLinks
  <1>3. Sorted(q, pr, None)
    BY EnqueueSorted
  <1> HIDE DEF q
  <1>4. /\ HeadPriority(q, pr) \in Nat /\ HeadPriority(list, pr) \in Nat
        /\ HeadPriority(list, pr) <= PRIO_NONE
        /\ \A u \in Range(list) : HeadPriority(list, pr) <= pr[u]
        /\ \A u \in Range(q) : HeadPriority(q, pr) <= pr[u]
    BY <1>2, <1>3, HeadIsLeast
  <1>5. HeadPriority(q, pr) <= HeadPriority(list, pr)
    BY <1>2, <1>3, HeadOfFewer
  <1>6. q # <<>>
    BY <1>2, ListEmpty
  <1>7. PICK u \in Range(q) : HeadPriority(q, pr) = pr[u]
    BY <1>2, <1>3, <1>6, HeadIsLeast
  <1>8. u = t \/ u \in Range(list)
    BY <1>2
  <1>9. pr[t] \in Nat /\ HeadPriority(q, pr) <= pr[t]
    BY <1>1, <1>2, <1>4
  <1>10. HeadPriority(q, pr) = pr[t] \/ HeadPriority(list, pr) <= HeadPriority(q, pr)
    BY <1>4, <1>7, <1>8
  <1>11. HeadPriority(q, pr) = MinOf(HeadPriority(list, pr), pr[t])
    BY <1>4, <1>5, <1>9, <1>10 DEF MinOf
  <1> QED BY <1>11 DEF q

\* The owner, and whoever it waits for, inherits what the new waiter brings.
LEMMA TakeBlockUrgency ==
    ASSUME IInv, PendingSound, Urgency, NEW t \in Thread, NEW m \in Mutex,
           NEW timed \in BOOLEAN, TakeBlock(t, m, timed)
    PROVE  Urgency'
  <1> DEFINE o == owner[m]
             p == prio[t]
             q == Enqueue(waiters[m], t, "PRIO", prio)
             mp == [mprio EXCEPT ![m] = MinOf(@, prio[t])]
             w == [waiters EXCEPT ![m] = q]
             k == Now(mp, w)
             wait == WaitsOn(stat', pending')
             r == UpdatePriority(k, o, p, wait, taken, ceiling)
  <1>1. /\ stat[t] = "READY" /\ pc[t] = None /\ m \in live /\ o \in Thread /\ o # t
        /\ ~Away(t)
    BY DEF TakeBlock, Calls, Runs, IInv, Types, AwaySound, Away
  <1>2. /\ stat' = [stat EXCEPT ![t] = "SUSPEND"] /\ pending' = [pending EXCEPT ![t] = m]
        /\ owner' = owner /\ ceiling' = ceiling /\ live' = live /\ taken' = taken
        /\ nudged' = nudged /\ skipped' = skipped /\ op' = op
    BY DEF TakeBlock, history
  <1>3. Becomes(IF prio[t] < mprio[m] /\ prio[t] < prio[o] THEN r ELSE k)
    BY Zenon DEF TakeBlock
  <1>4. /\ waiters \in [Mutex -> Seq(Thread)] /\ mprio \in [Mutex -> Rank]
        /\ ceiling \in [Mutex -> Rank] /\ prio \in [Thread -> PRIORITIES]
        /\ taken \in [Thread -> SUBSET Mutex] /\ Types
        /\ \A n \in Mutex : IsInjective(waiters[n])
    BY DEF IInv, Types, WaitersLinked
  <1>5. /\ \A u \in Thread, n \in Mutex :
             /\ u \in Range(waiters[n]) <=> stat[u] = "SUSPEND" /\ pending[u] = n /\ ~Away(u)
             /\ u \in Range(waiters[n]) => n \in live /\ owner[n] \notin {None, u}
             /\ n \in taken[u] <=> n \in live /\ owner[n] = u
        /\ \A n \in Mutex : t \notin Range(waiters[n])
    BY <1>1 DEF IInv, WaitersLinked
  <1>6. \A u \in Thread : /\ stat'[u] = IF u = t THEN "SUSPEND" ELSE stat[u]
                          /\ pending'[u] = IF u = t THEN m ELSE pending[u]
    BY <1>2 DEF IInv, Types
  <1>7. Settled' \subseteq Settled /\ Settled \in SUBSET Thread
    BY <1>1, <1>2, <1>6 DEF Settled
  <1>8. Tracked' \subseteq Tracked
    <2>1. nudged = {} => pending[t] = None
      BY <1>1 DEF PendingSound
    <2>2. ASSUME NEW n \in Tracked' PROVE n \in Tracked
      <3>1. n \in live /\ n \in Mutex /\ nudged = {} /\ Leaving(n)' = {}
        BY <1>2 DEF Tracked, IInv, Types
      <3>2. Leaving(n) \subseteq Leaving(n)'
        BY <2>1, <3>1, <1>2, <1>6, NoneIsNot DEF Leaving, Away
      <3> QED BY <3>1, <3>2 DEF Tracked
    <2> QED BY <2>2
  <1>9. TracksAt(m, prio, mprio, waiters, Tracked)
    BY UrgencyNow
  <1>10. /\ q \in Seq(Thread) /\ IsInjective(q) /\ Range(q) = Range(waiters[m]) \cup {t}
    <2>1. waiters[m] \in Seq(Thread) /\ IsInjective(waiters[m]) /\ prio \in [Thread -> Nat]
      BY <1>4, RanksAre
    <2> QED BY <2>1, <1>5, EnqueueLinks
  <1>11. Sorted(q, prio, None)
    BY <1>4, <1>9, EnqueueSorted DEF TracksAt
  <1>12. HeadPriority(q, prio) = MinOf(HeadPriority(waiters[m], prio), prio[t])
    BY <1>4, <1>5, <1>9, EnqueueHead DEF TracksAt
  <1> HIDE DEF q
  <1>13. /\ w \in [Mutex -> Seq(Thread)] /\ \A n \in Mutex : IsInjective(w[n])
         /\ \A n \in Mutex : w[n] = IF n = m THEN q ELSE waiters[n]
    BY <1>4, <1>10
  <1>14. mp \in [Mutex -> Rank] /\ \A n \in Mutex : mp[n] = IF n = m THEN MinOf(mprio[m], p) ELSE mprio[n]
    <2>1. MinOf(mprio[m], p) \in Rank
      BY <1>4, MinOfRanks DEF Rank
    <2> QED BY <2>1, <1>4
  <1> HIDE DEF w, mp
  <1>15. Chains(wait, w, taken)
    <2>1. ASSUME NEW u \in Thread, NEW n \in Mutex
          PROVE  /\ u \in Range(w[n]) <=> stat'[u] = "SUSPEND" /\ pending'[u] = n /\ ~Away(u)
                 /\ u \in Range(w[n]) => n \in live /\ owner[n] \notin {None, u}
      <3>1. u \in Range(w[n]) <=> u \in Range(waiters[n]) \/ (u = t /\ n = m)
        BY <1>10, <1>13
      <3>2. CASE u = t
        BY <3>1, <3>2, <1>1, <1>5, <1>6, NoneIsNot
      <3>3. CASE u # t
        BY <3>1, <3>3, <1>5, <1>6
      <3> QED BY <3>2, <3>3
    <2>2. pending' \in [Thread -> Mutex \cup {None}]
      BY <1>2 DEF IInv, Types
    <2> QED BY <2>1, <2>2, ChainsFrom
  <1> HIDE DEF wait
  <1>16. /\ p \in PRIORITIES /\ p \in Nat /\ prio[o] \in Nat /\ mprio[m] \in Nat
         /\ HeadPriority(waiters[m], prio) \in Nat
    <2>1. waiters[m] \in Seq(Thread) /\ mprio[m] \in Rank
      BY <1>4
    <2> QED BY <2>1, <1>1, <1>4, <1>9, PriorityIs, RanksAre, HeadIsLeast DEF TracksAt
  <1>17. Tracks(prio, mp, w, Tracked)
    <2>1. ASSUME NEW n \in Mutex
          PROVE  /\ Sorted(w[n], prio, None) /\ mp[n] <= HeadPriority(w[n], prio)
                 /\ n \in Tracked => mp[n] = HeadPriority(w[n], prio)
      <3>1. CASE n = m
        <4>1. w[n] = q /\ mp[n] = MinOf(mprio[m], p)
          BY <3>1, <1>13, <1>14
        <4>2. /\ mprio[m] <= HeadPriority(waiters[m], prio)
              /\ m \in Tracked => mprio[m] = HeadPriority(waiters[m], prio)
          BY <1>9 DEF TracksAt
        <4>3. MinOf(mprio[m], p) <= MinOf(HeadPriority(waiters[m], prio), p)
          BY <4>2, <1>16 DEF MinOf
        <4> QED BY <3>1, <4>1, <4>2, <4>3, <1>11, <1>12
      <3>2. CASE n # m
        <4>1. TracksAt(n, prio, mprio, waiters, Tracked)
          BY UrgencyNow
        <4> QED BY <3>2, <4>1, <1>13, <1>14 DEF TracksAt
      <3> QED BY <3>1, <3>2
    <2> QED BY <2>1 DEF Tracks
  <1>18. \A n \in Mutex : mp[n] <= mprio[n] /\ mp[n] \in Nat /\ mprio[n] \in Nat
    <2>1. \A n \in Mutex : mprio[n] \in Rank
      BY <1>4
    <2>2. \A n \in Mutex : mprio[n] \in Nat
      BY <2>1, RanksAre
    <2> QED BY <2>2, <1>14, <1>16 DEF MinOf
  <1>19. ASSUME NEW u \in Thread, u # o
         PROVE  /\ prio[u] <= InitPrio[u] /\ \A n \in taken[u] : prio[u] <= mp[n]
                /\ u \in Settled => GetMutexPriority(u, taken[u], mp, ceiling) <= prio[u]
    <2>1. LentTo(u, prio, mprio, taken, ceiling, Settled)
      BY UrgencyNow
    <2>2. \A n \in taken[u] : mp[n] = mprio[n]
      BY <1>4, <1>5, <1>14, <1>19
    <2>3. GetMutexPriority(u, taken[u], mp, ceiling) = GetMutexPriority(u, taken[u], mprio, ceiling)
      BY <2>2, GetSame
    <2> QED BY <2>1, <2>2, <2>3 DEF LentTo
  <1>20. LentTo(o, prio, mprio, taken, ceiling, Settled) /\ InitPrio[o] \in Nat
    BY <1>1, UrgencyNow, RanksAre
  <1>21. m \in taken[o] /\ taken[o] \in SUBSET Mutex
    BY <1>1, <1>4, <1>5
  <1>22. CASE prio[t] < mprio[m] /\ prio[t] < prio[o]
    <2>1. mp[m] = p
      BY <1>14, <1>16, <1>22 DEF MinOf
    <2>2. p <= InitPrio[o]
      BY <1>16, <1>20, <1>22 DEF LentTo
    <2>3. ASSUME NEW n \in taken[o] PROVE p <= mp[n]
      <3>1. n \in Mutex /\ prio[o] <= mprio[n] /\ mprio[n] \in Nat
        BY <1>18, <1>20, <1>21 DEF LentTo
      <3>2. CASE n = m
        BY <3>2, <2>1, <1>16
      <3>3. CASE n # m
        BY <3>1, <3>3, <1>14, <1>16, <1>22
      <3> QED BY <3>2, <3>3
    <2>4. GetMutexPriority(o, taken[o], mp, ceiling) <= p
      <3>1. mp \in [Mutex -> Rank] /\ ceiling \in [Mutex -> Rank]
        BY <1>4, <1>14
      <3>2. \A n \in taken[o] : GetMutexPriority(o, taken[o], mp, ceiling) <= mp[n]
        BY ONLY <3>1, <1>1, <1>21, GetIsLeast
      <3>3. GetMutexPriority(o, taken[o], mp, ceiling) <= mp[m]
        BY ONLY <3>2, <1>21
      <3> QED BY ONLY <3>3, <2>1
    <2>5. \A u \in Thread \ {o} :
            /\ prio[u] <= InitPrio[u] /\ \A n \in taken[u] : prio[u] <= mp[n]
            /\ u \in Settled => GetMutexPriority(u, taken[u], mp, ceiling) <= prio[u]
      BY <1>19
    <2>6. \A n \in taken[o] : p <= mp[n]
      BY <2>3
    <2> HIDE DEF o, p
    <2>7. LoopEnd(r, w, wait, taken, ceiling, Settled, Tracked)
      <3>1. /\ o \in Thread /\ p \in PRIORITIES /\ Settled \in SUBSET Thread
            /\ Types /\ taken \in [Thread -> SUBSET Mutex] /\ ceiling \in [Mutex -> Rank]
            /\ w \in [Mutex -> Seq(Thread)] /\ mp \in [Mutex -> Rank]
        BY <1>1, <1>4, <1>7, <1>13, <1>14, <1>16
      <3>2. \A n \in Mutex : IsInjective(w[n])
        BY <1>13
      <3> QED BY ONLY <2>2, <2>4, <2>5, <2>6, <3>1, <3>2, <1>15, <1>17, UpdateFrom
    <2>8. Becomes(r)
      BY <1>3, <1>22 DEF o
    <2> HIDE DEF r
    <2>9. Lent(prio', mprio', taken, ceiling, Settled) /\ Tracks(prio', mprio', waiters', Tracked)
      BY ONLY <2>7, <2>8, BecomesLent
    <2> QED BY <2>9, <1>2, <1>7, <1>8, UrgencyFrom
  <1>23. CASE ~(prio[t] < mprio[m] /\ prio[t] < prio[o])
    <2>1. Becomes(k)
      BY <1>3, <1>23
    <2>2. prio' = prio /\ mprio' = mp /\ waiters' = w
      BY <2>1 DEF Becomes, Now
    <2>3. ASSUME NEW n \in taken[o] PROVE prio[o] <= mp[n]
      <3>1. n \in Mutex /\ prio[o] <= mprio[n] /\ mprio[n] \in Nat
        BY <1>18, <1>20, <1>21 DEF LentTo
      <3>2. CASE n = m
        BY <3>1, <3>2, <1>14, <1>16, <1>23 DEF MinOf
      <3>3. CASE n # m
        BY <3>1, <3>3, <1>14
      <3> QED BY <3>2, <3>3
    <2>4. o \in Settled => GetMutexPriority(o, taken[o], mp, ceiling) <= prio[o]
      <3>1. \A n \in taken[o] : mp[n] <= mprio[n]
        BY <1>18, <1>21
      <3>2. GetMutexPriority(o, taken[o], mp, ceiling) <= GetMutexPriority(o, taken[o], mprio, ceiling)
        <4>1. taken[o] \subseteq taken[o]
          OBVIOUS
        <4> QED BY <3>1, <4>1, <1>1, <1>4, <1>14, <1>21, GetMore
      <3>3. /\ GetMutexPriority(o, taken[o], mp, ceiling) \in Nat
            /\ GetMutexPriority(o, taken[o], mprio, ceiling) \in Nat
        BY <1>1, <1>4, <1>14, <1>21, GetIsLeast
      <3> QED BY <3>2, <3>3, <1>16, <1>20 DEF LentTo
    <2>5. prio[o] <= InitPrio[o]
      BY <1>20 DEF LentTo
    <2>6. Lent(prio, mp, taken, ceiling, Settled)
      BY <2>3, <2>4, <2>5, <1>7, <1>19 DEF Lent
    <2>7. Lent(prio', mprio', taken', ceiling', Settled) /\ Tracks(prio', mprio', waiters', Tracked)
      BY <2>2, <2>6, <1>2, <1>17
    <2> QED BY <2>7, <1>7, <1>8, UrgencyFrom
  <1> QED BY <1>22, <1>23

\* Nobody has a mutex, and everybody has the priority they were made with.
LEMMA PriorityInit == Init => PriorityInv
  <1> SUFFICES ASSUME Init PROVE PriorityInv
    OBVIOUS
  <1>1. IInv
    BY InitInv
  <1>2. /\ \A t \in Thread : taken[t] = {} /\ pending[t] = None
        /\ \A m \in Mutex : waiters[m] = <<>> /\ mprio[m] = PRIO_NONE
        /\ prio = InitPrio
    BY DEF Init
  <1>3. PRIO_NONE \in Rank /\ \A u \in Thread : InitPrio[u] \in Nat
    BY RanksAre DEF Rank
  <1>4. ASSUME NEW n \in Mutex PROVE TracksAt(n, prio, mprio, waiters, Tracked)
    BY <1>2, <1>3, TracksNobody
  <1>5. Tracks(prio, mprio, waiters, Tracked)
    BY <1>4 DEF Tracks, TracksAt
  <1>6. ASSUME NEW u \in Thread
        PROVE  /\ prio[u] <= InitPrio[u] /\ \A m \in taken[u] : prio[u] <= mprio[m]
               /\ GetMutexPriority(u, taken[u], mprio, ceiling) <= prio[u]
    <2>1. taken[u] \in SUBSET Mutex /\ mprio \in [Mutex -> Rank] /\ ceiling \in [Mutex -> Rank]
      BY <1>1 DEF IInv, Types
    <2>2. GetMutexPriority(u, taken[u], mprio, ceiling) <= InitPrio[u]
      BY <2>1, GetIsLeast
    <2> QED BY <2>2, <1>2, <1>3
  <1>7. Lent(prio, mprio, taken, ceiling, Settled)
    BY <1>6 DEF Lent, Settled
  <1>8. PendingSound
    BY <1>2 DEF PendingSound
  <1> QED BY <1>5, <1>7, <1>8 DEF PriorityInv, Urgency

\* Every action keeps the priorities right.
LEMMA UrgencySteps ==
    ASSUME IInv, IInv', PriorityInv, [Next]_vars
    PROVE  Urgency'
  <1>1. Urgency
    BY DEF PriorityInv
  <1>2. CASE UNCHANGED vars
    <2>1. UNCHANGED <<prio, mprio, taken, ceiling, waiters, owner, live, stat, pending,
                      op, nudged, skipped>>
      BY <1>2 DEF vars, mutexVars, threadVars, history
    <2> QED BY <2>1, <1>1, UrgencyKept
  <1>3. ASSUME NEW t \in Thread, NEW m \in Mutex, TakeAgain(t, m) \/ ReleaseAgain(t, m)
        PROVE  Urgency'
    <2>1. UNCHANGED <<prio, mprio, taken, ceiling, waiters, owner, live, stat, pending,
                      op, nudged, skipped>>
      BY <1>3 DEF TakeAgain, ReleaseAgain, threadVars, history
    <2> QED BY <2>1, <1>1, UrgencyKept
  <1>4. ASSUME NEW t \in Thread, TakeReturn(t) PROVE Urgency'
    <2>1. UNCHANGED <<prio, mprio, taken, ceiling, waiters, owner, live, stat, pending,
                      op, nudged, skipped>>
      BY <1>4 DEF TakeReturn, mutexVars, history
    <2> QED BY <2>1, <1>1, UrgencyKept
  <1>5. ASSUME NEW t \in Thread, NEW m \in Mutex, TakeFree(t, m) PROVE Urgency'
    BY <1>1, <1>5, TakeFreeUrgency
  <1>6. ASSUME NEW t \in Thread, NEW m \in Mutex, Release(t, m) PROVE Urgency'
    BY <1>1, <1>6, ReleaseUrgency
  <1>7. ASSUME NEW t \in Thread, NEW m \in Mutex, NEW timed \in BOOLEAN, TakeBlock(t, m, timed)
        PROVE  Urgency'
    BY <1>1, <1>7, TakeBlockUrgency DEF PriorityInv
  <1>8. ASSUME NEW t \in Thread, TakeFail(t) PROVE Urgency'
    BY <1>1, <1>8, TakeFailUrgency DEF PriorityInv
  <1>9. ASSUME NEW t \in Thread, Timeout(t) \/ ResumeUnlink(t) \/ ResumeInsert(t)
        PROVE  Urgency'
    BY <1>1, <1>9, TimeoutUrgency, ResumeUrgency
  <1>10. ASSUME NEW t \in Thread, DeleteRemove(t) \/ DeleteClose(t) PROVE Urgency'
    BY <1>1, <1>10, RemoveUrgency, CloseUrgency
  <1>13. ASSUME NEW t \in Thread, Race(t) PROVE Urgency'
    <2>1. UNCHANGED <<prio, mprio, taken, ceiling, waiters, owner, live, stat, pending,
                      op, nudged, skipped>>
      BY <1>13 DEF Race, mutexVars, threadVars
    <2> QED BY <2>1, <1>1, UrgencyKept
  <1>11. ASSUME NEW m \in Mutex, Detach(m) PROVE Urgency'
    BY <1>1, <1>11, DetachUrgency
  <1>12. ASSUME NEW m \in Mutex, NEW p \in Ceilings, SetCeiling(m, p) PROVE Urgency'
    BY <1>1, <1>12, SetCeilingUrgency
  <1> QED BY <1>2, <1>3, <1>4, <1>5, <1>6, <1>7, <1>8, <1>9, <1>10, <1>11, <1>12, <1>13
          DEF Next

-----------------------------------------------------------------------------

\* The priorities are right in every reachable state: no thread is less urgent than its
\* mutexes ask for, none more urgent unless it was passed over, every list is in order,
\* and every mutex has the priority of its first waiter or a more urgent one.
THEOREM PriorityInvariant == Spec => []PriorityInv
  <1>1. Init => PriorityInv
    BY PriorityInit
  <1>2. IInv /\ IInv' /\ PriorityInv /\ [Next]_vars => PriorityInv'
    <2> SUFFICES ASSUME IInv, IInv', PriorityInv, [Next]_vars PROVE PriorityInv'
      OBVIOUS
    <2>1. PendingSound'
      BY PendingNext DEF PriorityInv
    <2>2. Urgency'
      BY UrgencySteps
    <2> QED BY <2>1, <2>2 DEF PriorityInv
  <1> QED BY <1>1, <1>2, MutexInvariant, PTL DEF Spec

\* The waiters of a mutex stand in the order of their present priorities: _ipc_list_suspend
\* finds the place of a new one, and _thread_update_priority that of one whose priority
\* has changed while it waited, all along the chain of owners.
THEOREM OrderCorrect == Spec => []QueueInOrder
  <1>1. IInv /\ PriorityInv => QueueInOrder
    <2> SUFFICES ASSUME IInv, PriorityInv, NEW m \in Mutex,
                        NEW i \in 1 .. Len(waiters[m]), NEW j \in 1 .. Len(waiters[m]), i < j
                 PROVE  prio[waiters[m][i]] <= prio[waiters[m][j]]
      BY DEF QueueInOrder
    <2>1. waiters[m] \in Seq(Thread)
      BY DEF IInv, Types
    <2>2. Sorted(waiters[m], prio, None)
      BY DEF PriorityInv, Urgency, Tracks
    <2>3. waiters[m][i] \in Thread /\ waiters[m][j] \in Thread
      BY <2>1
    <2>4. None \in {waiters[m][i], waiters[m][j]} \/ prio[waiters[m][i]] <= prio[waiters[m][j]]
      BY <2>1, <2>2, SortedAre
    <2> QED BY <2>3, <2>4, NoneIsNot
  <1> QED BY <1>1, MutexInvariant, PriorityInvariant, PTL

\* mutex->priority is what the first waiter brings, though it is kept in a field of its
\* own that the last waiter to leave, the release and _thread_update_priority each write;
\* until a thread that gave up has run, or one that is deleted is closed, it may be more
\* urgent, never less.
THEOREM TracksCorrect == Spec => []MutexPriorityTracks
  <1>1. IInv /\ PriorityInv => MutexPriorityTracks
    <2> SUFFICES ASSUME IInv, PriorityInv, NEW m \in live
                 PROVE  /\ mprio[m] <= HeadPriority(waiters[m], prio)
                        /\ Leaving(m) = {} /\ nudged = {} => mprio[m] = HeadPriority(waiters[m], prio)
      BY DEF MutexPriorityTracks
    <2>1. m \in Mutex
      BY DEF IInv, Types
    <2> QED BY <2>1 DEF PriorityInv, Urgency, Tracks, Tracked
  <1> QED BY <1>1, MutexInvariant, PriorityInvariant, PTL

\* The owner of a mutex is at least as urgent as every thread that waits for it, and so,
\* along the chain, is whoever the owner waits for: inheritance leaves nobody out, however
\* the waiters come, give up, are deleted or change their priorities.
THEOREM InversionCorrect == Spec => []NoInversion
  <1>1. IInv /\ PriorityInv => NoInversion
    <2> SUFFICES ASSUME IInv, PriorityInv, NEW m \in Mutex, NEW t \in Range(waiters[m])
                 PROVE  prio[owner[m]] <= prio[t]
      BY DEF NoInversion
    <2>1. /\ waiters[m] \in Seq(Thread) /\ prio \in [Thread -> PRIORITIES] /\ mprio[m] \in Rank
          /\ owner[m] \in Thread \cup {None}
      BY DEF IInv, Types
    <2>2. t \in Thread
      BY <2>1, ListEmpty
    <2>3. owner[m] \in Thread /\ m \in taken[owner[m]]
      BY <2>1, <2>2 DEF IInv, WaitersLinked
    <2>4. prio[owner[m]] <= mprio[m]
      BY <2>3 DEF PriorityInv, Urgency, Lent
    <2>5. mprio[m] <= HeadPriority(waiters[m], prio) /\ Sorted(waiters[m], prio, None)
      BY DEF PriorityInv, Urgency, Tracks
    <2>6. HeadPriority(waiters[m], prio) \in Nat /\ HeadPriority(waiters[m], prio) <= prio[t]
      BY <2>1, <2>5, HeadIsLeast
    <2>7. prio[owner[m]] \in Nat /\ prio[t] \in Nat /\ mprio[m] \in Nat
      BY <2>1, <2>2, <2>3, PriorityIs, RanksAre
    <2> QED BY <2>4, <2>5, <2>6, <2>7
  <1> QED BY <1>1, MutexInvariant, PriorityInvariant, PTL

\* What a thread inherited, or got from a ceiling, ends with the last of its mutexes:
\* a release and a waiter that gives up look again at what the other mutexes ask for.
THEOREM RestoredCorrect == Spec => []PriorityRestored
  <1>1. IInv /\ PriorityInv => PriorityRestored
    <2> SUFFICES ASSUME IInv, PriorityInv, nudged = {}, ~skipped, NEW t \in Thread,
                        \A m \in Mutex : owner[m] # t, stat[t] # "CLOSE"
                 PROVE  prio[t] = InitPrio[t]
      BY DEF PriorityRestored
    <2>1. t \in Settled
      BY DEF Settled
    <2>2. taken[t] = {}
      BY DEF IInv, Types, WaitersLinked
    <2>3. mprio \in [Mutex -> Rank] /\ ceiling \in [Mutex -> Rank] /\ prio \in [Thread -> PRIORITIES]
      BY DEF IInv, Types
    <2>4. GetMutexPriority(t, {}, mprio, ceiling) = InitPrio[t]
      BY <2>3, GetIsLeast
    <2>5. InitPrio[t] <= prio[t] /\ prio[t] <= InitPrio[t]
      BY <2>1, <2>2, <2>4 DEF PriorityInv, Urgency, Lent
    <2>6. prio[t] \in Nat /\ InitPrio[t] \in Nat
      BY <2>3, PriorityIs, RanksAre
    <2> QED BY <2>5, <2>6
  <1> QED BY <1>1, MutexInvariant, PriorityInvariant, PTL

=============================================================================
