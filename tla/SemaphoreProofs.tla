--------------------------- MODULE SemaphoreProofs ---------------------------
(***************************************************************************)
(* The semaphore conserves its tokens, loses no wake-up and serves its       *)
(* waiters in order, for any number of threads and any limit of the count.   *)
(***************************************************************************)
EXTENDS Semaphore, ListProofs

\* The pairs of threads that are served in this order.
InOrder == {w \in Thread \X Thread : Precedes(w[1], w[2])}

\* The threads that hold a token they have not returned with.
Holders == {t \in Thread : Granted(t)}

\* The inductive invariant.  The order of the list is only kept as long as the
\* priority of a thread that waits does not change.
IInv ==
    /\ TypeOK /\ WaitersSound /\ NoLostWakeup /\ TokensConserved
    /\ ~Reprio => QueueInOrder

-----------------------------------------------------------------------------
(* Lemmas.                                                                  *)

\* QueueInOrder as an order of the list.
LEMMA OrderOfList ==
    ASSUME waiters \in Seq(Thread)
    PROVE  QueueInOrder <=> Ordered(waiters, InOrder)
  <1>1. \A i \in 1 .. Len(waiters) : waiters[i] \in Thread
    OBVIOUS
  <1>2. \A i, j \in 1 .. Len(waiters) :
            Precedes(waiters[i], waiters[j]) <=> <<waiters[i], waiters[j]>> \in InOrder
    BY <1>1 DEF InOrder
  <1> QED BY <1>2 DEF QueueInOrder, Ordered

\* And in the next state.
LEMMA OrderOfNextList ==
    ASSUME waiters' \in Seq(Thread)
    PROVE  QueueInOrder' <=> Ordered(waiters', InOrder')
  <1>1. \A i \in 1 .. Len(waiters') : waiters'[i] \in Thread
    OBVIOUS
  <1>2. \A i, j \in 1 .. Len(waiters') :
            Precedes(waiters[i], waiters[j])' <=> <<waiters'[i], waiters'[j]>> \in InOrder'
    BY <1>1 DEF InOrder
  <1> QED BY <1>2 DEF QueueInOrder, Ordered

\* The token holders are finitely many.
LEMMA HoldersFinite ==
    /\ IsFiniteSet(Holders) /\ Cardinality(Holders) \in Nat
    /\ \A t \in Holders : Cardinality(Holders) > 0
  <1>1. IsFiniteSet(Holders)
    BY SemaphoreAssumption, FS_Subset DEF Holders
  <1>2. Cardinality(Holders) \in Nat
    BY <1>1, FS_CardinalityType
  <1>3. Holders # {} => Cardinality(Holders) # 0
    BY <1>1, FS_EmptySet
  <1> QED BY <1>1, <1>2, <1>3

\* A step that leaves priorities and arrivals of the waiters alone, and at most
\* removes waiters, keeps the order.
LEMMA OrderKept ==
    ASSUME waiters \in Seq(Thread), waiters' \in Seq(Thread), QueueInOrder,
           Ordered(waiters', InOrder),
           \A u, v \in Range(waiters') : /\ prio'[u] = prio[u]
                                         /\ <<u, v>> \in before => <<u, v>> \in before'
    PROVE  QueueInOrder'
  <1>1. \A u, v \in Range(waiters') : u \in Thread /\ v \in Thread
    BY ListEmpty
  <1>2. \A u, v \in Range(waiters') : <<u, v>> \in InOrder => <<u, v>> \in InOrder'
    BY <1>1 DEF InOrder, Precedes
  <1>3. Ordered(waiters', InOrder')
    BY <1>2, OrderedKept
  <1> QED BY <1>3, OrderOfNextList

\* A thread leaves the list, and the others keep their order.
LEMMA UnlinkedWaiter ==
    ASSUME IInv, NEW t \in Thread, Unlinked(t), UNCHANGED prio
    PROVE  /\ waiters' \in Seq(Thread) /\ IsInjective(waiters')
           /\ Range(waiters') = Range(waiters) \ {t}
           /\ armed' = armed \ {t} /\ armed' \subseteq Thread
           /\ before' \subseteq Thread \X Thread
           /\ waiters = <<>> => waiters' = <<>>
           /\ ~Reprio => QueueInOrder'
  <1>1. /\ waiters' = Unlink(waiters, t) /\ armed' = armed \ {t}
        /\ before' = {b \in before : b[1] # t /\ b[2] # t}
    BY DEF Unlinked
  <1>2. armed' \subseteq Thread /\ before' \subseteq Thread \X Thread
    BY <1>1 DEF IInv, TypeOK
  <1>3. waiters \in Seq(Thread) /\ IsInjective(waiters)
    BY DEF IInv, TypeOK, WaitersSound
  <1>4. /\ waiters' \in Seq(Thread) /\ IsInjective(waiters')
        /\ Range(waiters') = Range(waiters) \ {t}
    BY <1>1, <1>3, UnlinkUnlinks
  <1>5. waiters = <<>> => waiters' = <<>>
    BY <1>3, <1>4, ListEmpty
  <1>6. ASSUME ~Reprio PROVE QueueInOrder'
    <2>1. QueueInOrder /\ Ordered(waiters, InOrder)
      BY <1>3, <1>6, OrderOfList DEF IInv
    <2>2. Ordered(waiters', InOrder)
      BY <1>1, <1>3, <2>1, UnlinkOrdered
    <2>3. \A u, v \in Range(waiters') : <<u, v>> \in before => <<u, v>> \in before'
      BY <1>1, <1>4
    <2> QED BY <1>3, <1>4, <2>1, <2>2, <2>3, OrderKept
  <1> QED BY <1>1, <1>2, <1>4, <1>5, <1>6

\* rt_thread_resume of a waiter with interrupts disabled.
LEMMA ResumedWaiter ==
    ASSUME IInv, NEW t \in Range(waiters), Resumed(t), UNCHANGED <<prio, resume, pc>>,
           NEW e \in Error, error' = [error EXCEPT ![t] = e]
    PROVE  /\ waiters' \in Seq(Thread) /\ stat' \in [Thread -> {"READY", "SUSPEND"}]
           /\ armed' \subseteq Thread /\ error' \in [Thread -> Error]
           /\ before' \subseteq Thread \X Thread
           /\ WaitersSound' /\ (waiters = <<>> => waiters' = <<>>)
           /\ ~Reprio => QueueInOrder'
           /\ Holders' = IF e = "EOK" THEN Holders \cup {t} ELSE Holders
           /\ t \notin Holders
  <1>1. Unlinked(t) /\ stat' = [stat EXCEPT ![t] = "READY"]
    BY DEF Resumed
  <1>2. t \in Thread /\ stat[t] = "SUSPEND" /\ resume[t] # "unlinked"
    BY ListEmpty DEF IInv, TypeOK, WaitersSound
  <1>3. /\ stat' \in [Thread -> {"READY", "SUSPEND"}] /\ error' \in [Thread -> Error]
    BY <1>1 DEF IInv, TypeOK
  <1>4. /\ waiters' \in Seq(Thread) /\ IsInjective(waiters')
        /\ Range(waiters') = Range(waiters) \ {t}
        /\ armed' = armed \ {t} /\ armed' \subseteq Thread
        /\ before' \subseteq Thread \X Thread
        /\ waiters = <<>> => waiters' = <<>>
        /\ ~Reprio => QueueInOrder'
    BY <1>1, <1>2, UnlinkedWaiter
  <1>5. \A u \in Thread : /\ stat'[u] = IF u = t THEN "READY" ELSE stat[u]
                          /\ error'[u] = IF u = t THEN e ELSE error[u]
    BY <1>1 DEF IInv, TypeOK
  <1>6. WaitersSound'
    <2>1. \A u \in Thread :
             u \in Range(waiters') <=> stat'[u] = "SUSPEND" /\ resume'[u] # "unlinked"
      BY <1>4, <1>5 DEF IInv, WaitersSound
    <2>2. \A u \in Thread : stat'[u] = "SUSPEND" => pc'[u] = "take" /\ error'[u] = "EINTR"
      BY <1>5 DEF IInv, WaitersSound
    <2>3. \A u \in Thread : resume'[u] = "unlinked" => stat'[u] = "SUSPEND"
      BY <1>2, <1>5 DEF IInv, WaitersSound
    <2>4. armed' \subseteq Range(waiters')
      BY <1>4 DEF IInv, WaitersSound
    <2> QED BY <1>4, <2>1, <2>2, <2>3, <2>4 DEF WaitersSound
  <1>9. \A u \in Thread : Granted(u)' <=> IF u = t THEN e = "EOK" ELSE Granted(u)
    <2>1. pc[t] = "take"
      BY <1>2 DEF IInv, WaitersSound
    <2> QED BY <1>5, <2>1 DEF Granted
  <1>10. ~Granted(t)
    BY <1>2 DEF Granted
  <1>11. Holders' = IF e = "EOK" THEN Holders \cup {t} ELSE Holders
    BY <1>2, <1>9, <1>10 DEF Holders
  <1> QED BY <1>3, <1>4, <1>6, <1>10, <1>11 DEF Holders

-----------------------------------------------------------------------------
(* The actions.                                                             *)

\* A take finds a token.
LEMMA TakeNowStep == ASSUME IInv, NEW t \in Thread, TakeNow(t) PROVE IInv'
  <1> USE DEF TakeNow
  <1>1. Holders' = Holders /\ Cardinality(Holders) \in Nat
    BY HoldersFinite DEF Holders, Granted
  <1>2. credit = value + Cardinality(Holders) /\ value \in 0 .. VALUE_MAX /\ VALUE_MAX \in Nat
    BY SemaphoreAssumption DEF IInv, TypeOK, TokensConserved, Holders
  <1>3. TokensConserved' /\ credit' \in Nat /\ value' \in 0 .. VALUE_MAX
    BY <1>1, <1>2 DEF TokensConserved, Holders
  <1>4. TypeOK'
    BY <1>3 DEF IInv, TypeOK
  <1>5. WaitersSound' /\ NoLostWakeup'
    BY DEF IInv, WaitersSound, NoLostWakeup
  <1>6. ~Reprio => QueueInOrder'
    BY DEF IInv, QueueInOrder, Precedes
  <1> QED BY <1>3, <1>4, <1>5, <1>6 DEF IInv

\* A take blocks: the caller is linked behind everyone it must wait for.
LEMMA TakeBlockStep ==
    ASSUME IInv, NEW t \in Thread, NEW timed \in BOOLEAN, TakeBlock(t, timed) PROVE IInv'
  <1>1. /\ pc[t] = "user" /\ value = 0
        /\ error' = [error EXCEPT ![t] = "EINTR"] /\ stat' = [stat EXCEPT ![t] = "SUSPEND"]
        /\ waiters' = Enqueue(waiters, t, Flag, prio)
        /\ armed' \subseteq armed \cup {t} /\ pc' = [pc EXCEPT ![t] = "take"]
        /\ before' = before \cup (Range(waiters) \X {t})
        /\ UNCHANGED <<value, object, prio, resume, credit>>
    BY DEF TakeBlock, Enters
  <1>2. /\ waiters \in Seq(Thread) /\ IsInjective(waiters) /\ stat[t] = "READY"
        /\ t \notin Range(waiters) /\ Range(waiters) \subseteq Thread
        /\ resume[t] # "unlinked"
        /\ prio \in [Thread -> Nat]
    BY <1>1, ListEmpty, SemaphoreAssumption DEF IInv, TypeOK, WaitersSound
  <1> DEFINE k == ScanStop(waiters, t, prio)
  <1>3. /\ k \in 1 .. Len(waiters) + 1
        /\ \A j \in 1 .. Len(waiters) : j < k => prio[waiters[j]] <= prio[t]
        /\ k <= Len(waiters) => prio[t] < prio[waiters[k]]
    BY <1>2, ScanStops
  <1>4. waiters' = IF Flag = "FIFO" THEN InsertBefore(waiters, t) ELSE LinkAt(waiters, k, t)
    BY <1>1 DEF Enqueue
  <1> HIDE DEF k
  <1>5. /\ waiters' \in Seq(Thread) /\ IsInjective(waiters')
        /\ Range(waiters') = Range(waiters) \cup {t}
    BY <1>1, <1>2, EnqueueLinks
  <1>6. \A u \in Thread : /\ stat'[u] = IF u = t THEN "SUSPEND" ELSE stat[u]
                          /\ error'[u] = IF u = t THEN "EINTR" ELSE error[u]
                          /\ pc'[u] = IF u = t THEN "take" ELSE pc[u]
    BY <1>1 DEF IInv, TypeOK
  <1>7. TypeOK'
    <2>1. /\ error' \in [Thread -> Error] /\ stat' \in [Thread -> {"READY", "SUSPEND"}]
          /\ pc' \in [Thread -> {"user", "take"}]
      BY <1>1 DEF IInv, TypeOK, Error
    <2>2. armed' \subseteq Thread /\ before' \subseteq Thread \X Thread
      BY <1>1, <1>2 DEF IInv, TypeOK
    <2> QED BY <1>1, <1>5, <2>1, <2>2 DEF IInv, TypeOK
  <1>8. WaitersSound'
    <2>1. \A u \in Thread :
             u \in Range(waiters') <=> stat'[u] = "SUSPEND" /\ resume'[u] # "unlinked"
      BY <1>1, <1>2, <1>5, <1>6 DEF IInv, WaitersSound
    <2>2. \A u \in Thread : stat'[u] = "SUSPEND" => pc'[u] = "take" /\ error'[u] = "EINTR"
      BY <1>6 DEF IInv, WaitersSound
    <2>3. \A u \in Thread : resume'[u] = "unlinked" => stat'[u] = "SUSPEND"
      BY <1>1, <1>6 DEF IInv, WaitersSound
    <2>4. armed' \subseteq Range(waiters')
      BY <1>1, <1>5 DEF IInv, WaitersSound
    <2> QED BY <1>5, <2>1, <2>2, <2>3, <2>4 DEF WaitersSound
  <1>9. NoLostWakeup'
    BY <1>1 DEF NoLostWakeup
  <1>10. TokensConserved'
    <2>1. \A u \in Thread : Granted(u)' <=> Granted(u)
      BY <1>1, <1>6 DEF Granted
    <2>2. Holders' = Holders
      BY <2>1 DEF Holders
    <2> QED BY <1>1, <2>2 DEF IInv, TokensConserved, Holders
  <1>11. ASSUME ~Reprio PROVE QueueInOrder'
    <2>1. Ordered(waiters, InOrder)
      BY <1>2, <1>11, OrderOfList DEF IInv
    <2>2. \A u, v \in Range(waiters) : <<u, v>> \in InOrder => <<u, v>> \in InOrder'
      BY <1>1, <1>2 DEF InOrder, Precedes
    <2>3. Ordered(waiters, InOrder')
      BY <1>2, <2>1, <2>2, OrderedKept
    <2>4. CASE Flag = "FIFO"
      <3>1. \A u \in Range(waiters) : <<u, t>> \in InOrder'
        BY <1>1, <1>2, <2>4 DEF InOrder, Precedes
      <3>2. Ordered(waiters', InOrder')
        BY <1>2, <1>4, <2>3, <2>4, <3>1, InsertBeforeOrdered
      <3> QED BY <1>5, <3>2, OrderOfNextList
    <2>5. CASE Flag # "FIFO"
      <3>1. \A j \in 1 .. Len(waiters) : waiters[j] \in Thread /\ waiters[j] \in Range(waiters)
        BY <1>2, RangeByIndex
      <3>2. ASSUME NEW j \in 1 .. Len(waiters), j < k PROVE <<waiters[j], t>> \in InOrder'
        <4>1. prio[waiters[j]] <= prio[t] /\ prio[waiters[j]] \in Nat /\ prio[t] \in Nat
          BY <1>2, <1>3, <3>1, <3>2
        <4>2. <<waiters[j], t>> \in before'
          BY <1>1, <3>1
        <4>3. prio'[waiters[j]] < prio'[t] \/ prio'[waiters[j]] = prio'[t]
          BY <1>1, <4>1
        <4> QED BY <2>5, <3>1, <4>2, <4>3 DEF InOrder, Precedes
      <3>3. ASSUME NEW j \in 1 .. Len(waiters), k <= j PROVE <<t, waiters[j]>> \in InOrder'
        <4>1. k \in 1 .. Len(waiters) /\ prio[t] < prio[waiters[k]]
          BY <1>3, <3>3
        <4>2. k = j \/ Precedes(waiters[k], waiters[j])
          BY <1>11, <3>3, <4>1 DEF IInv, QueueInOrder
        <4>3. prio[waiters[k]] < prio[waiters[j]] \/ prio[waiters[k]] = prio[waiters[j]]
          BY <2>5, <4>2 DEF Precedes
        <4>4. prio[t] \in Nat /\ prio[waiters[k]] \in Nat /\ prio[waiters[j]] \in Nat
          BY <1>2, <3>1, <4>1
        <4>5. prio[t] < prio[waiters[j]]
          BY ONLY <4>1, <4>3, <4>4
        <4> QED BY <1>1, <2>5, <3>1, <4>5 DEF InOrder, Precedes
      <3>4. Ordered(waiters', InOrder')
        BY <1>2, <1>3, <1>4, <2>3, <2>5, <3>2, <3>3, LinkAtOrdered
      <3> QED BY <1>5, <3>4, OrderOfNextList
    <2> QED BY <2>4, <2>5
  <1> QED BY <1>7, <1>8, <1>9, <1>10, <1>11 DEF IInv

\* A thread comes back from its take, with a token or without.
LEMMA TakeReturnStep == ASSUME IInv, NEW t \in Thread, TakeReturn(t) PROVE IInv'
  <1> USE DEF TakeReturn
  <1>1. \A u \in Thread : pc'[u] = IF u = t THEN "user" ELSE pc[u]
    BY DEF IInv, TypeOK
  <1>2. \A u \in Thread : Granted(u)' <=> Granted(u) /\ u # t
    BY <1>1 DEF Granted
  <1>3. Holders' = Holders \ {t} /\ (t \in Holders <=> error[t] = "EOK")
    BY <1>2 DEF Holders, Granted
  <1>4. /\ Cardinality(Holders') = IF t \in Holders THEN Cardinality(Holders) - 1
                                   ELSE Cardinality(Holders)
        /\ Cardinality(Holders) \in Nat /\ (t \in Holders => Cardinality(Holders) > 0)
    BY <1>3, HoldersFinite, FS_RemoveElement
  <1>5. credit = value + Cardinality(Holders) /\ value \in Nat
    BY SemaphoreAssumption DEF IInv, TypeOK, TokensConserved, Holders
  <1>6. credit' = value' + Cardinality(Holders') /\ credit' \in Nat
    BY <1>3, <1>4, <1>5
  <1>7. TypeOK'
    BY <1>6 DEF IInv, TypeOK
  <1>8. WaitersSound' /\ NoLostWakeup'
    BY <1>1 DEF IInv, WaitersSound, NoLostWakeup
  <1>9. ~Reprio => QueueInOrder'
    BY DEF IInv, QueueInOrder, Precedes
  <1> QED BY <1>6, <1>7, <1>8, <1>9 DEF IInv, TokensConserved, Holders

\* A waiter is resumed with the result e, and c tokens come in.
LEMMA WakeStep ==
    ASSUME IInv, NEW t \in Range(waiters), Resumed(t), NEW e \in Error,
           error' = [error EXCEPT ![t] = e], UNCHANGED <<value, prio, resume, pc>>,
           object' \in {object, "detaching"},
           credit' = IF e = "EOK" THEN credit + 1 ELSE credit
    PROVE  IInv'
  <1>1. /\ waiters' \in Seq(Thread) /\ stat' \in [Thread -> {"READY", "SUSPEND"}]
        /\ armed' \subseteq Thread /\ error' \in [Thread -> Error]
        /\ before' \subseteq Thread \X Thread
        /\ WaitersSound' /\ (waiters = <<>> => waiters' = <<>>)
        /\ ~Reprio => QueueInOrder'
        /\ Holders' = IF e = "EOK" THEN Holders \cup {t} ELSE Holders
        /\ t \notin Holders
    BY ResumedWaiter
  <1>2. /\ Cardinality(Holders) \in Nat
        /\ Cardinality(Holders') = IF e = "EOK" THEN Cardinality(Holders) + 1
                                   ELSE Cardinality(Holders)
    BY <1>1, HoldersFinite, FS_AddElement
  <1>3. credit = value + Cardinality(Holders) /\ value \in Nat
    BY SemaphoreAssumption DEF IInv, TypeOK, TokensConserved, Holders
  <1>4. credit' = value' + Cardinality(Holders') /\ credit' \in Nat
    BY <1>2, <1>3
  <1>5. TypeOK'
    BY <1>1, <1>4 DEF IInv, TypeOK
  <1>6. NoLostWakeup'
    BY <1>1 DEF IInv, NoLostWakeup
  <1> QED BY <1>1, <1>4, <1>5, <1>6 DEF IInv, TokensConserved, Holders

\* The first waiter is linked.
LEMMA HeadLinked ==
    ASSUME IInv, waiters # <<>>
    PROVE  Head(waiters) \in Range(waiters)
  BY ListEmpty DEF IInv, TypeOK

\* rt_sem_release.
LEMMA ReleaseStep == ASSUME IInv, Release PROVE IInv'
  <1>1. CASE waiters # <<>>
    <2> DEFINE t == Head(waiters)
    <2>1. t \in Range(waiters)
      BY <1>1, HeadLinked
    <2>2. /\ Resumed(t) /\ error' = [error EXCEPT ![t] = "EOK"]
          /\ UNCHANGED <<value, prio, resume, pc, object>> /\ credit' = credit + 1
      BY <1>1 DEF Release
    <2> HIDE DEF t
    <2> QED BY <2>1, <2>2, WakeStep DEF Error
  <1>2. CASE waiters = <<>>
    <2>1. /\ value < VALUE_MAX /\ value' = value + 1 /\ credit' = credit + 1
          /\ UNCHANGED <<waiters, stat, armed, resume, error, before, object, prio, pc>>
      BY <1>2 DEF Release
    <2>2. Holders' = Holders /\ Cardinality(Holders) \in Nat
      BY <2>1, HoldersFinite DEF Holders, Granted
    <2>3. credit = value + Cardinality(Holders) /\ value \in 0 .. VALUE_MAX /\ VALUE_MAX \in Nat
      BY SemaphoreAssumption DEF IInv, TypeOK, TokensConserved, Holders
    <2>4. TokensConserved' /\ credit' \in Nat /\ value' \in 0 .. VALUE_MAX
      <3>1. credit' = value' + Cardinality(Holders') /\ credit' \in Nat
        BY <2>1, <2>2, <2>3
      <3>2. value' \in 0 .. VALUE_MAX
        BY <2>1, <2>3
      <3> QED BY <3>1, <3>2 DEF TokensConserved, Holders
    <2>5. TypeOK'
      BY <2>1, <2>4 DEF IInv, TypeOK
    <2>6. WaitersSound' /\ NoLostWakeup'
      BY <1>2, <2>1 DEF IInv, WaitersSound, NoLostWakeup
    <2>7. ~Reprio => QueueInOrder'
      BY <2>1 DEF IInv, QueueInOrder, Precedes
    <2> QED BY <2>4, <2>5, <2>6, <2>7 DEF IInv
  <1> QED BY <1>1, <1>2

\* _thread_timeout.
LEMMA TimeoutStep == ASSUME IInv, NEW t \in Thread, Timeout(t) PROVE IInv'
  <1>1. t \in Range(waiters)
    BY DEF Timeout, IInv, WaitersSound
  <1> QED BY <1>1, WakeStep DEF Timeout, Error

\* The region of a direct rt_thread_resume: the thread is in no list.
LEMMA ResumeUnlinkStep == ASSUME IInv, NEW t \in Thread, ResumeUnlink(t) PROVE IInv'
  <1>1. /\ Unlinked(t) /\ stat[t] = "SUSPEND" /\ resume' = [resume EXCEPT ![t] = "unlinked"]
        /\ UNCHANGED <<value, object, prio, stat, error, pc, credit>>
    BY DEF ResumeUnlink
  <1>2. /\ waiters' \in Seq(Thread) /\ IsInjective(waiters')
        /\ Range(waiters') = Range(waiters) \ {t}
        /\ armed' = armed \ {t} /\ armed' \subseteq Thread
        /\ before' \subseteq Thread \X Thread
        /\ waiters = <<>> => waiters' = <<>>
        /\ ~Reprio => QueueInOrder'
    BY <1>1, UnlinkedWaiter
  <1>3. \A u \in Thread : resume'[u] = IF u = t THEN "unlinked" ELSE resume[u]
    BY <1>1 DEF IInv, TypeOK
  <1>4. TypeOK'
    BY <1>1, <1>2 DEF IInv, TypeOK
  <1>5. WaitersSound'
    <2>1. \A u \in Thread :
             u \in Range(waiters') <=> stat'[u] = "SUSPEND" /\ resume'[u] # "unlinked"
      BY <1>1, <1>2, <1>3 DEF IInv, WaitersSound
    <2>2. \A u \in Thread : stat'[u] = "SUSPEND" => pc'[u] = "take" /\ error'[u] = "EINTR"
      BY <1>1 DEF IInv, WaitersSound
    <2>3. \A u \in Thread : resume'[u] = "unlinked" => stat'[u] = "SUSPEND"
      BY <1>1, <1>3 DEF IInv, WaitersSound
    <2>4. armed' \subseteq Range(waiters')
      BY <1>2 DEF IInv, WaitersSound
    <2> QED BY <1>2, <2>1, <2>2, <2>3, <2>4 DEF WaitersSound
  <1>6. NoLostWakeup'
    BY <1>1, <1>2 DEF IInv, NoLostWakeup
  <1>7. Holders' = Holders
    BY <1>1 DEF Holders, Granted
  <1>8. TokensConserved'
    BY <1>1, <1>7 DEF IInv, TokensConserved, Holders
  <1> QED BY <1>2, <1>4, <1>5, <1>6, <1>8 DEF IInv

\* Its insert into the ready table: the thread is told -RT_EINTR.
LEMMA ResumeInsertStep == ASSUME IInv, NEW t \in Thread, ResumeInsert(t) PROVE IInv'
  <1>1. /\ resume[t] = "unlinked" /\ resume' = [resume EXCEPT ![t] = "none"]
        /\ stat' = [stat EXCEPT ![t] = "READY"]
        /\ UNCHANGED <<value, waiters, object, prio, armed, error, pc, credit, before>>
    BY DEF ResumeInsert, history
  <1>2. \A u \in Thread : /\ resume'[u] = IF u = t THEN "none" ELSE resume[u]
                          /\ stat'[u] = IF u = t THEN "READY" ELSE stat[u]
    BY <1>1 DEF IInv, TypeOK
  <1>3. TypeOK'
    BY <1>1 DEF IInv, TypeOK
  <1>4. error[t] = "EINTR" /\ stat[t] = "SUSPEND" /\ t \notin Range(waiters)
    BY <1>1 DEF IInv, WaitersSound
  <1>5. WaitersSound'
    BY <1>1, <1>2, <1>4 DEF IInv, WaitersSound
  <1>6. NoLostWakeup' /\ (~Reprio => QueueInOrder')
    BY <1>1 DEF IInv, NoLostWakeup, QueueInOrder, Precedes
  <1>7. Holders' = Holders
    BY <1>1, <1>2, <1>4 DEF Holders, Granted
  <1>8. TokensConserved'
    BY <1>1, <1>7 DEF IInv, TokensConserved, Holders
  <1> QED BY <1>3, <1>5, <1>6, <1>8 DEF IInv

\* One turn of the loop of _ipc_list_resume_all.
LEMMA DetachResumeStep == ASSUME IInv, DetachResume PROVE IInv'
  <1> DEFINE t == Head(waiters)
  <1>1. t \in Range(waiters)
    BY HeadLinked DEF DetachResume
  <1>2. /\ Resumed(t) /\ error' = [error EXCEPT ![t] = "ERROR"]
        /\ UNCHANGED <<value, prio, resume, pc, credit>> /\ object' = "detaching"
    BY DEF DetachResume
  <1> HIDE DEF t
  <1> QED BY <1>1, <1>2, WakeStep DEF Error

\* rt_sem_control(RT_IPC_CMD_RESET).
LEMMA ResetStep == ASSUME IInv, NEW v \in Resets, Reset(v) PROVE IInv'
  <1>1. /\ error' = [t \in Thread |-> IF t \in Range(waiters) THEN "ERROR" ELSE error[t]]
        /\ stat' = [t \in Thread |-> IF t \in Range(waiters) THEN "READY" ELSE stat[t]]
        /\ armed' = armed \ Range(waiters) /\ waiters' = <<>>
        /\ value' = v % (VALUE_MAX + 1) /\ credit' = credit - value + value' /\ before' = {}
        /\ UNCHANGED <<object, prio, resume, pc>>
    BY DEF Reset
  <1>2. value' \in 0 .. VALUE_MAX
    <2>1. v \in Nat /\ VALUE_MAX \in Nat
      BY SemaphoreAssumption
    <2>2. v % (VALUE_MAX + 1) \in 0 .. VALUE_MAX
      BY <2>1
    <2> QED BY <1>1, <2>2
  <1>3. \A u \in Thread :
           /\ stat'[u] = "SUSPEND" <=> resume'[u] = "unlinked"
           /\ stat'[u] = "SUSPEND" => stat[u] = "SUSPEND" /\ error'[u] = error[u]
           /\ u \notin Range(waiters')
    BY <1>1 DEF IInv, TypeOK, WaitersSound, Range
  <1>4. \A u \in Thread : Granted(u)' <=> Granted(u)
    <2> SUFFICES ASSUME NEW u \in Thread PROVE Granted(u)' <=> Granted(u)
      OBVIOUS
    <2>1. CASE u \in Range(waiters)
      <3>1. stat[u] = "SUSPEND" /\ error'[u] = "ERROR"
        BY <1>1, <2>1 DEF IInv, WaitersSound
      <3> QED BY <3>1 DEF Granted
    <2>2. CASE u \notin Range(waiters)
      BY <1>1, <2>2 DEF Granted
    <2> QED BY <2>1, <2>2
  <1>5. Holders' = Holders
    BY <1>4 DEF Holders
  <1>6. credit = value + Cardinality(Holders) /\ value \in Nat /\ Cardinality(Holders) \in Nat
    BY SemaphoreAssumption, HoldersFinite DEF IInv, TypeOK, TokensConserved, Holders
  <1>7. credit' = value' + Cardinality(Holders') /\ credit' \in Nat
    BY <1>1, <1>2, <1>5, <1>6
  <1>8. TypeOK'
    <2>1. error' \in [Thread -> Error] /\ stat' \in [Thread -> {"READY", "SUSPEND"}]
      BY <1>1 DEF IInv, TypeOK, Error
    <2>2. waiters' \in Seq(Thread) /\ armed' \subseteq Thread /\ before' \subseteq Thread \X Thread
      BY <1>1 DEF IInv, TypeOK
    <2> QED BY <1>1, <1>2, <1>7, <2>1, <2>2 DEF IInv, TypeOK
  <1>9. armed' = {}
    BY <1>1 DEF IInv, TypeOK, WaitersSound
  <1>10. WaitersSound' /\ NoLostWakeup' /\ QueueInOrder'
    BY <1>1, <1>3, <1>9 DEF IInv, WaitersSound, NoLostWakeup, QueueInOrder, IsInjective
  <1> QED BY <1>7, <1>8, <1>10 DEF IInv, TokensConserved, Holders

\* rt_thread_control on a thread that does not wait, or with the order given up.
LEMMA ChangePriorityStep ==
    ASSUME IInv, NEW t \in Thread, NEW p \in PRIORITIES, ChangePriority(t, p) PROVE IInv'
  <1> USE DEF ChangePriority, history
  <1>1. TypeOK' /\ WaitersSound' /\ NoLostWakeup'
    BY DEF IInv, TypeOK, WaitersSound, NoLostWakeup
  <1>2. Holders' = Holders
    BY DEF Holders, Granted
  <1>3. TokensConserved'
    BY <1>2 DEF IInv, TokensConserved, Holders
  <1>4. ASSUME ~Reprio PROVE QueueInOrder'
    <2>1. waiters \in Seq(Thread) /\ QueueInOrder /\ Ordered(waiters, InOrder)
      BY <1>4, OrderOfList DEF IInv, TypeOK
    <2>2. \A u \in Range(waiters) : u \in Thread /\ u # t
      BY <1>4, <2>1, ListEmpty DEF IInv, WaitersSound
    <2>3. \A u \in Range(waiters) : prio'[u] = prio[u]
      BY <2>2 DEF IInv, TypeOK
    <2> QED BY <2>1, <2>3, OrderKept
  <1> QED BY <1>1, <1>3, <1>4 DEF IInv

\* The steps of a detach that touch the object only, the test of a resume, and
\* stuttering.
LEMMA QuietStep ==
    ASSUME IInv, UNCHANGED <<value, waiters, prio, stat, armed, error, pc, credit, before>>,
           object' \in {"live", "detaching", "entered", "unlinking", "gone", "halted", "raced"},
           resume' \in [Thread -> {"none", "tested", "unlinked"}],
           \A t \in Thread : resume'[t] = "unlinked" <=> resume[t] = "unlinked"
    PROVE  IInv'
  <1>1. TypeOK' /\ WaitersSound' /\ NoLostWakeup'
    BY DEF IInv, TypeOK, WaitersSound, NoLostWakeup
  <1>2. Holders' = Holders
    BY DEF Holders, Granted
  <1>3. TokensConserved'
    BY <1>2 DEF IInv, TokensConserved, Holders
  <1>4. ~Reprio => QueueInOrder'
    BY DEF IInv, QueueInOrder, Precedes
  <1> QED BY <1>1, <1>3, <1>4 DEF IInv

-----------------------------------------------------------------------------
(* The theorems.                                                            *)

\* rt_sem_init.
LEMMA InitInv == Init => IInv
  <1> SUFFICES ASSUME Init PROVE IInv
    OBVIOUS
  <1> USE SemaphoreAssumption DEF Init
  <1>1. Holders = {} /\ Cardinality(Holders) = 0
    BY FS_EmptySet DEF Holders, Granted
  <1>2. TypeOK
    <2>1. /\ error \in [Thread -> Error] /\ stat \in [Thread -> {"READY", "SUSPEND"}]
          /\ pc \in [Thread -> {"user", "take"}]
      BY DEF Error
    <2>2. waiters \in Seq(Thread) /\ armed \subseteq Thread /\ before \subseteq Thread \X Thread
      OBVIOUS
    <2> QED BY <2>1, <2>2 DEF TypeOK
  <1>3. WaitersSound /\ NoLostWakeup /\ QueueInOrder
    BY DEF WaitersSound, NoLostWakeup, QueueInOrder, IsInjective, Range
  <1>4. TokensConserved
    <2>1. credit = value + Cardinality(Holders)
      BY <1>1
    <2> QED BY <2>1 DEF TokensConserved, Holders
  <1> QED BY <1>2, <1>3, <1>4 DEF IInv

\* Every step of a thread, an interrupt handler, a reset or a detach keeps IInv.
LEMMA NextInv == IInv /\ [Next]_vars => IInv'
  <1> SUFFICES ASSUME IInv, [Next]_vars PROVE IInv'
    OBVIOUS
  <1>1. CASE UNCHANGED vars \/ Stopped
    BY <1>1, QuietStep DEF vars, Stopped, IInv, TypeOK
  <1>2. ASSUME NEW t \in Thread, ThreadStep(t) PROVE IInv'
    BY <1>2, TakeNowStep, TakeReturnStep, TakeBlockStep DEF ThreadStep
  <1>3. ASSUME NEW t \in Thread, Timeout(t) PROVE IInv'
    BY <1>3, TimeoutStep
  <1>9. ASSUME NEW t \in Thread, ResumeStep(t) PROVE IInv'
    <2>1. CASE ResumeTest(t)
      <3>1. /\ resume[t] = "none" /\ resume' = [resume EXCEPT ![t] = "tested"]
            /\ UNCHANGED <<value, waiters, object, prio, stat, armed, error, pc, credit, before>>
        BY <2>1 DEF ResumeTest, history
      <3>2. /\ resume' \in [Thread -> {"none", "tested", "unlinked"}]
            /\ \A u \in Thread : resume'[u] = "unlinked" <=> resume[u] = "unlinked"
        BY <3>1 DEF IInv, TypeOK
      <3> QED BY <3>1, <3>2, QuietStep DEF IInv, TypeOK
    <2>2. CASE ResumeRaced(t)
      BY <2>2, QuietStep DEF ResumeRaced, history, IInv, TypeOK
    <2> QED BY <1>9, <2>1, <2>2, ResumeUnlinkStep, ResumeInsertStep DEF ResumeStep
  <1>4. ASSUME NEW t \in Thread, NEW p \in PRIORITIES, ChangePriority(t, p) PROVE IInv'
    BY <1>4, ChangePriorityStep
  <1>5. CASE Release
    BY <1>5, ReleaseStep
  <1>6. ASSUME NEW v \in Resets, Reset(v) PROVE IInv'
    BY <1>6, ResetStep
  <1>7. CASE DetachResume
    BY <1>7, DetachResumeStep
  <1>8. CASE DetachBegin \/ DetachTest \/ DetachHalt \/ DetachEnd
    BY <1>8, QuietStep DEF DetachBegin, DetachTest, DetachHalt, DetachEnd, history, IInv, TypeOK
  <1> QED BY <1>1, <1>2, <1>3, <1>4, <1>5, <1>6, <1>7, <1>8, <1>9 DEF Next

\* IInv holds in every behaviour of the semaphore.
THEOREM SemaphoreInvariant == Spec => []IInv
  BY InitInv, NextInv, PTL DEF Spec

\* Every variable keeps its type; the count stays between 0 and RT_SEM_VALUE_MAX.
THEOREM TypeCorrect == Spec => []TypeOK
  <1>1. IInv => TypeOK
    BY DEF IInv
  <1> QED BY <1>1, SemaphoreInvariant, PTL

\* The threads in the semaphore's list are the suspended ones that no direct resume
\* has unlinked.
THEOREM WaitersCorrect == Spec => []WaitersSound
  <1>1. IInv => WaitersSound
    BY DEF IInv
  <1> QED BY <1>1, SemaphoreInvariant, PTL

\* No thread waits while a token is there.
THEOREM WakeupCorrect == Spec => []NoLostWakeup
  <1>1. IInv => NoLostWakeup
    BY DEF IInv
  <1> QED BY <1>1, SemaphoreInvariant, PTL

\* Tokens are neither lost nor invented.
THEOREM TokensCorrect == Spec => []TokensConserved
  <1>1. IInv => TokensConserved
    BY DEF IInv
  <1> QED BY <1>1, SemaphoreInvariant, PTL

\* The waiters are served in the order of the flag as long as nobody changes the
\* priority of a thread that waits.
THEOREM OrderCorrect == ASSUME ~Reprio PROVE Spec => []QueueInOrder
  <1>1. IInv => QueueInOrder
    BY DEF IInv
  <1> QED BY <1>1, SemaphoreInvariant, PTL

=============================================================================
