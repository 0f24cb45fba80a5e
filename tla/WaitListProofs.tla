--------------------------- MODULE WaitListProofs ---------------------------
(***************************************************************************)
(* The event and the memory pool, for any number of threads, bits and        *)
(* blocks: no thread sleeps on an event that would satisfy it, and a thread  *)
(* receives what it asked for; the pool loses and duplicates no block, its   *)
(* count is the length of its list, and no thread is left waiting beside a   *)
(* free block.                                                               *)
(***************************************************************************)
EXTENDS Event, MemPool, ListProofs

-----------------------------------------------------------------------------
(* The event.                                                               *)

\* The list of waiting threads and what the threads say agree; a waiting thread has
\* no result yet that its caller could take for a success.
WaitersLinked ==
    /\ IsInjective(waiters)
    /\ \A t \in Thread : t \in Range(waiters) <=> stat[t] = "SUSPEND"
    /\ \A t \in Thread : stat[t] # "READY" => t \in asleep /\ error[t] # "EOK"
    /\ \A t \in armed : stat[t] = "SUSPEND"

\* A waiting thread has seen every bit that is set.
SetSeen == \A t \in Range(waiters) : set \subseteq seen[t]

\* The inductive invariant.
IInv == TypeOK /\ WaitersLinked /\ SetSeen /\ NoSatisfiedWaiter /\ ReceivedSound

-----------------------------------------------------------------------------
(* The event: lemmas.                                                       *)

\* Clearing bits satisfies nobody.
LEMMA FewerBits ==
    ASSUME NEW wanted, NEW option, NEW now, NEW fewer \in SUBSET now,
           ~Satisfied(wanted, option, now)
    PROVE  ~Satisfied(wanted, option, fewer)
  BY DEF Satisfied

\* A step that leaves the waiters alone and sets no bit.
LEMMA BitsKept ==
    ASSUME IInv, set' \subseteq set, Range(waiters') \subseteq Range(waiters),
           waiters' \in Seq(Thread),
           \A u \in Range(waiters') : /\ stat'[u] = stat[u] /\ event_set'[u] = event_set[u]
                                      /\ event_info'[u] = event_info[u]
                                      /\ asked'[u] = asked[u] /\ seen'[u] = seen[u]
    PROVE  SetSeen' /\ NoSatisfiedWaiter'
  <1>1. \A u \in Range(waiters') : ~Satisfied(event_set[u], event_info[u], set')
    BY FewerBits DEF IInv, NoSatisfiedWaiter
  <1>2. SetSeen'
    BY DEF IInv, SetSeen
  <1>3. NoSatisfiedWaiter'
    BY <1>1 DEF IInv, NoSatisfiedWaiter
  <1> QED BY <1>2, <1>3

\* Threads S of the list are resumed with e and unlinked.
LEMMA WokenWaiters ==
    ASSUME TypeOK, WaitersLinked, NEW S \in SUBSET Thread, NEW e \in Error, Woken(S, e),
           waiters' \in Seq(Thread), IsInjective(waiters'),
           Range(waiters') = Range(waiters) \ S, asleep' = asleep
    PROVE  /\ BlockingTypeOK' /\ WaitersLinked'
           /\ \A u \in Thread : /\ stat'[u] = IF u \in S THEN "READY" ELSE stat[u]
                                /\ error'[u] = IF u \in S THEN e ELSE error[u]
  <1>1. \A u \in Thread : /\ stat'[u] = IF u \in S THEN "READY" ELSE stat[u]
                          /\ error'[u] = IF u \in S THEN e ELSE error[u]
    BY DEF Woken
  <1>2. BlockingTypeOK'
    BY DEF TypeOK, WaitListTypeOK, BlockingTypeOK, Woken
  <1>3. armed' = armed \ S /\ armed \subseteq Thread
    BY DEF Woken, TypeOK, WaitListTypeOK, BlockingTypeOK
  <1>4. \A u \in Thread : u \in Range(waiters') <=> stat'[u] = "SUSPEND"
    BY <1>1 DEF WaitersLinked
  <1>5. \A u \in Thread : stat'[u] # "READY" => u \in asleep' /\ error'[u] # "EOK"
    BY <1>1 DEF WaitersLinked
  <1>6. \A u \in armed' : stat'[u] = "SUSPEND"
    BY <1>1, <1>3 DEF WaitersLinked
  <1> QED BY <1>1, <1>2, <1>4, <1>5, <1>6 DEF WaitersLinked

\* A wait ends without the event: no bit is set, and nobody is served.
LEMMA WaitsAbandoned ==
    ASSUME IInv, NEW S \in SUBSET Thread, NEW e \in Error, e # "EOK", Woken(S, e),
           waiters' \in Seq(Thread), IsInjective(waiters'),
           Range(waiters') = Range(waiters) \ S, set' \subseteq set,
           object' \in Phase,
           UNCHANGED <<event_set, event_info, asleep, asked, seen>>
    PROVE  IInv'
  <1>1. /\ BlockingTypeOK' /\ WaitersLinked'
        /\ \A u \in Thread : /\ stat'[u] = IF u \in S THEN "READY" ELSE stat[u]
                             /\ error'[u] = IF u \in S THEN e ELSE error[u]
    BY WokenWaiters DEF IInv
  <1>2. TypeOK'
    BY <1>1 DEF IInv, TypeOK, WaitListTypeOK
  <1>3. \A u \in Range(waiters') : u \in Thread /\ u \notin S
    BY ListEmpty
  <1>4. SetSeen' /\ NoSatisfiedWaiter'
    BY <1>1, <1>3, BitsKept
  <1>5. ReceivedSound'
    BY <1>1 DEF IInv, TypeOK, WaitListTypeOK, ReceivedSound
  <1> QED BY <1>1, <1>2, <1>4, <1>5 DEF IInv

-----------------------------------------------------------------------------
(* The event: the actions.                                                  *)

\* rt_event_recv finds its bits: they may be cleared, none is set.
LEMMA RecvNowStep ==
    ASSUME IInv, NEW t \in Thread, NEW wanted \in Bits, NEW option \in Option,
           RecvNow(t, wanted, option)
    PROVE  IInv'
  <1>1. /\ t \notin asleep /\ event_set' = [event_set EXCEPT ![t] = set \cap wanted]
        /\ event_info' = [event_info EXCEPT ![t] = option]
        /\ error' = [error EXCEPT ![t] = "EOK"] /\ set' \subseteq set
        /\ UNCHANGED <<waiters, object, asleep, asked, seen, stat, armed>>
    BY DEF RecvNow, Calls, history
  <1>2. TypeOK'
    BY <1>1 DEF IInv, TypeOK, WaitListTypeOK, BlockingTypeOK, Error
  <1>3. \A u \in Thread : u # t => /\ event_set'[u] = event_set[u]
                                   /\ event_info'[u] = event_info[u]
                                   /\ error'[u] = error[u]
    BY <1>1 DEF IInv, TypeOK, WaitListTypeOK, BlockingTypeOK
  <1>4. stat[t] # "SUSPEND" /\ t \notin Range(waiters)
    BY <1>1 DEF IInv, WaitersLinked
  <1>5. WaitersLinked'
    BY <1>1, <1>3, <1>4 DEF IInv, WaitersLinked
  <1>6. \A u \in Range(waiters') : u \in Thread /\ u # t
    BY <1>1, <1>2, <1>4, ListEmpty DEF TypeOK, WaitListTypeOK
  <1>7. waiters' \in Seq(Thread)
    BY <1>2 DEF TypeOK, WaitListTypeOK
  <1>8. SetSeen' /\ NoSatisfiedWaiter'
    BY <1>1, <1>3, <1>6, <1>7, BitsKept
  <1>9. ReceivedSound'
    BY <1>1, <1>3 DEF IInv, TypeOK, WaitListTypeOK, ReceivedSound
  <1> QED BY <1>2, <1>5, <1>8, <1>9 DEF IInv

\* rt_event_recv waits: the thread is linked with what it asks for, unsatisfied.
LEMMA RecvBlockStep ==
    ASSUME IInv, NEW t \in Thread, NEW wanted \in Bits, NEW option \in Option,
           NEW timed \in BOOLEAN, RecvBlock(t, wanted, option, timed)
    PROVE  IInv'
  <1>1. /\ t \notin asleep /\ ~Satisfied(wanted, option, set)
        /\ event_set' = [event_set EXCEPT ![t] = wanted]
        /\ event_info' = [event_info EXCEPT ![t] = option]
        /\ waiters' = Enqueue(waiters, t, Flag, Prio)
        /\ stat' = [stat EXCEPT ![t] = "SUSPEND"] /\ armed' \subseteq armed \cup {t}
        /\ error' = [error EXCEPT ![t] = "EINTR"] /\ asleep' = asleep \cup {t}
        /\ asked' = [asked EXCEPT ![t] = wanted] /\ seen' = [seen EXCEPT ![t] = set]
        /\ UNCHANGED <<set, object>>
    BY DEF RecvBlock, Calls, Suspended
  <1>2. /\ waiters \in Seq(Thread) /\ IsInjective(waiters) /\ t \notin Range(waiters)
        /\ Prio \in [Thread -> Nat]
    BY <1>1, EventAssumption DEF IInv, TypeOK, WaitListTypeOK, WaitersLinked
  <1>3. /\ waiters' \in Seq(Thread) /\ IsInjective(waiters')
        /\ Range(waiters') = Range(waiters) \cup {t}
    BY <1>1, <1>2, EnqueueLinks
  <1>4. \A u \in Thread : /\ stat'[u] = IF u = t THEN "SUSPEND" ELSE stat[u]
                          /\ error'[u] = IF u = t THEN "EINTR" ELSE error[u]
                          /\ event_set'[u] = IF u = t THEN wanted ELSE event_set[u]
                          /\ event_info'[u] = IF u = t THEN option ELSE event_info[u]
                          /\ asked'[u] = IF u = t THEN wanted ELSE asked[u]
                          /\ seen'[u] = IF u = t THEN set ELSE seen[u]
    BY <1>1 DEF IInv, TypeOK, WaitListTypeOK, BlockingTypeOK
  <1>5. TypeOK'
    <2>1. BlockingTypeOK'
      BY <1>1 DEF IInv, TypeOK, WaitListTypeOK, BlockingTypeOK, Error
    <2>2. /\ event_set' \in [Thread -> SUBSET Bit] /\ event_info' \in [Thread -> Option]
          /\ asked' \in [Thread -> SUBSET Bit] /\ seen' \in [Thread -> SUBSET Bit]
      BY <1>1 DEF IInv, TypeOK, WaitListTypeOK, Bits
    <2> QED BY <1>1, <1>3, <2>1, <2>2 DEF IInv, TypeOK, WaitListTypeOK
  <1>6. WaitersLinked'
    <2>1. \A u \in Thread : u \in Range(waiters') <=> stat'[u] = "SUSPEND"
      BY <1>3, <1>4 DEF IInv, WaitersLinked
    <2>2. \A u \in Thread : stat'[u] # "READY" => u \in asleep' /\ error'[u] # "EOK"
      BY <1>1, <1>4 DEF IInv, WaitersLinked
    <2>3. \A u \in armed' : stat'[u] = "SUSPEND"
      BY <1>1, <1>4 DEF IInv, TypeOK, WaitListTypeOK, BlockingTypeOK, WaitersLinked
    <2> QED BY <1>3, <2>1, <2>2, <2>3 DEF WaitersLinked
  <1>7. Range(waiters) \subseteq Thread
    BY <1>2, ListEmpty
  <1>8. SetSeen'
    BY <1>1, <1>3, <1>4, <1>7 DEF IInv, SetSeen
  <1>9. NoSatisfiedWaiter'
    BY <1>1, <1>3, <1>4, <1>7 DEF IInv, NoSatisfiedWaiter
  <1>10. ReceivedSound'
    BY <1>1, <1>4 DEF IInv, TypeOK, WaitListTypeOK, ReceivedSound
  <1> QED BY <1>5, <1>6, <1>8, <1>9, <1>10 DEF IInv

\* rt_event_recv returns from a wait.
LEMMA RecvReturnStep == ASSUME IInv, NEW t \in Thread, RecvReturn(t) PROVE IInv'
  <1>1. /\ stat[t] = "READY" /\ asleep' = asleep \ {t}
        /\ UNCHANGED <<set, waiters, object, event_set, event_info, asked, seen>>
        /\ UNCHANGED <<stat, armed, error>>
    BY DEF RecvReturn, history, blocking
  <1>2. TypeOK' /\ SetSeen' /\ NoSatisfiedWaiter'
    BY <1>1 DEF IInv, TypeOK, WaitListTypeOK, BlockingTypeOK, SetSeen, NoSatisfiedWaiter
  <1>3. WaitersLinked' /\ ReceivedSound'
    BY <1>1 DEF IInv, WaitersLinked, ReceivedSound
  <1> QED BY <1>2, <1>3 DEF IInv

\* rt_event_send: every waiter that the bits satisfy is served with its share of them,
\* before any bit is cleared, and the cleared event satisfies nobody else.
LEMMA SendStep == ASSUME IInv, NEW sent \in Bits, Send(sent) PROVE IInv'
  <1> DEFINE now == set \cup sent
             S == Served(now)
  <1>1. /\ event_set' = [u \in Thread |-> IF u \in S THEN event_set[u] \cap now
                                          ELSE event_set[u]]
        /\ Woken(S, "EOK") /\ waiters' = UnlinkAll(waiters, S) /\ set' \subseteq now
        /\ seen' = [u \in Thread |-> IF u \in Range(waiters) THEN seen[u] \cup sent
                                     ELSE seen[u]]
        /\ UNCHANGED <<object, event_info, asleep, asked>>
    BY DEF Send, Narrowed
  <1>2. /\ waiters \in Seq(Thread) /\ IsInjective(waiters) /\ Range(waiters) \subseteq Thread
    BY ListEmpty DEF IInv, TypeOK, WaitListTypeOK, WaitersLinked
  <1>3. /\ S \subseteq Range(waiters)
        /\ \A u \in Range(waiters) : u \in S <=> Satisfied(event_set[u], event_info[u], now)
    BY DEF Served
  <1>4. now \subseteq Bit
    BY DEF IInv, TypeOK, WaitListTypeOK, Bits
  <1> HIDE DEF S
  <1>5. /\ waiters' \in Seq(Thread) /\ IsInjective(waiters')
        /\ Range(waiters') = Range(waiters) \ S
    BY <1>1, <1>2, UnlinkAllUnlinks
  <1>6. /\ BlockingTypeOK' /\ WaitersLinked'
        /\ \A u \in Thread : /\ stat'[u] = IF u \in S THEN "READY" ELSE stat[u]
                             /\ error'[u] = IF u \in S THEN "EOK" ELSE error[u]
    <2>1. S \in SUBSET Thread /\ "EOK" \in Error
      BY <1>2, <1>3 DEF Error
    <2>2. asleep' = asleep /\ Woken(S, "EOK")
      BY <1>1
    <2> QED BY <1>5, <2>1, <2>2, WokenWaiters DEF IInv
  <1>7. /\ event_set' \in [Thread -> SUBSET Bit] /\ seen' \in [Thread -> SUBSET Bit]
        /\ \A u \in Thread :
             /\ event_set'[u] = IF u \in S THEN event_set[u] \cap now ELSE event_set[u]
             /\ seen'[u] = IF u \in Range(waiters) THEN seen[u] \cup sent ELSE seen[u]
    BY <1>1, <1>4 DEF IInv, TypeOK, WaitListTypeOK
  <1>8. TypeOK'
    BY <1>1, <1>4, <1>5, <1>6, <1>7 DEF IInv, TypeOK, WaitListTypeOK
  <1>9. SetSeen'
    <2> SUFFICES ASSUME NEW u \in Range(waiters') PROVE set' \subseteq seen'[u]
      BY DEF SetSeen
    <2>1. u \in Range(waiters) /\ u \in Thread
      BY <1>2, <1>5
    <2>2. seen'[u] = seen[u] \cup sent /\ set \subseteq seen[u]
      BY <1>7, <2>1 DEF IInv, SetSeen
    <2> QED BY <1>1, <2>2
  <1>10. NoSatisfiedWaiter'
    <2> SUFFICES ASSUME NEW u \in Range(waiters')
                 PROVE  /\ stat'[u] = "SUSPEND" /\ event_set'[u] = asked'[u]
                        /\ ~Satisfied(event_set'[u], event_info'[u], set')
      BY DEF NoSatisfiedWaiter
    <2>1. u \in Range(waiters) /\ u \in Thread /\ u \notin S
      BY <1>2, <1>5
    <2>2. /\ stat'[u] = stat[u] /\ event_set'[u] = event_set[u]
          /\ event_info'[u] = event_info[u] /\ asked'[u] = asked[u]
      BY <1>1, <1>6, <1>7, <2>1
    <2>3. ~Satisfied(event_set[u], event_info[u], now)
      BY <1>3, <2>1
    <2>4. ~Satisfied(event_set[u], event_info[u], set')
      BY <1>1, <2>3, FewerBits
    <2> QED BY <2>1, <2>2, <2>4 DEF IInv, NoSatisfiedWaiter
  <1>11. ReceivedSound'
    <2> SUFFICES ASSUME NEW u \in asleep', stat'[u] = "READY", error'[u] = "EOK"
                 PROVE  /\ event_set'[u] \subseteq asked'[u] \cap seen'[u]
                        /\ IF event_info'[u].mode = "AND" THEN event_set'[u] = asked'[u]
                           ELSE event_set'[u] # {}
      BY DEF ReceivedSound
    <2>1. u \in Thread /\ u \in asleep /\ asked'[u] = asked[u] /\ event_info'[u] = event_info[u]
      BY <1>1 DEF IInv, TypeOK, WaitListTypeOK
    <2>2. CASE u \in S
      <3>1. /\ event_set[u] = asked[u] /\ set \subseteq seen[u]
            /\ Satisfied(event_set[u], event_info[u], now)
        BY <1>3, <2>2 DEF IInv, NoSatisfiedWaiter, SetSeen
      <3>2. event_set'[u] = event_set[u] \cap now /\ seen'[u] = seen[u] \cup sent
        BY <1>3, <1>7, <2>1, <2>2
      <3> QED BY <2>1, <3>1, <3>2 DEF Satisfied
    <2>3. CASE u \notin S
      <3>1. /\ event_set'[u] = event_set[u] /\ seen[u] \subseteq seen'[u]
            /\ stat[u] = "READY" /\ error[u] = "EOK"
        BY <1>6, <1>7, <2>1, <2>3
      <3> QED BY <2>1, <3>1 DEF IInv, ReceivedSound
    <2> QED BY <2>2, <2>3
  <1> QED BY <1>6, <1>8, <1>9, <1>10, <1>11 DEF IInv

\* A direct resume unlinks a waiter.
LEMMA UnlinkStep ==
    ASSUME IInv, NEW t \in Thread, Unlinks(t), waiters' \in Seq(Thread),
           IsInjective(waiters'), Range(waiters') = Range(waiters) \ {t},
           UNCHANGED <<set, object, event_set, event_info, asleep, asked, seen>>
    PROVE  IInv'
  <1>1. /\ stat[t] = "SUSPEND" /\ stat' = [stat EXCEPT ![t] = "UNLINKED"]
        /\ armed' = armed \ {t} /\ error' = error
    BY DEF Unlinks
  <1>2. \A u \in Thread : stat'[u] = IF u = t THEN "UNLINKED" ELSE stat[u]
    BY <1>1 DEF IInv, TypeOK, WaitListTypeOK, BlockingTypeOK
  <1>3. TypeOK'
    BY <1>1 DEF IInv, TypeOK, WaitListTypeOK, BlockingTypeOK
  <1>4. WaitersLinked'
    <2>1. \A u \in Thread : u \in Range(waiters') <=> stat'[u] = "SUSPEND"
      BY <1>2 DEF IInv, WaitersLinked
    <2>2. \A u \in Thread : stat'[u] # "READY" => u \in asleep' /\ error'[u] # "EOK"
      BY <1>1, <1>2 DEF IInv, WaitersLinked
    <2>3. \A u \in armed' : stat'[u] = "SUSPEND"
      BY <1>1, <1>2 DEF IInv, WaitersLinked, TypeOK, WaitListTypeOK, BlockingTypeOK
    <2> QED BY <2>1, <2>2, <2>3 DEF WaitersLinked
  <1>5. \A u \in Range(waiters') : u \in Thread /\ u # t
    BY ListEmpty
  <1>6. SetSeen' /\ NoSatisfiedWaiter'
    BY <1>2, <1>5, BitsKept
  <1>7. ReceivedSound'
    BY <1>1, <1>2 DEF IInv, TypeOK, WaitListTypeOK, ReceivedSound
  <1> QED BY <1>3, <1>4, <1>6, <1>7 DEF IInv

\* The thread that was unlinked becomes ready, with an error as its result.
LEMMA ResumeInsertStep ==
    ASSUME IInv, NEW t \in Thread, ResumeInsert(t), UNCHANGED bits PROVE IInv'
  <1>1. /\ stat[t] = "UNLINKED" /\ stat' = [stat EXCEPT ![t] = "READY"]
        /\ UNCHANGED <<armed, error, waiters, object, asleep>>
        /\ UNCHANGED <<set, event_set, event_info, asked, seen>>
    BY DEF ResumeInsert, Inserts, bits, history
  <1>2. \A u \in Thread : stat'[u] = IF u = t THEN "READY" ELSE stat[u]
    BY <1>1 DEF IInv, TypeOK, WaitListTypeOK, BlockingTypeOK
  <1>3. TypeOK'
    BY <1>1 DEF IInv, TypeOK, WaitListTypeOK, BlockingTypeOK
  <1>4. WaitersLinked'
    <2>1. \A u \in Thread : u \in Range(waiters') <=> stat'[u] = "SUSPEND"
      BY <1>1, <1>2 DEF IInv, WaitersLinked
    <2>2. \A u \in Thread : stat'[u] # "READY" => u \in asleep' /\ error'[u] # "EOK"
      BY <1>1, <1>2 DEF IInv, WaitersLinked
    <2>3. \A u \in armed' : stat'[u] = "SUSPEND"
      BY <1>1, <1>2 DEF IInv, WaitersLinked, TypeOK, WaitListTypeOK, BlockingTypeOK
    <2> QED BY <1>1, <2>1, <2>2, <2>3 DEF IInv, WaitersLinked
  <1>5. \A u \in Range(waiters') : u \in Thread /\ u # t
    BY <1>1, ListEmpty DEF IInv, TypeOK, WaitListTypeOK, WaitersLinked
  <1>6. waiters' \in Seq(Thread)
    BY <1>3 DEF TypeOK, WaitListTypeOK
  <1>7. SetSeen' /\ NoSatisfiedWaiter'
    BY <1>1, <1>2, <1>5, <1>6, BitsKept
  <1>8. error[t] # "EOK"
    BY <1>1 DEF IInv, WaitersLinked
  <1>9. ReceivedSound'
    BY <1>1, <1>2, <1>8 DEF IInv, TypeOK, WaitListTypeOK, ReceivedSound
  <1> QED BY <1>3, <1>4, <1>7, <1>9 DEF IInv

\* The timeout, or a resume.
LEMMA WaitEndsStep == ASSUME IInv, NEW t \in Thread, WaitEnds(t), UNCHANGED bits PROVE IInv'
  <1>1. /\ waiters' = Unlink(waiters, t)
        /\ UNCHANGED <<set, object, event_set, event_info, asleep, asked, seen>>
    BY DEF WaitEnds, bits, history
  <1>3. /\ waiters' \in Seq(Thread) /\ IsInjective(waiters')
        /\ Range(waiters') = Range(waiters) \ {t}
    BY <1>1, UnlinkUnlinks DEF IInv, TypeOK, WaitListTypeOK, WaitersLinked
  <1>4. object' \in Phase /\ set' \subseteq set
    BY <1>1 DEF IInv, TypeOK, WaitListTypeOK
  <1>5. CASE Elapsed(t)
    <2>1. Woken({t}, "ETIMEOUT") /\ "ETIMEOUT" \in Error
      BY <1>5 DEF Elapsed, Error
    <2> QED BY <1>1, <1>3, <1>4, <2>1, WaitsAbandoned
  <1>6. CASE Unlinks(t)
    BY <1>1, <1>3, <1>6, UnlinkStep
  <1> QED BY <1>5, <1>6 DEF WaitEnds

\* rt_event_control(RT_IPC_CMD_RESET).
LEMMA ResetStep == ASSUME IInv, Reset PROVE IInv'
  <1> DEFINE S == Range(waiters)
  <1>1. /\ Woken(S, "ERROR") /\ waiters' = <<>> /\ set' = {}
        /\ UNCHANGED <<object, event_set, event_info, asleep, asked, seen>>
    BY DEF Reset, bits, history
  <1>2. S \in SUBSET Thread
    BY ListEmpty DEF IInv, TypeOK, WaitListTypeOK
  <1>3. Range(<<>>) = {} /\ IsInjective(<<>>) /\ <<>> \in Seq(Thread)
    BY DEF Range, IsInjective
  <1>4. Range(waiters') = Range(waiters) \ S /\ set' \subseteq set
    BY <1>1, <1>3
  <1>5. object' \in Phase /\ "ERROR" \in Error
    BY <1>1 DEF IInv, TypeOK, WaitListTypeOK, Error
  <1> HIDE DEF S
  <1> QED BY <1>1, <1>2, <1>3, <1>4, <1>5, WaitsAbandoned

\* rt_event_detach resumes a waiter, or finds that the list has emptied.
LEMMA DetachResumeStep == ASSUME IInv, DetachResume, UNCHANGED bits PROVE IInv'
  <1>1. UNCHANGED <<set, event_set, event_info, asleep, asked, seen>>
    BY DEF DetachResume, bits, history
  <1>2. CASE waiters = <<>>
    <2>1. object' \in Phase /\ UNCHANGED <<waiters, stat, armed, error>>
      BY <1>2 DEF DetachResume, ResumeAllFirst, Rest, blocking, Phase
    <2> QED BY <1>1, <2>1 DEF IInv, TypeOK, WaitListTypeOK, BlockingTypeOK, WaitersLinked, SetSeen,
                              NoSatisfiedWaiter, ReceivedSound
  <1>3. CASE waiters # <<>>
    <2> DEFINE S == {Head(waiters)}
    <2>1. Woken(S, "ERROR") /\ waiters' = Tail(waiters) /\ object' = "detaching"
      BY <1>3 DEF DetachResume, ResumeAllFirst, Rest
    <2>2. S \in SUBSET Thread /\ "ERROR" \in Error
      BY <1>3, ListEmpty DEF IInv, TypeOK, WaitListTypeOK, Error
    <2>3. /\ waiters' \in Seq(Thread) /\ IsInjective(waiters')
          /\ Range(waiters') = Range(waiters) \ S
      BY <1>3, <2>1, TailLinks DEF IInv, TypeOK, WaitListTypeOK, WaitersLinked
    <2>4. object' \in Phase
      BY <2>1 DEF Phase
    <2> HIDE DEF S
    <2> QED BY <1>1, <2>1, <2>2, <2>3, <2>4, WaitsAbandoned
  <1> QED BY <1>2, <1>3

\* The object is detached or initialised, with nobody in its list, or nothing happens.
LEMMA QuietStep ==
    ASSUME IInv,
           \/ (DetachBegin \/ DetachTest \/ DetachEnd \/ Stopped) /\ UNCHANGED bits
           \/ \E t \in Thread : ResumeRaced(t) /\ UNCHANGED bits
           \/ InitAgain \/ UNCHANGED vars
    PROVE  IInv'
  <1>1. /\ UNCHANGED <<waiters, event_set, event_info, asleep, asked, seen>>
        /\ UNCHANGED <<stat, armed, error>>
        /\ object' \in {object} \cup Phase /\ set' \in {set, {}}
    BY DEF DetachBegin, DetachTest, DetachEnd, ResumeAllTest, Stopped, ResumeRaced, Races, Phase,
           InitAgain, Reborn, vars, waitList, bits, history, blocking
  <1>2. TypeOK' /\ WaitersLinked' /\ ReceivedSound'
    BY <1>1 DEF IInv, TypeOK, WaitListTypeOK, BlockingTypeOK, WaitersLinked, ReceivedSound
  <1>3. set' \subseteq set /\ waiters' \in Seq(Thread)
    BY <1>1, <1>2 DEF TypeOK, WaitListTypeOK
  <1>4. SetSeen' /\ NoSatisfiedWaiter'
    BY <1>1, <1>3, BitsKept
  <1> QED BY <1>2, <1>4 DEF IInv

\* No bit, and nobody waits.
LEMMA InitInv == Init => IInv
  <1> SUFFICES ASSUME Init PROVE IInv
    OBVIOUS
  <1>1. TypeOK
    BY DEF Init, WaitListInit, BlockingInit, TypeOK, WaitListTypeOK, BlockingTypeOK, Option,
           Error, Phase
  <1>2. Range(<<>>) = {} /\ IsInjective(<<>>)
    BY DEF Range, IsInjective
  <1>3. WaitersLinked /\ SetSeen /\ NoSatisfiedWaiter /\ ReceivedSound
    BY <1>2 DEF Init, WaitListInit, BlockingInit, WaitersLinked, SetSeen,
                NoSatisfiedWaiter, ReceivedSound
  <1> QED BY <1>1, <1>3 DEF IInv

\* Every step keeps the invariant.
LEMMA NextInv == IInv /\ [Next]_vars => IInv'
  <1> SUFFICES ASSUME IInv, [Next]_vars PROVE IInv'
    OBVIOUS
  <1>1. ASSUME NEW t \in Thread, NEW wanted \in Bits, NEW option \in Option,
               RecvNow(t, wanted, option)
        PROVE  IInv'
    BY <1>1, RecvNowStep
  <1>2. ASSUME NEW t \in Thread, NEW wanted \in Bits, NEW option \in Option,
               NEW timed \in Timed, RecvBlock(t, wanted, option, timed)
        PROVE  IInv'
    BY <1>2, RecvBlockStep, WaitListAssumption
  <1>3. ASSUME NEW t \in Thread,
               RecvReturn(t) \/ ((WaitEnds(t) \/ ResumeInsert(t)) /\ UNCHANGED bits)
        PROVE  IInv'
    BY <1>3, RecvReturnStep, WaitEndsStep, ResumeInsertStep
  <1>4. ASSUME NEW sent \in Bits, Send(sent) PROVE IInv'
    BY <1>4, SendStep
  <1>5. CASE Reset
    BY <1>5, ResetStep
  <1>6. CASE DetachResume /\ UNCHANGED bits
    BY <1>6, DetachResumeStep
  <1>7. CASE \/ (DetachBegin \/ DetachTest \/ DetachEnd \/ Stopped) /\ UNCHANGED bits
             \/ InitAgain \/ UNCHANGED vars
    BY <1>7, QuietStep
  <1>8. ASSUME NEW t \in Thread, ResumeRaced(t) /\ UNCHANGED bits PROVE IInv'
    BY <1>8, QuietStep
  <1>9. CASE (Detach \/ Stopped) /\ UNCHANGED bits
    BY <1>6, <1>7, <1>9 DEF Detach
  <1>10. ASSUME NEW t \in Thread,
                WaitEnds(t) \/ ResumeInsert(t) \/ ResumeRaced(t), UNCHANGED bits
         PROVE  IInv'
    BY <1>3, <1>8, <1>10
  <1> QED BY <1>1, <1>2, <1>3, <1>4, <1>5, <1>7, <1>9, <1>10 DEF Next

-----------------------------------------------------------------------------
(* The event: the theorems.                                                 *)

\* The invariant above is one of the event.
THEOREM EventInvariant == Spec => []IInv
  BY InitInv, NextInv, PTL DEF Spec

\* No thread sleeps in rt_event_recv while the bits that are set would satisfy it.
THEOREM WaitersUnsatisfied == Spec => []NoSatisfiedWaiter
  <1>1. IInv => NoSatisfiedWaiter
    BY DEF IInv
  <1> QED BY <1>1, EventInvariant, PTL

\* A thread that comes back with RT_EOK from a wait has received bits it asked for, all
\* of them or some, that were set while it waited, even if the same rt_event_send
\* served others that had them cleared.
THEOREM ReceivedCorrect == Spec => []ReceivedSound
  <1>1. IInv => ReceivedSound
    BY DEF IInv
  <1> QED BY <1>1, EventInvariant, PTL

-----------------------------------------------------------------------------
(* The memory pool.                                                         *)

\* The list of waiting threads and what the threads themselves say agree: the linked
\* ones are those that are suspended, inside rt_mp_alloc, and only their timers run.
MpWaitersLinked ==
    /\ IsInjective(waiters)
    /\ \A t \in Thread : t \in Range(waiters) <=> stat[t] = "SUSPEND"
    /\ \A t \in Thread : stat[t] # "READY" => t \in asleep
    /\ \A t \in armed : stat[t] = "SUSPEND"

\* A thread that rt_mp_free resumed has not looked at the pool yet.
FreedLooks == \A t \in freed : t \in asleep /\ stat[t] = "READY" /\ error[t] = "EOK"

\* The inductive invariant.
MpIInv == MpTypeOK /\ BlocksAccounted /\ NoLostWakeup /\ MpWaitersLinked /\ FreedLooks

-----------------------------------------------------------------------------
(* The memory pool: lemmas.                                                 *)

\* The blocks of the list are some of the pool's, and counted.
LEMMA ListCounted ==
    ASSUME NEW list \in Seq(Block), IsInjective(list)
    PROVE  Len(list) \in 0 .. Cardinality(Block) /\ Cardinality(Block) \in Nat
  <1>1. Cardinality(Range(list)) = Len(list) /\ Range(list) \in SUBSET Block
    BY NodesCounted, ListEmpty
  <1>2. Cardinality(Range(list)) <= Cardinality(Block) /\ Cardinality(Block) \in Nat
    BY <1>1, MemPoolAssumption, FS_Subset, FS_CardinalityType
  <1> QED BY <1>1, <1>2

\* The woken threads are finitely many.
LEMMA FreedCounted ==
    ASSUME MpTypeOK
    PROVE  IsFiniteSet(freed) /\ Cardinality(freed) \in Nat
  <1>1. IsFiniteSet(freed)
    BY WaitListAssumption, FS_Subset DEF MpTypeOK, WaitListTypeOK
  <1> QED BY <1>1, FS_CardinalityType

\* A step that resumes at most the waiter t, and unlinks it, keeps the list in
\* agreement with the threads.
LEMMA WokenWaiter ==
    ASSUME MpTypeOK, MpWaitersLinked, NEW t \in Thread, stat[t] = "SUSPEND", NEW e \in Error,
           Woken({t}, e), waiters' \in Seq(Thread), IsInjective(waiters'),
           Range(waiters') = Range(waiters) \ {t}, asleep' = asleep
    PROVE  /\ BlockingTypeOK' /\ MpWaitersLinked'
           /\ \A u \in Thread : /\ stat'[u] = IF u = t THEN "READY" ELSE stat[u]
                                /\ error'[u] = IF u = t THEN e ELSE error[u]
           /\ waiters = <<>> => waiters' = <<>>
  <1>1. \A u \in Thread : /\ stat'[u] = IF u = t THEN "READY" ELSE stat[u]
                          /\ error'[u] = IF u = t THEN e ELSE error[u]
    BY DEF Woken
  <1>2. BlockingTypeOK'
    BY DEF MpTypeOK, WaitListTypeOK, BlockingTypeOK, Woken
  <1>3. armed' = armed \ {t} /\ armed \subseteq Thread
    BY DEF Woken, MpTypeOK, WaitListTypeOK, BlockingTypeOK
  <1>4. \A u \in Thread : u \in Range(waiters') <=> stat'[u] = "SUSPEND"
    BY <1>1 DEF MpWaitersLinked
  <1>5. \A u \in Thread : stat'[u] # "READY" => u \in asleep'
    BY <1>1 DEF MpWaitersLinked
  <1>6. \A u \in armed' : stat'[u] = "SUSPEND"
    BY <1>1, <1>3 DEF MpWaitersLinked
  <1>7. waiters = <<>> => waiters' = <<>>
    BY ListEmpty DEF MpTypeOK, WaitListTypeOK
  <1> QED BY <1>1, <1>2, <1>4, <1>5, <1>6, <1>7 DEF MpWaitersLinked

\* The first waiter is resumed with e.
LEMMA WokenHead ==
    ASSUME MpTypeOK, MpWaitersLinked, waiters # <<>>, NEW e \in Error,
           Woken({Head(waiters)}, e), waiters' = Tail(waiters), asleep' = asleep
    PROVE  /\ Head(waiters) \in Thread /\ stat[Head(waiters)] = "SUSPEND"
           /\ waiters' \in Seq(Thread) /\ BlockingTypeOK' /\ MpWaitersLinked'
           /\ \A u \in Thread : /\ stat'[u] = IF u = Head(waiters) THEN "READY" ELSE stat[u]
                                /\ error'[u] = IF u = Head(waiters) THEN e ELSE error[u]
  <1> DEFINE t == Head(waiters)
  <1>1. t \in Thread /\ stat[t] = "SUSPEND"
    BY ListEmpty DEF MpTypeOK, WaitListTypeOK, MpWaitersLinked
  <1>2. /\ waiters' \in Seq(Thread) /\ IsInjective(waiters')
        /\ Range(waiters') = Range(waiters) \ {t}
    BY TailLinks DEF MpTypeOK, WaitListTypeOK, MpWaitersLinked
  <1>3. Woken({t}, e)
    OBVIOUS
  <1> HIDE DEF t
  <1>4. /\ BlockingTypeOK' /\ MpWaitersLinked'
        /\ \A u \in Thread : /\ stat'[u] = IF u = t THEN "READY" ELSE stat[u]
                             /\ error'[u] = IF u = t THEN e ELSE error[u]
    BY <1>1, <1>2, <1>3, WokenWaiter
  <1> QED BY <1>1, <1>2, <1>4 DEF t

-----------------------------------------------------------------------------
(* The memory pool: the actions.                                            *)

\* A block is taken: the count and the list lose one, and so do the woken threads at
\* most.
LEMMA AllocStep == ASSUME MpIInv, NEW t \in Thread, Alloc(t) PROVE MpIInv'
  <1>1. /\ Looks(t) /\ block_free_count > 0
        /\ block_free_count' = block_free_count - 1 /\ block_list' = Tail(block_list)
        /\ held' = held \cup {Head(block_list)} /\ asleep' = asleep \ {t}
        /\ freed' = freed \ {t}
        /\ UNCHANGED <<waiters, object, time, stat, armed, error>>
    BY DEF Alloc, blocking
  <1>2. /\ block_list \in Seq(Block) /\ IsInjective(block_list)
        /\ block_free_count = Len(block_list) /\ block_list # <<>>
    BY <1>1 DEF MpIInv, MpTypeOK, WaitListTypeOK, BlocksAccounted
  <1>3. /\ block_list' \in Seq(Block) /\ IsInjective(block_list')
        /\ Range(block_list') = Range(block_list) \ {Head(block_list)}
        /\ Head(block_list) \in Range(block_list)
        /\ Len(block_list') = Len(block_list) - 1
    BY <1>1, <1>2, TailLinks, ListEmpty
  <1>4. BlocksAccounted'
    BY <1>1, <1>2, <1>3 DEF MpIInv, BlocksAccounted
  <1>5. block_free_count' \in 0 .. Cardinality(Block)
    BY <1>1, <1>2, <1>3, ListCounted
  <1>6. held' \subseteq Block
    BY <1>4 DEF BlocksAccounted
  <1>7. MpTypeOK'
    BY <1>1, <1>3, <1>5, <1>6 DEF MpIInv, MpTypeOK, WaitListTypeOK, BlockingTypeOK
  <1>8. stat[t] = "READY"
    BY <1>1 DEF MpIInv, MpWaitersLinked, Looks
  <1>9. MpWaitersLinked' /\ FreedLooks'
    BY <1>1, <1>8 DEF MpIInv, MpWaitersLinked, FreedLooks
  <1>10. NoLostWakeup'
    <2>1. IsFiniteSet(freed) /\ Cardinality(freed) \in Nat
      BY FreedCounted DEF MpIInv
    <2>2. Cardinality(freed') = IF t \in freed THEN Cardinality(freed) - 1
                                ELSE Cardinality(freed)
      BY <1>1, <2>1, FS_RemoveElement
    <2>3. Cardinality(freed') \in Nat /\ Cardinality(freed') >= Cardinality(freed) - 1
      <3>1. freed' \in SUBSET freed
        BY <1>1
      <3>2. Cardinality(freed') \in Nat
        BY <2>1, <3>1, FS_Subset, FS_CardinalityType
      <3> QED BY <2>1, <2>2, <3>2
    <2>4. block_free_count \in Nat
      BY <1>2
    <2> QED BY <1>1, <2>1, <2>2, <2>3, <2>4 DEF MpIInv, NoLostWakeup
  <1> QED BY <1>4, <1>7, <1>9, <1>10 DEF MpIInv

\* A thread waits: there is no free block.
LEMMA WaitStep ==
    ASSUME MpIInv, NEW t \in Thread, NEW timed \in BOOLEAN, Wait(t, timed) PROVE MpIInv'
  <1>1. /\ Looks(t) /\ block_free_count = 0
        /\ stat' = [stat EXCEPT ![t] = "SUSPEND"] /\ error' = [error EXCEPT ![t] = "EOK"]
        /\ armed' \subseteq armed \cup {t}
        /\ waiters' = InsertAfter(waiters, t) /\ asleep' = asleep \cup {t}
        /\ time' = [time EXCEPT ![t] = timed] /\ freed' = freed \ {t}
        /\ UNCHANGED <<block_list, block_free_count, held, object>>
    BY DEF Wait, Suspended, pool
  <1>2. stat[t] # "SUSPEND"
    BY <1>1 DEF MpIInv, MpWaitersLinked, Looks
  <1>3. /\ waiters \in Seq(Thread) /\ IsInjective(waiters) /\ t \notin Range(waiters)
    BY <1>2 DEF MpIInv, MpTypeOK, WaitListTypeOK, MpWaitersLinked
  <1>4. /\ waiters' \in Seq(Thread) /\ IsInjective(waiters')
        /\ Range(waiters') = Range(waiters) \cup {t}
    BY <1>1, <1>3, InsertAfterLinks
  <1>5. \A u \in Thread : /\ stat'[u] = IF u = t THEN "SUSPEND" ELSE stat[u]
                          /\ error'[u] = IF u = t THEN "EOK" ELSE error[u]
    BY <1>1 DEF MpIInv, MpTypeOK, WaitListTypeOK, BlockingTypeOK
  <1>6. BlockingTypeOK'
    BY <1>1 DEF MpIInv, MpTypeOK, WaitListTypeOK, BlockingTypeOK, Error
  <1>7. MpTypeOK'
    <2>1. time' \in [Thread -> BOOLEAN] /\ asleep' \subseteq Thread /\ freed' \subseteq Thread
      BY <1>1 DEF MpIInv, MpTypeOK, WaitListTypeOK
    <2> QED BY <1>1, <1>4, <1>6, <2>1 DEF MpIInv, MpTypeOK, WaitListTypeOK
  <1>8. MpWaitersLinked'
    <2>1. \A u \in Thread : u \in Range(waiters') <=> stat'[u] = "SUSPEND"
      BY <1>4, <1>5 DEF MpIInv, MpWaitersLinked
    <2>2. \A u \in Thread : stat'[u] # "READY" => u \in asleep'
      BY <1>1, <1>5 DEF MpIInv, MpWaitersLinked
    <2>3. \A u \in armed' : stat'[u] = "SUSPEND"
      BY <1>1, <1>5 DEF MpIInv, MpTypeOK, WaitListTypeOK, BlockingTypeOK, MpWaitersLinked
    <2> QED BY <1>4, <2>1, <2>2, <2>3 DEF MpWaitersLinked
  <1>9. FreedLooks'
    BY <1>1, <1>5 DEF MpIInv, MpTypeOK, WaitListTypeOK, FreedLooks
  <1>10. NoLostWakeup' /\ BlocksAccounted'
    <2>1. Cardinality(freed') \in Nat
      BY <1>7, WaitListAssumption, FS_Subset, FS_CardinalityType DEF MpTypeOK, WaitListTypeOK
    <2>2. block_free_count' = 0
      BY <1>1
    <2>3. NoLostWakeup'
      BY <2>1, <2>2 DEF NoLostWakeup
    <2> QED BY <1>1, <2>3 DEF MpIInv, BlocksAccounted
  <1> QED BY <1>7, <1>8, <1>9, <1>10 DEF MpIInv

\* A thread returns without a block, its time used up.
LEMMA GiveUpStep == ASSUME MpIInv, NEW t \in Thread, GiveUp(t) PROVE MpIInv'
  <1>1. /\ t \in asleep /\ Looks(t) /\ block_free_count = 0
        /\ asleep' = asleep \ {t} /\ freed' = freed \ {t}
        /\ UNCHANGED <<block_list, block_free_count, held, waiters, object, time,
                       stat, armed, error>>
    BY DEF GiveUp, pool, blocking
  <1>2. stat[t] = "READY"
    BY <1>1 DEF Looks
  <1>3. MpTypeOK' /\ BlocksAccounted'
    BY <1>1 DEF MpIInv, MpTypeOK, WaitListTypeOK, BlockingTypeOK, BlocksAccounted
  <1>4. MpWaitersLinked' /\ FreedLooks'
    BY <1>1, <1>2 DEF MpIInv, MpWaitersLinked, FreedLooks
  <1>5. NoLostWakeup'
    BY <1>1, <1>3, WaitListAssumption, FS_Subset, FS_CardinalityType
       DEF MpTypeOK, WaitListTypeOK, NoLostWakeup
  <1> QED BY <1>3, <1>4, <1>5 DEF MpIInv

\* A thread returns from a wait that ended with an error: it was not woken by a free.
LEMMA AllocFailsStep == ASSUME MpIInv, NEW t \in Thread, AllocFails(t) PROVE MpIInv'
  <1>1. /\ stat[t] = "READY" /\ error[t] # "EOK" /\ asleep' = asleep \ {t}
        /\ UNCHANGED <<block_list, block_free_count, held, waiters, object, time, freed,
                       stat, armed, error>>
    BY DEF AllocFails, pool, blocking
  <1>2. MpTypeOK' /\ BlocksAccounted' /\ NoLostWakeup'
    BY <1>1 DEF MpIInv, MpTypeOK, WaitListTypeOK, BlockingTypeOK, BlocksAccounted, NoLostWakeup
  <1>3. MpWaitersLinked' /\ FreedLooks'
    BY <1>1 DEF MpIInv, MpWaitersLinked, FreedLooks
  <1> QED BY <1>2, <1>3 DEF MpIInv

\* A block comes back: it was in nobody's list, and the thread it wakes was not woken
\* by an earlier free.
LEMMA FreeStep == ASSUME MpIInv, NEW b \in Block, Free(b) PROVE MpIInv'
  <1>1. /\ b \in held /\ held' = held \ {b} /\ block_free_count' = block_free_count + 1
        /\ block_list' = InsertAfter(block_list, b) /\ UNCHANGED <<object, asleep, time>>
    BY DEF Free, InsertAfter
  <1>2. /\ block_list \in Seq(Block) /\ IsInjective(block_list)
        /\ block_free_count = Len(block_list) /\ b \notin Range(block_list)
    BY <1>1 DEF MpIInv, MpTypeOK, WaitListTypeOK, BlocksAccounted
  <1>3. /\ block_list' \in Seq(Block) /\ IsInjective(block_list')
        /\ Range(block_list') = Range(block_list) \cup {b}
    BY <1>1, <1>2, InsertAfterLinks
  <1>4. Len(block_list') = Len(block_list) + 1
    BY <1>1, <1>2 DEF InsertAfter
  <1>5. BlocksAccounted'
    BY <1>1, <1>2, <1>3, <1>4 DEF MpIInv, BlocksAccounted
  <1>6. block_free_count' \in 0 .. Cardinality(Block) /\ held' \subseteq Block
    <2>1. block_free_count' = Len(block_list')
      BY <1>5 DEF BlocksAccounted
    <2>2. block_free_count' \in 0 .. Cardinality(Block)
      BY <1>3, <2>1, ListCounted
    <2> QED BY <1>1, <2>2 DEF MpIInv, MpTypeOK, WaitListTypeOK
  <1>7. IsFiniteSet(freed) /\ Cardinality(freed) \in Nat /\ block_free_count \in Nat
    BY <1>2, FreedCounted DEF MpIInv
  <1>8. CASE waiters = <<>>
    <2>1. UNCHANGED <<waiters, freed, stat, armed, error>>
      BY <1>8 DEF Free, blocking
    <2>2. MpTypeOK'
      BY <1>1, <1>3, <1>6, <2>1 DEF MpIInv, MpTypeOK, WaitListTypeOK, BlockingTypeOK
    <2>3. MpWaitersLinked' /\ FreedLooks' /\ NoLostWakeup'
      BY <1>1, <1>8, <2>1 DEF MpIInv, MpWaitersLinked, FreedLooks, NoLostWakeup
    <2> QED BY <1>5, <2>2, <2>3 DEF MpIInv
  <1>9. CASE waiters # <<>>
    <2> DEFINE t == Head(waiters)
    <2>1. /\ Woken({t}, "EOK") /\ freed' = freed \cup {t} /\ waiters' = Tail(waiters)
      BY <1>9 DEF Free
    <2>2. /\ t \in Thread /\ stat[t] = "SUSPEND"
          /\ waiters' \in Seq(Thread) /\ BlockingTypeOK' /\ MpWaitersLinked'
          /\ \A u \in Thread : /\ stat'[u] = IF u = t THEN "READY" ELSE stat[u]
                               /\ error'[u] = IF u = t THEN "EOK" ELSE error[u]
      BY <1>1, <1>9, <2>1, WokenHead DEF MpIInv, Error
    <2> HIDE DEF t
    <2>3. MpTypeOK'
      BY <1>1, <1>3, <1>6, <2>1, <2>2 DEF MpIInv, MpTypeOK, WaitListTypeOK
    <2>4. t \notin freed /\ t \in asleep
      BY <2>2 DEF MpIInv, FreedLooks, MpWaitersLinked
    <2>5. FreedLooks'
      BY <1>1, <2>1, <2>2, <2>4 DEF MpIInv, MpTypeOK, WaitListTypeOK, FreedLooks
    <2>6. Cardinality(freed') = Cardinality(freed) + 1
      BY <1>7, <2>1, <2>4, FS_AddElement
    <2>7. NoLostWakeup'
      BY <1>1, <1>7, <1>9, <2>6 DEF MpIInv, NoLostWakeup
    <2> QED BY <1>5, <2>2, <2>3, <2>5, <2>7 DEF MpIInv
  <1> QED BY <1>8, <1>9

\* A direct resume unlinks a waiter.
LEMMA MpUnlinked ==
    ASSUME MpTypeOK, MpWaitersLinked, NEW t \in Thread, Unlinks(t), waiters' \in Seq(Thread),
           IsInjective(waiters'), Range(waiters') = Range(waiters) \ {t}, asleep' = asleep
    PROVE  /\ BlockingTypeOK' /\ MpWaitersLinked'
           /\ \A u \in Thread : u # t => stat'[u] = stat[u] /\ error'[u] = error[u]
           /\ waiters = <<>> => waiters' = <<>>
  <1>1. /\ stat[t] = "SUSPEND" /\ stat' = [stat EXCEPT ![t] = "UNLINKED"]
        /\ armed' = armed \ {t} /\ error' = error
    BY DEF Unlinks
  <1>2. \A u \in Thread : stat'[u] = IF u = t THEN "UNLINKED" ELSE stat[u]
    BY <1>1 DEF MpTypeOK, WaitListTypeOK, BlockingTypeOK
  <1>3. BlockingTypeOK'
    BY <1>1 DEF MpTypeOK, WaitListTypeOK, BlockingTypeOK
  <1>4. \A u \in Thread : u \in Range(waiters') <=> stat'[u] = "SUSPEND"
    BY <1>2 DEF MpWaitersLinked
  <1>5. \A u \in Thread : stat'[u] # "READY" => u \in asleep'
    BY <1>1, <1>2 DEF MpWaitersLinked
  <1>6. \A u \in armed' : stat'[u] = "SUSPEND"
    BY <1>1, <1>2 DEF MpWaitersLinked, MpTypeOK, WaitListTypeOK, BlockingTypeOK
  <1>7. waiters = <<>> => waiters' = <<>>
    BY ListEmpty DEF MpTypeOK, WaitListTypeOK
  <1> QED BY <1>1, <1>2, <1>3, <1>4, <1>5, <1>6, <1>7 DEF MpWaitersLinked

\* The thread that was unlinked becomes ready; rt_mp_free did not resume it.
LEMMA MpResumeInsertStep ==
    ASSUME MpIInv, NEW t \in Thread, ResumeInsert(t), UNCHANGED <<pool, time, freed>>
    PROVE  MpIInv'
  <1>1. /\ stat[t] = "UNLINKED" /\ stat' = [stat EXCEPT ![t] = "READY"]
        /\ UNCHANGED <<armed, error, waiters, object, asleep>>
        /\ UNCHANGED <<block_list, block_free_count, held, time, freed>>
    BY DEF ResumeInsert, Inserts, pool
  <1>2. \A u \in Thread : stat'[u] = IF u = t THEN "READY" ELSE stat[u]
    BY <1>1 DEF MpIInv, MpTypeOK, WaitListTypeOK, BlockingTypeOK
  <1>3. MpTypeOK' /\ BlocksAccounted' /\ NoLostWakeup'
    BY <1>1 DEF MpIInv, MpTypeOK, WaitListTypeOK, BlockingTypeOK, BlocksAccounted, NoLostWakeup
  <1>4. \A u \in Thread : u \in Range(waiters') <=> stat'[u] = "SUSPEND"
    BY <1>1, <1>2 DEF MpIInv, MpWaitersLinked
  <1>5. \A u \in Thread : stat'[u] # "READY" => u \in asleep'
    BY <1>1, <1>2 DEF MpIInv, MpWaitersLinked
  <1>6. \A u \in armed' : stat'[u] = "SUSPEND"
    BY <1>1, <1>2 DEF MpIInv, MpWaitersLinked, MpTypeOK, WaitListTypeOK, BlockingTypeOK
  <1>7. MpWaitersLinked'
    BY <1>1, <1>4, <1>5, <1>6 DEF MpIInv, MpWaitersLinked
  <1>8. FreedLooks'
    BY <1>1, <1>2 DEF MpIInv, MpTypeOK, FreedLooks
  <1> QED BY <1>3, <1>7, <1>8 DEF MpIInv

\* A wait ends before a block comes: the thread is no longer linked, and no woken
\* thread is touched.
LEMMA MpWaitEndsStep ==
    ASSUME MpIInv, NEW t \in Thread, WaitEnds(t), UNCHANGED <<pool, time, freed>> PROVE MpIInv'
  <1>1. /\ waiters' = Unlink(waiters, t)
        /\ UNCHANGED <<block_list, block_free_count, held, object, asleep, time, freed>>
    BY DEF WaitEnds, pool
  <1>2. stat[t] = "SUSPEND" /\ "ETIMEOUT" \in Error
    BY DEF MpIInv, MpWaitersLinked, WaitEnds, Elapsed, Unlinks, Error
  <1>3. /\ waiters' \in Seq(Thread) /\ IsInjective(waiters')
        /\ Range(waiters') = Range(waiters) \ {t}
    BY <1>1, UnlinkUnlinks DEF MpIInv, MpTypeOK, WaitListTypeOK, MpWaitersLinked
  <1>4. /\ BlockingTypeOK' /\ MpWaitersLinked'
        /\ \A u \in Thread : u # t => stat'[u] = stat[u] /\ error'[u] = error[u]
        /\ waiters = <<>> => waiters' = <<>>
    <2>1. CASE Elapsed(t)
      <3>1. Woken({t}, "ETIMEOUT")
        BY <2>1 DEF Elapsed
      <3> QED BY <1>1, <1>2, <1>3, <3>1, WokenWaiter DEF MpIInv
    <2>2. CASE Unlinks(t)
      BY <1>1, <1>3, <2>2, MpUnlinked DEF MpIInv
    <2> QED BY <2>1, <2>2 DEF WaitEnds
  <1>5. MpTypeOK' /\ BlocksAccounted' /\ NoLostWakeup'
    BY <1>1, <1>3, <1>4 DEF MpIInv, MpTypeOK, WaitListTypeOK, BlocksAccounted, NoLostWakeup
  <1>6. t \notin freed
    BY <1>2 DEF MpIInv, FreedLooks
  <1>7. FreedLooks'
    BY <1>1, <1>4, <1>6 DEF MpIInv, MpTypeOK, WaitListTypeOK, FreedLooks
  <1> QED BY <1>4, <1>5, <1>7 DEF MpIInv

\* rt_mp_detach resumes a waiter with -RT_ERROR, or finds that the list has emptied.
LEMMA MpDetachResumeStep ==
    ASSUME MpIInv, DetachResume, UNCHANGED <<pool, time, freed>> PROVE MpIInv'
  <1>1. UNCHANGED <<block_list, block_free_count, held, asleep, time, freed>>
    BY DEF DetachResume, pool
  <1>2. CASE waiters = <<>>
    <2>1. object' \in Phase /\ UNCHANGED <<waiters, stat, armed, error>>
      BY <1>2 DEF DetachResume, ResumeAllFirst, Rest, blocking, Phase
    <2> QED BY <1>1, <2>1 DEF MpIInv, MpTypeOK, WaitListTypeOK, BlockingTypeOK,
                      BlocksAccounted, NoLostWakeup, MpWaitersLinked, FreedLooks
  <1>3. CASE waiters # <<>>
    <2> DEFINE t == Head(waiters)
    <2>1. Woken({t}, "ERROR") /\ waiters' = Tail(waiters) /\ object' \in Phase
      BY <1>3 DEF DetachResume, ResumeAllFirst, Rest, Phase
    <2>2. /\ t \in Thread /\ stat[t] = "SUSPEND"
          /\ waiters' \in Seq(Thread) /\ BlockingTypeOK' /\ MpWaitersLinked'
          /\ \A u \in Thread : /\ stat'[u] = IF u = t THEN "READY" ELSE stat[u]
                               /\ error'[u] = IF u = t THEN "ERROR" ELSE error[u]
      BY <1>1, <1>3, <2>1, WokenHead DEF MpIInv, Error
    <2> HIDE DEF t
    <2>3. MpTypeOK' /\ BlocksAccounted' /\ NoLostWakeup'
      BY <1>1, <1>3, <2>1, <2>2 DEF MpIInv, MpTypeOK, WaitListTypeOK, BlocksAccounted, NoLostWakeup
    <2>4. t \notin freed
      BY <2>2 DEF MpIInv, FreedLooks
    <2>5. FreedLooks'
      BY <1>1, <2>2, <2>4 DEF MpIInv, MpTypeOK, WaitListTypeOK, FreedLooks
    <2> QED BY <2>2, <2>3, <2>5 DEF MpIInv
  <1> QED BY <1>2, <1>3

\* The steps that change the object only, and the steps that change nothing.
LEMMA MpQuietStep ==
    ASSUME MpIInv,
           \/ (DetachBegin \/ DetachTest \/ DetachEnd \/ Stopped) /\ UNCHANGED <<pool, time, freed>>
           \/ \E t \in Thread : ResumeRaced(t) /\ UNCHANGED <<pool, time, freed>>
           \/ MpInitAgain \/ UNCHANGED mpVars
    PROVE  MpIInv'
  <1>1. /\ UNCHANGED <<block_list, block_free_count, held, waiters, asleep, time, freed,
                       stat, armed, error>>
        /\ object' \in {object} \cup Phase
    BY DEF DetachBegin, DetachTest, DetachEnd, ResumeAllTest, Stopped, ResumeRaced, Races, Phase,
           MpInitAgain, Reborn, mpVars, waitList, pool, blocking
  <1> QED BY <1>1 DEF MpIInv, MpTypeOK, WaitListTypeOK, BlockingTypeOK,
                      BlocksAccounted, NoLostWakeup, MpWaitersLinked, FreedLooks

\* A pool as rt_mp_init leaves it: as many different blocks in the list as there are,
\* so all of them.
LEMMA MpInitInv == MpInit => MpIInv
  <1> SUFFICES ASSUME MpInit PROVE MpIInv
    OBVIOUS
  <1>1. Cardinality(Block) \in Nat
    BY MemPoolAssumption, FS_CardinalityType
  <1>2. /\ block_list \in Seq(Block) /\ Len(block_list) = Cardinality(Block)
        /\ IsInjective(block_list)
    BY <1>1 DEF MpInit, WaitListInit
  <1>3. Cardinality(Range(block_list)) = Cardinality(Block) /\ Range(block_list) \in SUBSET Block
    BY <1>2, NodesCounted, ListEmpty
  <1>4. Range(block_list) = Block
    BY <1>3, MemPoolAssumption, FS_Subset
  <1>5. BlocksAccounted
    BY <1>2, <1>4 DEF MpInit, WaitListInit, BlocksAccounted
  <1>6. MpTypeOK
    BY <1>1, <1>2 DEF MpInit, WaitListInit, BlockingInit, MpTypeOK, WaitListTypeOK,
                      BlockingTypeOK, Error, Phase
  <1>7. Range(waiters) = {} /\ IsInjective(waiters)
    BY DEF MpInit, WaitListInit, Range, IsInjective
  <1>8. MpWaitersLinked /\ FreedLooks /\ NoLostWakeup
    BY <1>7 DEF MpInit, WaitListInit, BlockingInit, MpWaitersLinked, FreedLooks, NoLostWakeup
  <1> QED BY <1>5, <1>6, <1>8 DEF MpIInv

\* Every step keeps the invariant.
LEMMA MpNextInv == MpIInv /\ [MpNext]_mpVars => MpIInv'
  <1> SUFFICES ASSUME MpIInv, [MpNext]_mpVars PROVE MpIInv'
    OBVIOUS
  <1>1. ASSUME NEW t \in Thread,
               Alloc(t) \/ GiveUp(t) \/ AllocFails(t)
                 \/ ((WaitEnds(t) \/ ResumeInsert(t)) /\ UNCHANGED <<pool, time, freed>>)
        PROVE  MpIInv'
    BY <1>1, AllocStep, GiveUpStep, AllocFailsStep, MpWaitEndsStep, MpResumeInsertStep
  <1>2. ASSUME NEW t \in Thread, NEW timed \in Timed, Wait(t, timed) PROVE MpIInv'
    BY <1>2, WaitStep, WaitListAssumption
  <1>3. ASSUME NEW b \in Block, Free(b) PROVE MpIInv'
    BY <1>3, FreeStep
  <1>4. CASE DetachResume /\ UNCHANGED <<pool, time, freed>>
    BY <1>4, MpDetachResumeStep
  <1>5. CASE \/ (DetachBegin \/ DetachTest \/ DetachEnd \/ Stopped) /\ UNCHANGED <<pool, time, freed>>
             \/ MpInitAgain \/ UNCHANGED mpVars
    BY <1>5, MpQuietStep
  <1>6. ASSUME NEW t \in Thread, ResumeRaced(t) /\ UNCHANGED <<pool, time, freed>> PROVE MpIInv'
    BY <1>6, MpQuietStep
  <1>7. CASE (Detach \/ Stopped) /\ UNCHANGED <<pool, time, freed>>
    BY <1>4, <1>5, <1>7 DEF Detach
  <1>8. ASSUME NEW t \in Thread,
               WaitEnds(t) \/ ResumeInsert(t) \/ ResumeRaced(t), UNCHANGED <<pool, time, freed>>
        PROVE  MpIInv'
    BY <1>1, <1>6, <1>8
  <1> QED BY <1>1, <1>2, <1>3, <1>5, <1>7, <1>8 DEF MpNext

-----------------------------------------------------------------------------
(* The memory pool: the theorems.                                           *)

\* The invariant above is one of the memory pool.
THEOREM PoolInvariant == MpSpec => []MpIInv
  BY MpInitInv, MpNextInv, PTL DEF MpSpec

\* rt_mp_alloc and rt_mp_free lose no block and hand out none twice, and the count by
\* which rt_mp_alloc decides is the length of the list it takes the block from.
THEOREM BlocksCorrect == MpSpec => []BlocksAccounted
  <1>1. MpIInv => BlocksAccounted
    BY DEF MpIInv
  <1> QED BY <1>1, PoolInvariant, PTL

\* While a thread waits, as many threads that rt_mp_free resumed are on their way to
\* the free blocks as there are free blocks.
THEOREM WakeupCorrect == MpSpec => []NoLostWakeup
  <1>1. MpIInv => NoLostWakeup
    BY DEF MpIInv
  <1> QED BY <1>1, PoolInvariant, PTL

=============================================================================
