----------------------------- MODULE QueueProofs -----------------------------
(***************************************************************************)
(* The mailbox and the message queue lose no wakeup and implement the        *)
(* bounded queue, for any number of threads, any size and both orders of     *)
(* their waiting lists; the message queue loses none of its nodes.           *)
(***************************************************************************)
EXTENDS Mailbox, MessageQueue, ListProofs, SequenceTheorems

-----------------------------------------------------------------------------
(* What the two have in common: the calls and the two lists.                *)

\* A list and what the threads say agree: linked are the ones suspended in this call.
Agrees(list, op) ==
    /\ IsInjective(list)
    /\ \A t \in Thread : t \in Range(list) <=> stat[t] = "SUSPEND" /\ pc[t] = op

\* The two lists, the calls and the timers agree.
CallsSound ==
    /\ Agrees(receivers, "take") /\ Agrees(senders, "put")
    /\ \A t \in asleep : pc[t] \in {"put", "take"}
    /\ \A t \in Thread : stat[t] # "READY" => t \in asleep
    /\ \A t \in armed : stat[t] = "SUSPEND"

\* The result of a call is one the queue may give.
ResultTypeOK == result \in [Thread -> Queue!Outcome]

\* The part of the two inductive invariants that is about the calls.
CallsOK == CallsTypeOK /\ CallsSound /\ ResultTypeOK

\* No wakeup is lost when there are m messages and s free places.
Wakeups(m, s) ==
    /\ receivers # <<>> => m <= Cardinality(OnTheWay("take"))
    /\ senders # <<>> => s <= Cardinality(OnTheWay("put"))

\* A thread that looks at the queue is not suspended.
LEMMA LooksReady ==
    ASSUME CallsOK, NEW t \in Thread, Looks(t)
    PROVE  stat[t] = "READY" /\ t \notin Range(receivers) /\ t \notin Range(senders)
  BY DEF CallsOK, CallsTypeOK, BlockingTypeOK, CallsSound, Agrees, Looks

\* The threads S are resumed and unlinked, and threads that are not suspended may
\* return: lists and threads still agree.
LEMMA ListsShrink ==
    ASSUME CallsTypeOK, CallsSound, NEW S \in SUBSET Thread,
           \A u \in Thread : stat'[u] = IF u \in S THEN "READY" ELSE stat[u],
           armed' = armed \ S, asleep' \subseteq asleep,
           \A u \in Thread : stat[u] # "READY" => pc'[u] = pc[u] /\ u \in asleep',
           \A u \in asleep' : pc'[u] = pc[u],
           IsInjective(receivers'), Range(receivers') = Range(receivers) \ S,
           IsInjective(senders'), Range(senders') = Range(senders) \ S
    PROVE  CallsSound'
  <1>1. \A u \in Thread : stat'[u] = "SUSPEND" <=> stat[u] = "SUSPEND" /\ u \notin S
    OBVIOUS
  <1>2. ASSUME NEW u \in Thread
        PROVE  /\ u \in Range(receivers') <=> stat'[u] = "SUSPEND" /\ pc'[u] = "take"
               /\ u \in Range(senders') <=> stat'[u] = "SUSPEND" /\ pc'[u] = "put"
    BY <1>1 DEF CallsSound, Agrees
  <1>3. Agrees(receivers, "take")' /\ Agrees(senders, "put")'
    BY <1>2 DEF Agrees
  <1>4. \A u \in asleep' : pc'[u] \in {"put", "take"}
    BY DEF CallsSound
  <1>5. \A u \in Thread : stat'[u] # "READY" => u \in asleep'
    OBVIOUS
  <1>6. \A u \in armed' : stat'[u] = "SUSPEND"
    BY <1>1 DEF CallsSound, CallsTypeOK, BlockingTypeOK
  <1> QED BY <1>3, <1>4, <1>5, <1>6 DEF CallsSound

\* The threads that are resumed, by threads.
LEMMA WokenThreads ==
    ASSUME BlockingTypeOK, NEW S \in SUBSET Thread, NEW e \in Error, Woken(S, e)
    PROVE  /\ BlockingTypeOK' /\ armed' = armed \ S
           /\ \A u \in Thread : /\ stat'[u] = IF u \in S THEN "READY" ELSE stat[u]
                                /\ error'[u] = IF u \in S THEN e ELSE error[u]
  BY DEF Woken, BlockingTypeOK

\* What _ipc_list_resume does to a list: S is the thread that is resumed, if any.
LEMMA FirstWoken ==
    ASSUME BlockingTypeOK, NEW list \in Seq(Thread), NEW op, Agrees(list, op),
           WakeFirst(list)
    PROVE  \E S \in SUBSET Thread :
             /\ S = (IF list = <<>> THEN {} ELSE {Head(list)})
             /\ \A u \in S : stat[u] = "SUSPEND" /\ pc[u] = op
             /\ BlockingTypeOK' /\ armed' = armed \ S
             /\ \A u \in Thread : /\ stat'[u] = IF u \in S THEN "READY" ELSE stat[u]
                                  /\ error'[u] = IF u \in S THEN "EOK" ELSE error[u]
             /\ Rest(list) \in Seq(Thread) /\ IsInjective(Rest(list))
             /\ Range(Rest(list)) = Range(list) \ S
  <1>1. CASE list = <<>>
    <2>1. UNCHANGED <<stat, armed, error>> /\ Rest(list) = list
      BY <1>1 DEF WakeFirst, blocking, Rest
    <2>2. BlockingTypeOK'
      BY <2>1 DEF BlockingTypeOK
    <2> WITNESS {} \in SUBSET Thread
    <2> QED BY <1>1, <2>1, <2>2 DEF Agrees
  <1>2. CASE list # <<>>
    <2> DEFINE S == {Head(list)}
    <2>1. S \in SUBSET Thread /\ \A u \in S : stat[u] = "SUSPEND" /\ pc[u] = op
      BY <1>2, ListEmpty DEF Agrees
    <2>2. Woken(S, "EOK") /\ "EOK" \in Error
      BY <1>2 DEF WakeFirst, Error
    <2>3. /\ Rest(list) \in Seq(Thread) /\ IsInjective(Rest(list))
          /\ Range(Rest(list)) = Range(list) \ S
      BY <1>2, TailLinks DEF Rest, Agrees
    <2>4. S = IF list = <<>> THEN {} ELSE {Head(list)}
      BY <1>2
    <2> HIDE DEF S
    <2>5. /\ BlockingTypeOK' /\ armed' = armed \ S
          /\ \A u \in Thread : /\ stat'[u] = IF u \in S THEN "READY" ELSE stat[u]
                               /\ error'[u] = IF u \in S THEN "EOK" ELSE error[u]
      BY <2>1, <2>2, WokenThreads
    <2> WITNESS S \in SUBSET Thread
    <2> QED BY <2>1, <2>3, <2>4, <2>5
  <1> QED BY <1>1, <1>2

\* The woken threads are finitely many.
LEMMA OnTheWayCounted ==
    ASSUME NEW S \in SUBSET Thread
    PROVE  IsFiniteSet(S) /\ Cardinality(S) \in Nat
  BY QueueAssumption, FS_Subset, FS_CardinalityType

\* How the threads on their way change, and what follows for lists that only shrink.
LEMMA WakeupsKept ==
    ASSUME CallsTypeOK, CallsTypeOK', NEW m \in Nat, NEW s \in Nat, Wakeups(m, s),
           receivers' # <<>> => receivers # <<>>, senders' # <<>> => senders # <<>>,
           OnTheWay("take") \subseteq OnTheWay("take")',
           OnTheWay("put") \subseteq OnTheWay("put")'
    PROVE  Wakeups(m, s)'
  <1> DEFINE R == OnTheWay("take")
             P == OnTheWay("put")
  <1>1. /\ R \in SUBSET Thread /\ P \in SUBSET Thread /\ R' \in SUBSET Thread
        /\ P' \in SUBSET Thread
    BY DEF CallsTypeOK, OnTheWay
  <1>2. R \in SUBSET R' /\ P \in SUBSET P'
    OBVIOUS
  <1>3. /\ receivers # <<>> => m <= Cardinality(R)
        /\ senders # <<>> => s <= Cardinality(P)
    BY DEF Wakeups
  <1> HIDE DEF R, P
  <1>4. /\ Cardinality(R) \in Nat /\ Cardinality(P) \in Nat /\ Cardinality(R') \in Nat
        /\ Cardinality(P') \in Nat /\ IsFiniteSet(R') /\ IsFiniteSet(P')
    BY <1>1, OnTheWayCounted
  <1>5. Cardinality(R) <= Cardinality(R') /\ Cardinality(P) <= Cardinality(P')
    BY <1>2, <1>4, FS_Subset
  <1>6. /\ receivers' # <<>> => m <= Cardinality(R')
        /\ senders' # <<>> => s <= Cardinality(P')
    BY <1>3, <1>4, <1>5
  <1> QED BY <1>6 DEF Wakeups, R, P

\* A call returns with an outcome of the queue.
LEMMA ReturnsTyped ==
    ASSUME CallsOK, NEW t \in Thread, NEW r \in Queue!Outcome, Returns(t, r)
    PROVE  /\ pc' \in [Thread -> {"user", "put", "urgent", "take"}]
           /\ asleep' = asleep \ {t} /\ asleep' \subseteq Thread
           /\ ResultTypeOK' /\ UNCHANGED <<object, arg, timeout>>
           /\ \A u \in Thread : /\ pc'[u] = IF u = t THEN "user" ELSE pc[u]
                                /\ result'[u] = IF u = t THEN r ELSE result[u]
  BY DEF Returns, CallsOK, CallsTypeOK, ResultTypeOK

\* One thread more is on its way to one more thing.
LEMMA OneMore ==
    ASSUME NEW R \in SUBSET Thread, NEW t \in Thread, t \notin R, NEW m \in Nat,
           m <= Cardinality(R)
    PROVE  m + 1 <= Cardinality(R \cup {t})
  <1>1. IsFiniteSet(R) /\ Cardinality(R) \in Nat
    BY OnTheWayCounted
  <1>2. Cardinality(R \cup {t}) = Cardinality(R) + 1
    BY <1>1, FS_AddElement
  <1> QED BY <1>1, <1>2

\* One thread less is on its way to one thing less.
LEMMA OneLess ==
    ASSUME NEW R \in SUBSET Thread, NEW t \in Thread, NEW m \in Nat,
           m <= Cardinality(R)
    PROVE  m - 1 <= Cardinality(R \ {t})
  <1>1. IsFiniteSet(R) /\ Cardinality(R) \in Nat
    BY OnTheWayCounted
  <1>2. Cardinality(R \ {t}) = IF t \in R THEN Cardinality(R) - 1 ELSE Cardinality(R)
    BY <1>1, FS_RemoveElement
  <1> QED BY <1>1, <1>2

\* A message came in: the sender returns, and the receiver that was first in the list
\* is on its way.
LEMMA SenderReturns ==
    ASSUME CallsOK, NEW t \in Thread, pc[t] \in {"put", "urgent"}, stat[t] = "READY",
           WakeFirst(receivers), receivers' = Rest(receivers), UNCHANGED senders,
           NEW r \in Queue!Outcome, Returns(t, r)
    PROVE  /\ CallsOK'
           /\ \A m, s \in Nat : Wakeups(m, s) =>
                 /\ Wakeups(m + 1, s - 1)'
                 /\ t \notin asleep => Wakeups(m + 1, s)'
  <1>1. /\ BlockingTypeOK /\ receivers \in Seq(Thread) /\ Agrees(receivers, "take")
        /\ senders \in Seq(Thread) /\ Agrees(senders, "put") /\ CallsTypeOK /\ CallsSound
    BY DEF CallsOK, CallsTypeOK, CallsSound
  <1>2. PICK S \in SUBSET Thread :
             /\ S = (IF receivers = <<>> THEN {} ELSE {Head(receivers)})
             /\ \A u \in S : stat[u] = "SUSPEND" /\ pc[u] = "take"
             /\ BlockingTypeOK' /\ armed' = armed \ S
             /\ \A u \in Thread : /\ stat'[u] = IF u \in S THEN "READY" ELSE stat[u]
                                  /\ error'[u] = IF u \in S THEN "EOK" ELSE error[u]
             /\ Rest(receivers) \in Seq(Thread) /\ IsInjective(Rest(receivers))
             /\ Range(Rest(receivers)) = Range(receivers) \ S
    BY <1>1, FirstWoken
  <1>3. /\ pc' \in [Thread -> {"user", "put", "urgent", "take"}]
        /\ asleep' = asleep \ {t} /\ asleep' \subseteq Thread
        /\ ResultTypeOK' /\ UNCHANGED <<object, arg, timeout>>
        /\ \A u \in Thread : pc'[u] = IF u = t THEN "user" ELSE pc[u]
    BY ReturnsTyped
  <1>4. CallsTypeOK'
    BY <1>1, <1>2, <1>3 DEF CallsTypeOK
  <1>5. Range(senders) \cap S = {}
    BY <1>1, <1>2 DEF Agrees
  <1>6. CallsSound'
    <2>1. \A u \in Thread : stat[u] # "READY" => pc'[u] = pc[u] /\ u \in asleep'
      BY <1>1, <1>3 DEF CallsSound
    <2>2. \A u \in asleep' : pc'[u] = pc[u]
      BY <1>1, <1>3 DEF CallsTypeOK
    <2>3. /\ Range(senders') = Range(senders) \ S /\ IsInjective(senders')
          /\ Range(receivers') = Range(receivers) \ S /\ IsInjective(receivers')
      BY <1>1, <1>2, <1>5 DEF Agrees
    <2>4. \A u \in Thread : stat'[u] = IF u \in S THEN "READY" ELSE stat[u]
      BY <1>2
    <2>5. armed' = armed \ S /\ asleep' \subseteq asleep /\ S \in SUBSET Thread
      BY <1>2, <1>3
    <2> QED BY ONLY <1>1, <2>1, <2>2, <2>3, <2>4, <2>5, ListsShrink
  <1>7. ASSUME NEW m \in Nat, NEW s \in Nat, Wakeups(m, s)
        PROVE  Wakeups(m + 1, s - 1)' /\ (t \notin asleep => Wakeups(m + 1, s)')
    <2> DEFINE R == OnTheWay("take")
               P == OnTheWay("put")
    <2>1. R \in SUBSET Thread /\ P \in SUBSET Thread /\ R' \in SUBSET Thread
          /\ P' \in SUBSET Thread
      BY <1>1, <1>4 DEF CallsTypeOK, OnTheWay
    <2>2. R' = R \cup S /\ R \cap S = {}
      <3>1. \A u \in S : u \in asleep /\ u # t
        BY <1>1, <1>2 DEF CallsSound
      <3>2. \A u \in R : u # t
        BY DEF OnTheWay
      <3>3. \A u \in Thread : u \in R' <=> u \in R \/ u \in S
        BY <1>2, <1>3, <3>1, <3>2 DEF OnTheWay
      <3>4. R \cap S = {}
        BY <1>2 DEF OnTheWay
      <3> HIDE DEF R
      <3> QED BY <2>1, <3>3, <3>4
    <2>3. P' = P \ {t} /\ (t \notin asleep => t \notin P)
      <3>1. \A u \in Thread : u \in P' <=> u \in P /\ u # t
        BY <1>2, <1>3 DEF OnTheWay
      <3>2. t \notin asleep => t \notin P
        BY DEF OnTheWay
      <3> HIDE DEF P
      <3> QED BY <2>1, <3>1, <3>2
    <2>4. /\ receivers # <<>> => m <= Cardinality(R)
          /\ senders # <<>> => s <= Cardinality(P)
      BY <1>7 DEF Wakeups
    <2> HIDE DEF R, P
    <2>5. ASSUME receivers' # <<>> PROVE m + 1 <= Cardinality(R')
      <3>1. receivers # <<>>
        BY <2>5 DEF Rest
      <3>2. S = {Head(receivers)} /\ Head(receivers) \in Thread
        BY <1>1, <1>2, <3>1, ListEmpty
      <3>3. m + 1 <= Cardinality(R \cup {Head(receivers)})
        BY <2>1, <2>2, <2>4, <3>1, <3>2, OneMore
      <3> QED BY <2>2, <3>2, <3>3
    <2>6. ASSUME senders' # <<>>
          PROVE  s - 1 <= Cardinality(P') /\ (t \notin asleep => s <= Cardinality(P'))
      <3>1. s - 1 <= Cardinality(P \ {t}) /\ s <= Cardinality(P)
        BY <2>1, <2>4, <2>6, OneLess
      <3>2. t \notin asleep => P' = P
        BY <2>3
      <3> QED BY <2>3, <3>1, <3>2
    <2> QED BY <2>5, <2>6 DEF Wakeups, R, P
  <1> QED BY <1>3, <1>4, <1>6, <1>7 DEF CallsOK

\* A place became free: the receiver returns, and the sender that was first in the list
\* is on its way.
LEMMA ReceiverReturns ==
    ASSUME CallsOK, NEW t \in Thread, pc[t] = "take", stat[t] = "READY",
           WakeFirst(senders), senders' = Rest(senders), UNCHANGED receivers,
           NEW r \in Queue!Outcome, Returns(t, r)
    PROVE  /\ CallsOK'
           /\ \A m, s \in Nat : Wakeups(s, m) =>
                 /\ Wakeups(s - 1, m + 1)'
                 /\ t \notin asleep => Wakeups(s, m + 1)'
  <1>1. /\ BlockingTypeOK /\ receivers \in Seq(Thread) /\ Agrees(receivers, "take")
        /\ senders \in Seq(Thread) /\ Agrees(senders, "put") /\ CallsTypeOK /\ CallsSound
    BY DEF CallsOK, CallsTypeOK, CallsSound
  <1>2. PICK S \in SUBSET Thread :
             /\ S = (IF senders = <<>> THEN {} ELSE {Head(senders)})
             /\ \A u \in S : stat[u] = "SUSPEND" /\ pc[u] = "put"
             /\ BlockingTypeOK' /\ armed' = armed \ S
             /\ \A u \in Thread : /\ stat'[u] = IF u \in S THEN "READY" ELSE stat[u]
                                  /\ error'[u] = IF u \in S THEN "EOK" ELSE error[u]
             /\ Rest(senders) \in Seq(Thread) /\ IsInjective(Rest(senders))
             /\ Range(Rest(senders)) = Range(senders) \ S
    BY <1>1, FirstWoken
  <1>3. /\ pc' \in [Thread -> {"user", "put", "urgent", "take"}]
        /\ asleep' = asleep \ {t} /\ asleep' \subseteq Thread
        /\ ResultTypeOK' /\ UNCHANGED <<object, arg, timeout>>
        /\ \A u \in Thread : pc'[u] = IF u = t THEN "user" ELSE pc[u]
    BY ReturnsTyped
  <1>4. CallsTypeOK'
    BY <1>1, <1>2, <1>3 DEF CallsTypeOK
  <1>5. Range(receivers) \cap S = {}
    BY <1>1, <1>2 DEF Agrees
  <1>6. CallsSound'
    <2>1. \A u \in Thread : stat[u] # "READY" => pc'[u] = pc[u] /\ u \in asleep'
      BY <1>1, <1>3 DEF CallsSound
    <2>2. \A u \in asleep' : pc'[u] = pc[u]
      BY <1>1, <1>3 DEF CallsTypeOK
    <2>3. /\ Range(receivers') = Range(receivers) \ S /\ IsInjective(receivers')
          /\ Range(senders') = Range(senders) \ S /\ IsInjective(senders')
      BY <1>1, <1>2, <1>5 DEF Agrees
    <2>4. \A u \in Thread : stat'[u] = IF u \in S THEN "READY" ELSE stat[u]
      BY <1>2
    <2>5. armed' = armed \ S /\ asleep' \subseteq asleep /\ S \in SUBSET Thread
      BY <1>2, <1>3
    <2> QED BY ONLY <1>1, <2>1, <2>2, <2>3, <2>4, <2>5, ListsShrink
  <1>7. ASSUME NEW m \in Nat, NEW s \in Nat, Wakeups(s, m)
        PROVE  Wakeups(s - 1, m + 1)' /\ (t \notin asleep => Wakeups(s, m + 1)')
    <2> DEFINE R == OnTheWay("put")
               P == OnTheWay("take")
    <2>1. R \in SUBSET Thread /\ P \in SUBSET Thread /\ R' \in SUBSET Thread
          /\ P' \in SUBSET Thread
      BY <1>1, <1>4 DEF CallsTypeOK, OnTheWay
    <2>2. R' = R \cup S /\ R \cap S = {}
      <3>1. \A u \in S : u \in asleep /\ u # t
        BY <1>1, <1>2 DEF CallsSound
      <3>2. \A u \in R : u # t
        BY DEF OnTheWay
      <3>3. \A u \in Thread : u \in R' <=> u \in R \/ u \in S
        BY <1>2, <1>3, <3>1, <3>2 DEF OnTheWay
      <3>4. R \cap S = {}
        BY <1>2 DEF OnTheWay
      <3> HIDE DEF R
      <3> QED BY <2>1, <3>3, <3>4
    <2>3. P' = P \ {t} /\ (t \notin asleep => t \notin P)
      <3>1. \A u \in Thread : u \in P' <=> u \in P /\ u # t
        BY <1>2, <1>3 DEF OnTheWay
      <3>2. t \notin asleep => t \notin P
        BY DEF OnTheWay
      <3> HIDE DEF P
      <3> QED BY <2>1, <3>1, <3>2
    <2>4. /\ senders # <<>> => m <= Cardinality(R)
          /\ receivers # <<>> => s <= Cardinality(P)
      BY <1>7 DEF Wakeups
    <2> HIDE DEF R, P
    <2>5. ASSUME senders' # <<>> PROVE m + 1 <= Cardinality(R')
      <3>1. senders # <<>>
        BY <2>5 DEF Rest
      <3>2. S = {Head(senders)} /\ Head(senders) \in Thread
        BY <1>1, <1>2, <3>1, ListEmpty
      <3>3. m + 1 <= Cardinality(R \cup {Head(senders)})
        BY <2>1, <2>2, <2>4, <3>1, <3>2, OneMore
      <3> QED BY <2>2, <3>2, <3>3
    <2>6. ASSUME receivers' # <<>>
          PROVE  s - 1 <= Cardinality(P') /\ (t \notin asleep => s <= Cardinality(P'))
      <3>1. s - 1 <= Cardinality(P \ {t}) /\ s <= Cardinality(P)
        BY <2>1, <2>4, <2>6, OneLess
      <3>2. t \notin asleep => P' = P
        BY <2>3
      <3> QED BY <2>3, <3>1, <3>2
    <2> QED BY <2>5, <2>6 DEF Wakeups, R, P
  <1> QED BY <1>3, <1>4, <1>6, <1>7 DEF CallsOK

\* There is nothing to be had, and the caller waits.
LEMMA CallerWaits ==
    ASSUME CallsOK, NEW t \in Thread, Waits(t)
    PROVE  /\ CallsOK' /\ UNCHANGED <<pc, arg, result>> /\ asleep' = asleep \cup {t}
           /\ \A m, s \in Nat : Wakeups(m, s) /\ (IF pc[t] = "take" THEN m ELSE s) = 0
                 => Wakeups(m, s)'
  <1>1. /\ Looks(t) /\ pc[t] \in {"put", "take"}
        /\ stat' = [stat EXCEPT ![t] = "SUSPEND"] /\ armed' \subseteq armed \cup {t}
        /\ error' = [error EXCEPT ![t] = "EINTR"] /\ asleep' = asleep \cup {t}
        /\ UNCHANGED <<object, pc, arg, timeout, result>>
        /\ IF pc[t] = "take"
           THEN receivers' = Enqueue(receivers, t, Flag, Prio) /\ UNCHANGED senders
           ELSE senders' = Enqueue(senders, t, Flag, Prio) /\ UNCHANGED receivers
    BY DEF Waits, Suspended
  <1>2. /\ receivers \in Seq(Thread) /\ senders \in Seq(Thread)
        /\ IsInjective(receivers) /\ IsInjective(senders)
        /\ CallsTypeOK /\ CallsSound /\ ResultTypeOK /\ Prio \in [Thread -> Nat]
    BY QueueAssumption DEF CallsOK, CallsTypeOK, CallsSound, Agrees
  <1>3. stat[t] = "READY" /\ t \notin Range(receivers) /\ t \notin Range(senders)
    BY <1>1, LooksReady
  <1>4. /\ receivers' \in Seq(Thread) /\ senders' \in Seq(Thread)
        /\ IsInjective(receivers') /\ IsInjective(senders')
        /\ Range(receivers') = Range(receivers) \cup (IF pc[t] = "take" THEN {t} ELSE {})
        /\ Range(senders') = Range(senders) \cup (IF pc[t] = "take" THEN {} ELSE {t})
    <2>1. CASE pc[t] = "take"
      BY <1>1, <1>2, <1>3, <2>1, EnqueueLinks
    <2>2. CASE pc[t] # "take"
      BY <1>1, <1>2, <1>3, <2>2, EnqueueLinks
    <2> QED BY <2>1, <2>2
  <1>5. \A u \in Thread : /\ stat'[u] = IF u = t THEN "SUSPEND" ELSE stat[u]
                          /\ error'[u] = IF u = t THEN "EINTR" ELSE error[u]
    BY <1>1, <1>2 DEF CallsTypeOK, BlockingTypeOK
  <1>6. CallsTypeOK'
    <2>1. BlockingTypeOK'
      BY <1>1, <1>2 DEF CallsTypeOK, BlockingTypeOK, Error
    <2> QED BY <1>1, <1>2, <1>4, <2>1 DEF CallsTypeOK
  <1>7. CallsSound'
    <2>1. Agrees(receivers, "take")' /\ Agrees(senders, "put")'
      <3>1. ASSUME NEW u \in Thread
            PROVE  /\ u \in Range(receivers') <=> stat'[u] = "SUSPEND" /\ pc'[u] = "take"
                   /\ u \in Range(senders') <=> stat'[u] = "SUSPEND" /\ pc'[u] = "put"
        BY <1>1, <1>2, <1>4, <1>5 DEF CallsSound, Agrees
      <3> QED BY <1>4, <3>1 DEF Agrees
    <2>2. \A u \in asleep' : pc'[u] \in {"put", "take"}
      BY <1>1, <1>2 DEF CallsSound
    <2>3. \A u \in Thread : stat'[u] # "READY" => u \in asleep'
      BY <1>1, <1>2, <1>5 DEF CallsSound
    <2>4. \A u \in armed' : stat'[u] = "SUSPEND"
      BY <1>1, <1>2, <1>5 DEF CallsSound, CallsTypeOK, BlockingTypeOK
    <2> QED BY <2>1, <2>2, <2>3, <2>4 DEF CallsSound
  <1>8. ASSUME NEW m \in Nat, NEW s \in Nat, Wakeups(m, s),
               (IF pc[t] = "take" THEN m ELSE s) = 0
        PROVE  Wakeups(m, s)'
    <2> DEFINE R == OnTheWay("take")
               P == OnTheWay("put")
    <2>1. R' \in SUBSET Thread /\ P' \in SUBSET Thread
      BY <1>6 DEF CallsTypeOK, OnTheWay
    <2>2. \A u \in Thread : /\ pc[t] # "take" => (u \in R' <=> u \in R)
                            /\ pc[t] = "take" => (u \in P' <=> u \in P)
      BY <1>1, <1>5 DEF OnTheWay
    <2>3. R \in SUBSET Thread /\ P \in SUBSET Thread
      BY <1>2 DEF CallsTypeOK, OnTheWay
    <2>4. /\ receivers # <<>> => m <= Cardinality(R)
          /\ senders # <<>> => s <= Cardinality(P)
      BY <1>8 DEF Wakeups
    <2> HIDE DEF R, P
    <2>5. (pc[t] # "take" => R' = R) /\ (pc[t] = "take" => P' = P)
      BY <2>1, <2>2, <2>3
    <2>6. /\ Cardinality(R') \in Nat /\ Cardinality(P') \in Nat
      BY <2>1, OnTheWayCounted
    <2>7. CASE pc[t] = "take"
      BY <1>1, <1>8, <2>4, <2>5, <2>6, <2>7 DEF Wakeups, R, P
    <2>8. CASE pc[t] # "take"
      BY <1>1, <1>8, <2>4, <2>5, <2>6, <2>8 DEF Wakeups, R, P
    <2> QED BY <2>7, <2>8
  <1>9. ResultTypeOK'
    BY <1>1, <1>2 DEF ResultTypeOK
  <1> QED BY <1>1, <1>6, <1>7, <1>8, <1>9 DEF CallsOK

\* A thread that is not suspended stops waiting, for it got what it waited for.
LEMMA StopsWaiting ==
    ASSUME CallsOK, NEW t \in Thread, stat[t] = "READY", asleep' = asleep \ {t},
           UNCHANGED <<lists, object, pc, arg, timeout, result, blocking>>
    PROVE  /\ CallsOK'
           /\ \A m, s \in Nat : Wakeups(m, s) =>
                 /\ pc[t] = "take" => Wakeups(m - 1, s)'
                 /\ pc[t] # "take" => Wakeups(m, s - 1)'
  <1>1. UNCHANGED <<receivers, senders, object, pc, arg, timeout, result, stat, armed, error>>
    BY DEF lists, blocking
  <1>2. CallsTypeOK' /\ ResultTypeOK'
    BY <1>1 DEF CallsOK, CallsTypeOK, BlockingTypeOK, ResultTypeOK
  <1>3. CallsSound'
    <2>1. Agrees(receivers, "take")' /\ Agrees(senders, "put")'
      BY <1>1 DEF CallsOK, CallsSound, Agrees
    <2> QED BY <1>1, <2>1 DEF CallsOK, CallsSound
  <1>4. ASSUME NEW m \in Nat, NEW s \in Nat, Wakeups(m, s)
        PROVE  /\ pc[t] = "take" => Wakeups(m - 1, s)'
               /\ pc[t] # "take" => Wakeups(m, s - 1)'
    <2> DEFINE R == OnTheWay("take")
               P == OnTheWay("put")
    <2>1. R \in SUBSET Thread /\ P \in SUBSET Thread
      BY DEF CallsOK, CallsTypeOK, OnTheWay
    <2>2. R' = R \ {t} /\ P' = P \ {t}
      BY <1>1 DEF OnTheWay
    <2>3. (pc[t] # "take" => t \notin R) /\ (pc[t] = "take" => t \notin P)
      BY DEF OnTheWay
    <2>4. /\ receivers # <<>> => m <= Cardinality(R)
          /\ senders # <<>> => s <= Cardinality(P)
      BY <1>4 DEF Wakeups
    <2> HIDE DEF R, P
    <2>5. CASE pc[t] = "take"
      <3>1. P' = P
        BY <2>2, <2>3, <2>5
      <3>2. receivers # <<>> => m - 1 <= Cardinality(R')
        BY <2>1, <2>2, <2>4, OneLess
      <3> QED BY <1>1, <2>4, <2>5, <3>1, <3>2 DEF Wakeups, R, P
    <2>6. CASE pc[t] # "take"
      <3>1. R' = R
        BY <2>2, <2>3, <2>6
      <3>2. senders # <<>> => s - 1 <= Cardinality(P')
        BY <2>1, <2>2, <2>4, OneLess
      <3> QED BY <1>1, <2>4, <2>6, <3>1, <3>2 DEF Wakeups, R, P
    <2> QED BY <2>5, <2>6
  <1> QED BY <1>2, <1>3, <1>4 DEF CallsOK

\* A call fails: it returns, its thread was not suspended, nothing else happens.
LEMMA FailingReturn ==
    ASSUME CallsOK, NEW t \in Thread, pc[t] # "user", stat[t] = "READY",
           Returns(t, <<"failed">>), UNCHANGED <<receivers, senders, stat, armed>>,
           error' \in [Thread -> Error], \A u \in Thread : u # t => error'[u] = error[u]
    PROVE  /\ CallsOK'
           /\ OnTheWay("take")' = OnTheWay("take") \ {t}
           /\ OnTheWay("put")' = OnTheWay("put") \ {t}
  <1>1. <<"failed">> \in Queue!Outcome
    BY DEF Queue!Outcome
  <1>2. /\ pc' \in [Thread -> {"user", "put", "urgent", "take"}]
        /\ asleep' = asleep \ {t} /\ asleep' \subseteq Thread
        /\ ResultTypeOK' /\ UNCHANGED <<object, arg, timeout>>
        /\ \A u \in Thread : pc'[u] = IF u = t THEN "user" ELSE pc[u]
    BY <1>1, ReturnsTyped
  <1>3. CallsTypeOK'
    BY <1>2 DEF CallsOK, CallsTypeOK, BlockingTypeOK
  <1>4. CallsSound'
    <2>1. ASSUME NEW u \in Thread
          PROVE  /\ u \in Range(receivers') <=> stat'[u] = "SUSPEND" /\ pc'[u] = "take"
                 /\ u \in Range(senders') <=> stat'[u] = "SUSPEND" /\ pc'[u] = "put"
      BY <1>2 DEF CallsOK, CallsSound, Agrees
    <2>2. Agrees(receivers, "take")' /\ Agrees(senders, "put")'
      BY <2>1 DEF CallsOK, CallsSound, Agrees
    <2>3. \A u \in asleep' : pc'[u] \in {"put", "take"}
      BY <1>2 DEF CallsOK, CallsSound, CallsTypeOK
    <2>4. \A u \in Thread : stat'[u] # "READY" => u \in asleep'
      BY <1>2 DEF CallsOK, CallsSound
    <2>5. \A u \in armed' : stat'[u] = "SUSPEND"
      BY DEF CallsOK, CallsSound
    <2> QED BY <2>2, <2>3, <2>4, <2>5 DEF CallsSound
  <1>5. ASSUME NEW op \in {"take", "put"}
        PROVE  {u \in asleep' : pc'[u] = op /\ stat'[u] = "READY" /\ error'[u] = "EOK"}
                 = {u \in asleep : pc[u] = op /\ stat[u] = "READY" /\ error[u] = "EOK"} \ {t}
    BY <1>2 DEF CallsOK, CallsTypeOK
  <1>6. /\ OnTheWay("take")' = OnTheWay("take") \ {t}
        /\ OnTheWay("put")' = OnTheWay("put") \ {t}
    BY <1>5 DEF OnTheWay
  <1> QED BY <1>2, <1>3, <1>4, <1>6 DEF CallsOK

\* -RT_EFULL, -RT_ETIMEOUT: there was nothing the thread could be on its way to.
LEMMA CallerGivesUp ==
    ASSUME CallsOK, NEW t \in Thread, GivesUp(t)
    PROVE  /\ CallsOK' /\ pc[t] # "user" /\ Returns(t, <<"failed">>)
           /\ \A m, s \in Nat : Wakeups(m, s) /\ (IF pc[t] = "take" THEN m ELSE s) = 0
                 => Wakeups(m, s)'
  <1>1. /\ pc[t] # "user" /\ Looks(t) /\ Returns(t, <<"failed">>)
        /\ error' = [error EXCEPT ![t] = IF t \notin asleep THEN @
                                         ELSE IF pc[t] = "take" THEN "ETIMEOUT" ELSE "EINTR"]
        /\ UNCHANGED <<receivers, senders, stat, armed>>
    BY DEF GivesUp, lists
  <1>2. stat[t] = "READY"
    BY <1>1, LooksReady
  <1>3. error' \in [Thread -> Error] /\ \A u \in Thread : u # t => error'[u] = error[u]
    BY <1>1 DEF CallsOK, CallsTypeOK, BlockingTypeOK, Error
  <1> DEFINE R == OnTheWay("take")
             P == OnTheWay("put")
  <1>4. CallsOK' /\ R' = R \ {t} /\ P' = P \ {t}
    BY <1>1, <1>2, <1>3, FailingReturn
  <1>5. R \in SUBSET Thread /\ P \in SUBSET Thread
    BY DEF CallsOK, CallsTypeOK, OnTheWay
  <1>6. (pc[t] # "take" => t \notin R) /\ (pc[t] # "put" => t \notin P)
    BY DEF OnTheWay
  <1>7. ASSUME NEW m \in Nat, NEW s \in Nat, Wakeups(m, s),
               (IF pc[t] = "take" THEN m ELSE s) = 0
        PROVE  Wakeups(m, s)'
    <2>1. /\ receivers # <<>> => m <= Cardinality(R)
          /\ senders # <<>> => s <= Cardinality(P)
      BY <1>7 DEF Wakeups
    <2> HIDE DEF R, P
    <2>2. Cardinality(R') \in Nat /\ Cardinality(P') \in Nat
      BY <1>4, <1>5, OnTheWayCounted
    <2>3. CASE pc[t] = "take"
      <3>1. P' = P
        BY <1>4, <1>6, <2>3
      <3> QED BY <1>1, <1>7, <2>1, <2>2, <2>3, <3>1 DEF Wakeups, R, P
    <2>4. CASE pc[t] # "take"
      <3>1. R' = R
        BY <1>4, <1>6, <2>4
      <3> QED BY <1>1, <1>7, <2>1, <2>2, <2>4, <3>1 DEF Wakeups, R, P
    <2> QED BY <2>3, <2>4
  <1> QED BY <1>1, <1>4, <1>7

\* A wait ended with an error: the thread was on its way to nothing.
LEMMA CallerFails ==
    ASSUME CallsOK, NEW t \in Thread, WaitFails(t)
    PROVE  /\ CallsOK' /\ pc[t] # "user" /\ t \in asleep /\ Returns(t, <<"failed">>)
           /\ \A m, s \in Nat : Wakeups(m, s) => Wakeups(m, s)'
  <1>1. /\ t \in asleep /\ stat[t] = "READY" /\ error[t] # "EOK" /\ Returns(t, <<"failed">>)
        /\ UNCHANGED <<receivers, senders, stat, armed, error>>
    BY DEF WaitFails, lists, blocking
  <1>2. pc[t] # "user" /\ error \in [Thread -> Error]
    BY <1>1 DEF CallsOK, CallsSound, CallsTypeOK, BlockingTypeOK
  <1>3. /\ CallsOK'
        /\ OnTheWay("take")' = OnTheWay("take") \ {t}
        /\ OnTheWay("put")' = OnTheWay("put") \ {t}
    BY <1>1, <1>2, FailingReturn
  <1>4. t \notin OnTheWay("take") /\ t \notin OnTheWay("put")
    BY <1>1 DEF OnTheWay
  <1>5. OnTheWay("take")' = OnTheWay("take") /\ OnTheWay("put")' = OnTheWay("put")
    BY <1>3, <1>4
  <1>6. \A m, s \in Nat : Wakeups(m, s) => Wakeups(m, s)'
    BY <1>1, <1>5 DEF Wakeups
  <1> QED BY <1>1, <1>2, <1>3, <1>6

\* A call begins.
LEMMA CallBegins ==
    ASSUME CallsOK, NEW t \in Thread, NEW op \in {"put", "urgent", "take"}, NEW v \in Value,
           NEW time \in Times, Calls(t, op, v, time)
    PROVE  /\ CallsOK' /\ pc[t] = "user" /\ UNCHANGED <<asleep, result>>
           /\ \A u \in Thread : /\ pc'[u] = IF u = t THEN op ELSE pc[u]
                                /\ arg'[u] = IF u = t THEN v ELSE arg[u]
           /\ \A m, s \in Nat : Wakeups(m, s) => Wakeups(m, s)'
  <1>1. /\ pc[t] = "user" /\ pc' = [pc EXCEPT ![t] = op] /\ arg' = [arg EXCEPT ![t] = v]
        /\ timeout' = [timeout EXCEPT ![t] = time]
        /\ UNCHANGED <<receivers, senders, object, asleep, result, stat, armed, error>>
    BY DEF Calls, lists, blocking
  <1>2. \A u \in Thread : /\ pc'[u] = IF u = t THEN op ELSE pc[u]
                          /\ arg'[u] = IF u = t THEN v ELSE arg[u]
    BY <1>1 DEF CallsOK, CallsTypeOK
  <1>3. CallsTypeOK'
    BY <1>1 DEF CallsOK, CallsTypeOK, BlockingTypeOK
  <1>4. t \notin asleep /\ stat[t] # "SUSPEND"
    BY <1>1 DEF CallsOK, CallsSound
  <1>5. CallsSound'
    <2>1. ASSUME NEW u \in Thread
          PROVE  /\ u \in Range(receivers') <=> stat'[u] = "SUSPEND" /\ pc'[u] = "take"
                 /\ u \in Range(senders') <=> stat'[u] = "SUSPEND" /\ pc'[u] = "put"
      BY <1>1, <1>2, <1>4 DEF CallsOK, CallsSound, Agrees
    <2>2. Agrees(receivers, "take")' /\ Agrees(senders, "put")'
      BY <1>1, <2>1 DEF CallsOK, CallsSound, Agrees
    <2>3. \A u \in asleep' : pc'[u] \in {"put", "take"}
      BY <1>1, <1>2, <1>4 DEF CallsOK, CallsSound, CallsTypeOK
    <2> QED BY <1>1, <2>2, <2>3 DEF CallsOK, CallsSound
  <1>6. \A m, s \in Nat : Wakeups(m, s) => Wakeups(m, s)'
    <2>1. OnTheWay("take") \subseteq OnTheWay("take")' /\ OnTheWay("put") \subseteq OnTheWay("put")'
      BY <1>1, <1>2, <1>4 DEF OnTheWay, CallsOK, CallsTypeOK
    <2> QED BY <1>1, <1>3, <2>1, WakeupsKept DEF CallsOK
  <1>7. ResultTypeOK'
    BY <1>1 DEF CallsOK, ResultTypeOK
  <1> QED BY <1>1, <1>2, <1>3, <1>5, <1>6, <1>7 DEF CallsOK

\* Suspended threads are resumed and unlinked, and no call returns.
LEMMA SleepersWoken ==
    ASSUME CallsOK, NEW S \in SUBSET Thread, \A u \in S : stat[u] = "SUSPEND",
           NEW e \in Error, Woken(S, e), UNCHANGED <<pc, asleep, arg, timeout, result>>,
           object' \in Phase,
           receivers' \in Seq(Thread), IsInjective(receivers'),
           Range(receivers') = Range(receivers) \ S,
           senders' \in Seq(Thread), IsInjective(senders'),
           Range(senders') = Range(senders) \ S
    PROVE  CallsOK' /\ \A m, s \in Nat : Wakeups(m, s) => Wakeups(m, s)'
  <1>1. /\ BlockingTypeOK' /\ armed' = armed \ S
        /\ \A u \in Thread : /\ stat'[u] = IF u \in S THEN "READY" ELSE stat[u]
                             /\ error'[u] = IF u \in S THEN e ELSE error[u]
    BY WokenThreads DEF CallsOK, CallsTypeOK
  <1>2. CallsTypeOK'
    BY <1>1 DEF CallsOK, CallsTypeOK
  <1>3. CallsSound'
    <2>1. /\ \A u \in Thread : stat[u] # "READY" => pc'[u] = pc[u] /\ u \in asleep'
          /\ \A u \in asleep' : pc'[u] = pc[u]
          /\ CallsTypeOK /\ CallsSound /\ asleep' \subseteq asleep
      BY DEF CallsOK, CallsSound
    <2> QED BY <1>1, <2>1, ListsShrink
  <1>4. ResultTypeOK'
    BY DEF CallsOK, ResultTypeOK
  <1>5. \A m, s \in Nat : Wakeups(m, s) => Wakeups(m, s)'
    <2>1. /\ OnTheWay("take") \subseteq OnTheWay("take")'
          /\ OnTheWay("put") \subseteq OnTheWay("put")'
      BY <1>1 DEF OnTheWay, CallsOK, CallsTypeOK
    <2>2. (receivers' # <<>> => receivers # <<>>) /\ (senders' # <<>> => senders # <<>>)
      BY ListEmpty DEF CallsOK, CallsTypeOK
    <2> QED BY <1>2, <2>1, <2>2, WakeupsKept DEF CallsOK
  <1> QED BY <1>2, <1>3, <1>4, <1>5 DEF CallsOK

\* A resume unlinks a suspended thread, which is not ready yet.
LEMMA SleeperUnlinked ==
    ASSUME CallsOK, NEW t \in Thread, Unlinks(t),
           UNCHANGED <<object, pc, asleep, arg, timeout, result>>,
           receivers' \in Seq(Thread), IsInjective(receivers'),
           Range(receivers') = Range(receivers) \ {t},
           senders' \in Seq(Thread), IsInjective(senders'),
           Range(senders') = Range(senders) \ {t}
    PROVE  CallsOK' /\ \A m, s \in Nat : Wakeups(m, s) => Wakeups(m, s)'
  <1>1. /\ stat[t] = "SUSPEND" /\ stat' = [stat EXCEPT ![t] = "UNLINKED"]
        /\ armed' = armed \ {t} /\ error' = error
    BY DEF Unlinks
  <1>2. \A u \in Thread : stat'[u] = IF u = t THEN "UNLINKED" ELSE stat[u]
    BY <1>1 DEF CallsOK, CallsTypeOK, BlockingTypeOK
  <1>3. CallsTypeOK'
    BY <1>1 DEF CallsOK, CallsTypeOK, BlockingTypeOK
  <1>4. CallsSound'
    <2>1. \A u \in Thread : stat'[u] = "SUSPEND" <=> stat[u] = "SUSPEND" /\ u # t
      BY <1>2
    <2>2. Agrees(receivers, "take")' /\ Agrees(senders, "put")'
      BY <2>1 DEF CallsOK, CallsSound, Agrees
    <2> QED BY <1>1, <2>1, <2>2 DEF CallsOK, CallsSound, CallsTypeOK, BlockingTypeOK
  <1>5. ResultTypeOK'
    BY DEF CallsOK, ResultTypeOK
  <1>6. \A m, s \in Nat : Wakeups(m, s) => Wakeups(m, s)'
    <2>1. /\ OnTheWay("take") \subseteq OnTheWay("take")'
          /\ OnTheWay("put") \subseteq OnTheWay("put")'
      BY <1>1, <1>2 DEF OnTheWay, CallsOK, CallsTypeOK
    <2>2. (receivers' # <<>> => receivers # <<>>) /\ (senders' # <<>> => senders # <<>>)
      BY ListEmpty DEF CallsOK, CallsTypeOK
    <2> QED BY <1>3, <2>1, <2>2, WakeupsKept DEF CallsOK
  <1> QED BY <1>3, <1>4, <1>5, <1>6 DEF CallsOK

\* The thread that was unlinked becomes ready.
LEMMA SleeperInserted ==
    ASSUME CallsOK, NEW t \in Thread, ResumeInsert(t)
    PROVE  /\ CallsOK' /\ UNCHANGED <<pc, asleep, arg, result>>
           /\ \A m, s \in Nat : Wakeups(m, s) => Wakeups(m, s)'
  <1>1. /\ stat[t] = "UNLINKED" /\ stat' = [stat EXCEPT ![t] = "READY"]
        /\ UNCHANGED <<armed, error, receivers, senders, object>>
        /\ UNCHANGED <<pc, asleep, arg, timeout, result>>
    BY DEF ResumeInsert, Inserts, lists, local
  <1>2. \A u \in Thread : stat'[u] = IF u = t THEN "READY" ELSE stat[u]
    BY <1>1 DEF CallsOK, CallsTypeOK, BlockingTypeOK
  <1>3. CallsTypeOK'
    BY <1>1 DEF CallsOK, CallsTypeOK, BlockingTypeOK
  <1>4. CallsSound'
    <2>1. \A u \in Thread : stat'[u] = "SUSPEND" <=> stat[u] = "SUSPEND"
      BY <1>1, <1>2
    <2>2. Agrees(receivers, "take")' /\ Agrees(senders, "put")'
      BY <1>1, <2>1 DEF CallsOK, CallsSound, Agrees
    <2> QED BY <1>1, <2>1, <2>2 DEF CallsOK, CallsSound, CallsTypeOK, BlockingTypeOK
  <1>5. ResultTypeOK'
    BY <1>1 DEF CallsOK, ResultTypeOK
  <1>6. \A m, s \in Nat : Wakeups(m, s) => Wakeups(m, s)'
    <2>1. /\ OnTheWay("take") \subseteq OnTheWay("take")'
          /\ OnTheWay("put") \subseteq OnTheWay("put")'
      BY <1>1, <1>2 DEF OnTheWay, CallsOK, CallsTypeOK
    <2> QED BY <1>1, <1>3, <2>1, WakeupsKept DEF CallsOK
  <1> QED BY <1>1, <1>3, <1>4, <1>5, <1>6 DEF CallsOK

\* Only the object changes.
LEMMA ObjectMoves ==
    ASSUME CallsOK, object' \in Phase,
           UNCHANGED <<receivers, senders, stat, armed, error>>,
           UNCHANGED <<pc, asleep, arg, timeout, result>>
    PROVE  CallsOK' /\ \A m, s \in Nat : Wakeups(m, s) => Wakeups(m, s)'
  <1>1. CallsTypeOK' /\ CallsSound' /\ ResultTypeOK'
    BY DEF CallsOK, CallsTypeOK, BlockingTypeOK, CallsSound, Agrees, ResultTypeOK
  <1>2. \A m, s \in Nat : Wakeups(m, s) => Wakeups(m, s)'
    BY DEF Wakeups, OnTheWay
  <1> QED BY <1>1, <1>2 DEF CallsOK

\* Two wake-ups meet: nothing but the object changes.
LEMMA SleeperRaced ==
    ASSUME CallsOK, NEW t \in Thread, ResumeRaced(t)
    PROVE  /\ CallsOK' /\ UNCHANGED <<pc, asleep, arg, result>>
           /\ \A m, s \in Nat : Wakeups(m, s) => Wakeups(m, s)'
  <1>1. /\ UNCHANGED <<receivers, senders, stat, armed, error>>
        /\ UNCHANGED <<pc, asleep, arg, timeout, result>> /\ object' \in Phase
    BY DEF ResumeRaced, Races, blocking, lists, local, Phase
  <1> QED BY <1>1, ObjectMoves

\* The timeout, or a resume: the thread leaves the list it is in.
LEMMA WaiterLeaves ==
    ASSUME CallsOK, NEW t \in Thread, WaitEnds(t)
    PROVE  /\ CallsOK' /\ UNCHANGED <<pc, asleep, arg, result>>
           /\ \A m, s \in Nat : Wakeups(m, s) => Wakeups(m, s)'
  <1>1. /\ receivers' = Unlink(receivers, t) /\ senders' = Unlink(senders, t)
        /\ UNCHANGED <<object, pc, asleep, arg, timeout, result>>
    BY DEF WaitEnds, local
  <1>2. "ETIMEOUT" \in Error /\ (t \in armed => stat[t] = "SUSPEND")
    BY DEF CallsOK, CallsSound, Error
  <1>3. /\ receivers' \in Seq(Thread) /\ IsInjective(receivers')
        /\ Range(receivers') = Range(receivers) \ {t}
        /\ senders' \in Seq(Thread) /\ IsInjective(senders')
        /\ Range(senders') = Range(senders) \ {t}
    BY <1>1, UnlinkUnlinks DEF CallsOK, CallsTypeOK, CallsSound, Agrees
  <1>4. object' \in Phase
    BY <1>1 DEF CallsOK, CallsTypeOK
  <1>5. CASE Elapsed(t)
    <2>1. Woken({t}, "ETIMEOUT") /\ \A u \in {t} : stat[u] = "SUSPEND"
      BY <1>2, <1>5 DEF Elapsed
    <2> QED BY <1>1, <1>2, <1>3, <1>4, <2>1, SleepersWoken
  <1>6. CASE Unlinks(t)
    BY <1>1, <1>3, <1>6, SleeperUnlinked
  <1> QED BY <1>5, <1>6 DEF WaitEnds

\* A step of a detach: the object goes through its states, and a waiter of the list
\* that is being emptied is resumed.
LEMMA DetachCalls ==
    ASSUME CallsOK, Detach
    PROVE  /\ CallsOK' /\ UNCHANGED <<pc, asleep, arg, result>>
           /\ \A m, s \in Nat : Wakeups(m, s) => Wakeups(m, s)'
  <1>1. /\ UNCHANGED <<pc, asleep, arg, timeout, result>>
        /\ object' \in Phase
    BY DEF Detach, DetachBegin, DetachTest, DetachReceiver, DetachSender, DetachEnd, local,
           ResumeAllTest, ResumeAllFirst, Phase
  <1>2. /\ receivers \in Seq(Thread) /\ IsInjective(receivers)
        /\ senders \in Seq(Thread) /\ IsInjective(senders)
        /\ Agrees(receivers, "take") /\ Agrees(senders, "put") /\ "ERROR" \in Error
    BY DEF CallsOK, CallsTypeOK, CallsSound, Agrees, Error
  <1>3. CASE UNCHANGED <<receivers, senders, stat, armed, error>>
    BY <1>1, <1>3, ObjectMoves
  <1>4. CASE receivers # <<>> /\ DetachReceiver
    <2> DEFINE S == {Head(receivers)}
    <2>1. Woken(S, "ERROR") /\ receivers' = Tail(receivers) /\ senders' = senders
      BY <1>4 DEF DetachReceiver, ResumeAllFirst, Rest
    <2>2. S \in SUBSET Thread /\ \A u \in S : stat[u] = "SUSPEND" /\ pc[u] = "take"
      BY <1>2, <1>4, ListEmpty DEF Agrees
    <2>3. /\ receivers' \in Seq(Thread) /\ IsInjective(receivers')
          /\ Range(receivers') = Range(receivers) \ S
      BY <1>2, <1>4, <2>1, TailLinks
    <2> HIDE DEF S
    <2>4. Range(senders') = Range(senders) \ S
      BY <1>2, <2>1, <2>2 DEF Agrees
    <2> QED BY <1>1, <1>2, <2>1, <2>2, <2>3, <2>4, SleepersWoken
  <1>5. CASE senders # <<>> /\ DetachSender
    <2> DEFINE S == {Head(senders)}
    <2>1. Woken(S, "ERROR") /\ senders' = Tail(senders) /\ receivers' = receivers
      BY <1>5 DEF DetachSender, ResumeAllFirst, Rest
    <2>2. S \in SUBSET Thread /\ \A u \in S : stat[u] = "SUSPEND" /\ pc[u] = "put"
      BY <1>2, <1>5, ListEmpty DEF Agrees
    <2>3. /\ senders' \in Seq(Thread) /\ IsInjective(senders')
          /\ Range(senders') = Range(senders) \ S
      BY <1>2, <1>5, <2>1, TailLinks
    <2> HIDE DEF S
    <2>4. Range(receivers') = Range(receivers) \ S
      BY <1>2, <2>1, <2>2 DEF Agrees
    <2> QED BY <1>1, <1>2, <2>1, <2>2, <2>3, <2>4, SleepersWoken
  <1>6. CASE (receivers = <<>> /\ DetachReceiver) \/ (senders = <<>> /\ DetachSender)
    BY <1>3, <1>6 DEF DetachReceiver, DetachSender, ResumeAllFirst, Rest, blocking
  <1>7. CASE DetachBegin \/ DetachTest \/ DetachEnd
    BY <1>3, <1>7 DEF DetachBegin, DetachTest, DetachEnd, ResumeAllTest, lists, blocking
  <1> QED BY <1>4, <1>5, <1>6, <1>7 DEF Detach

\* A reset leaves nobody in a list.
LEMMA ResumeAllCalls ==
    ASSUME CallsOK, ResumeAll
    PROVE  /\ CallsOK' /\ UNCHANGED <<pc, asleep, arg, result>>
           /\ \A m, s \in Nat : Wakeups(m, s)'
  <1> DEFINE S == Range(receivers) \cup Range(senders)
  <1>1. /\ Woken(S, "ERROR") /\ receivers' = <<>> /\ senders' = <<>>
        /\ UNCHANGED <<object, pc, asleep, arg, timeout, result>>
    BY DEF ResumeAll, local
  <1>2. S \in SUBSET Thread /\ \A u \in S : stat[u] = "SUSPEND"
    BY ListEmpty DEF CallsOK, CallsTypeOK, CallsSound, Agrees
  <1>3. Range(<<>>) = {} /\ IsInjective(<<>>) /\ <<>> \in Seq(Thread)
    BY DEF Range, IsInjective
  <1>4. Range(receivers') = Range(receivers) \ S /\ Range(senders') = Range(senders) \ S
    BY <1>1, <1>3
  <1>5. object' \in Phase /\ "ERROR" \in Error
    BY <1>1 DEF CallsOK, CallsTypeOK, Error
  <1>6. \A m, s \in Nat : Wakeups(m, s)'
    BY <1>1 DEF Wakeups
  <1> HIDE DEF S
  <1>7. CallsOK'
    BY <1>1, <1>2, <1>3, <1>4, <1>5, SleepersWoken
  <1> QED BY <1>1, <1>6, <1>7

\* The object is initialised when nobody is left in a call.
LEMMA RebornCalls ==
    ASSUME CallsOK, Reborn
    PROVE  /\ CallsOK' /\ UNCHANGED <<pc, asleep, arg, result>>
           /\ \A t \in Thread : pc[t] = "user"
           /\ \A m, s \in Nat : Wakeups(m, s)'
  <1>1. /\ \A t \in Thread : pc[t] = "user"
        /\ object' \in Phase
        /\ UNCHANGED <<receivers, senders, pc, asleep, arg, timeout, result, stat, armed, error>>
    BY DEF Reborn, lists, local, blocking, Phase
  <1>2. CallsTypeOK' /\ CallsSound' /\ ResultTypeOK'
    BY <1>1 DEF CallsOK, CallsTypeOK, BlockingTypeOK, CallsSound, Agrees, ResultTypeOK
  <1>3. Range(receivers) = {} /\ Range(senders) = {}
    BY <1>1, ListEmpty DEF CallsOK, CallsTypeOK, CallsSound, Agrees
  <1>4. receivers = <<>> /\ senders = <<>>
    BY <1>3, ListEmpty DEF CallsOK, CallsTypeOK
  <1>5. \A m, s \in Nat : Wakeups(m, s)'
    BY <1>1, <1>4 DEF Wakeups
  <1> QED BY <1>1, <1>2, <1>5 DEF CallsOK

\* A step that changes none of the calls.
LEMMA CallsStutter ==
    ASSUME CallsOK, UNCHANGED calls
    PROVE  /\ CallsOK' /\ UNCHANGED <<pc, asleep, arg, result>>
           /\ \A m, s \in Nat : Wakeups(m, s) => Wakeups(m, s)'
  <1>1. UNCHANGED <<receivers, senders, object, pc, asleep, arg, timeout, result, stat, armed, error>>
    BY DEF calls, lists, local, blocking
  <1>2. CallsTypeOK' /\ CallsSound' /\ ResultTypeOK'
    BY <1>1 DEF CallsOK, CallsTypeOK, BlockingTypeOK, CallsSound, Agrees, ResultTypeOK
  <1>3. \A m, s \in Nat : Wakeups(m, s) => Wakeups(m, s)'
    BY <1>1 DEF Wakeups, OnTheWay
  <1> QED BY <1>1, <1>2, <1>3 DEF CallsOK

\* Nobody is in a call.
LEMMA CallsBegin ==
    ASSUME CallsInit PROVE CallsOK /\ \A m, s \in Nat : Wakeups(m, s)
  <1>1. CallsTypeOK
    BY QueueAssumption DEF CallsInit, BlockingInit, CallsTypeOK, BlockingTypeOK, Error, Phase
  <1>2. Range(<<>>) = {} /\ IsInjective(<<>>)
    BY DEF Range, IsInjective
  <1>3. CallsSound
    BY <1>2 DEF CallsInit, BlockingInit, CallsSound, Agrees
  <1>4. ResultTypeOK
    BY DEF CallsInit, ResultTypeOK, Queue!Outcome
  <1>5. \A m, s \in Nat : Wakeups(m, s)
    BY DEF CallsInit, Wakeups
  <1> QED BY <1>1, <1>3, <1>4, <1>5 DEF CallsOK

-----------------------------------------------------------------------------
(* The mailbox: the ring.                                                   *)

\* The two offsets are entry words apart.
RingSound == in_offset = (out_offset + entry) % SIZE

\* The inductive invariant of the mailbox.
IInv == TypeOK /\ CallsOK /\ NoLostWakeup /\ RingSound

\* The offsets of a ring, one round at most ahead.
LEMMA Wraps ==
    ASSUME NEW a \in Nat, a < 2 * SIZE
    PROVE  a % SIZE = IF a < SIZE THEN a ELSE a - SIZE
  BY QueueAssumption

\* The i-th oldest message is i - 1 words after out_offset.
At(out, i) == IF out + i - 1 < SIZE THEN out + i - 1 ELSE out + i - 1 - SIZE

\* The n messages of a ring.
Contents(words, out, n) == [i \in 1 .. n |-> words[(out + i - 1) % SIZE]]

\* The same without the modulus.
LEMMA RingContents ==
    ASSUME NEW words \in [0 .. SIZE - 1 -> Value], NEW out \in 0 .. SIZE - 1,
           NEW n \in 0 .. SIZE
    PROVE  /\ Contents(words, out, n) \in Seq(Value) /\ Len(Contents(words, out, n)) = n
           /\ \A i \in 1 .. n : Contents(words, out, n)[i] = words[At(out, i)]
  <1> DEFINE q == Contents(words, out, n)
  <1>1. SIZE \in Nat \ {0}
    BY QueueAssumption
  <1>2. ASSUME NEW i \in 1 .. n
        PROVE  (out + i - 1) % SIZE = At(out, i) /\ At(out, i) \in 0 .. SIZE - 1
    <2> DEFINE a == out + i - 1
    <2>1. a \in Nat /\ a < 2 * SIZE
      BY <1>1
    <2>2. At(out, i) = (IF a < SIZE THEN a ELSE a - SIZE)
      BY <1>1 DEF At
    <2> HIDE DEF a
    <2>3. a % SIZE = IF a < SIZE THEN a ELSE a - SIZE
      BY <2>1, Wraps
    <2>4. (IF a < SIZE THEN a ELSE a - SIZE) \in 0 .. SIZE - 1
      BY <1>1, <2>1
    <2> QED BY <2>2, <2>3, <2>4 DEF a
  <1>3. \A i \in 1 .. n : q[i] = words[At(out, i)]
    BY <1>2 DEF Contents
  <1>4. \A i \in 1 .. n : q[i] \in Value
    BY <1>2, <1>3
  <1>5. n \in Nat /\ q \in [1 .. n -> Value]
    BY <1>1, <1>4 DEF Contents
  <1> QED BY <1>3, <1>5

\* The queue in this state and in the next one.
LEMMA QueueInRing ==
    ASSUME TypeOK
    PROVE  /\ queue \in Seq(Value) /\ Len(queue) = entry
           /\ \A i \in 1 .. entry : queue[i] = msg_pool[At(out_offset, i)]
  <1>1. /\ msg_pool \in [0 .. SIZE - 1 -> Value] /\ out_offset \in 0 .. SIZE - 1
        /\ entry \in 0 .. SIZE
    BY DEF TypeOK
  <1>2. queue = Contents(msg_pool, out_offset, entry)
    BY DEF queue, Contents
  <1> QED BY ONLY <1>1, <1>2, RingContents

\* The same of the next state.
LEMMA QueueInNextRing ==
    ASSUME TypeOK'
    PROVE  /\ queue' \in Seq(Value) /\ Len(queue') = entry'
           /\ \A i \in 1 .. entry' : queue'[i] = msg_pool'[At(out_offset', i)]
  <1>1. /\ msg_pool' \in [0 .. SIZE - 1 -> Value] /\ out_offset' \in 0 .. SIZE - 1
        /\ entry' \in 0 .. SIZE
    BY DEF TypeOK
  <1>2. queue' = Contents(msg_pool', out_offset', entry')
    BY DEF queue, Contents
  <1> QED BY ONLY <1>1, <1>2, RingContents

\* A message is written at in_offset: the queue grows at its end.
LEMMA RingAppends ==
    ASSUME TypeOK, TypeOK', RingSound, entry < SIZE, NEW v \in Value,
           msg_pool' = [msg_pool EXCEPT ![in_offset] = v], in_offset' = Succ(in_offset),
           entry' = entry + 1, out_offset' = out_offset
    PROVE  RingSound' /\ queue' = Append(queue, v)
  <1>1. /\ SIZE \in Nat \ {0} /\ out_offset \in 0 .. SIZE - 1 /\ entry \in 0 .. SIZE
        /\ in_offset \in 0 .. SIZE - 1
    BY QueueAssumption DEF TypeOK
  <1>2. in_offset = IF out_offset + entry < SIZE THEN out_offset + entry
                    ELSE out_offset + entry - SIZE
    BY <1>1, Wraps DEF RingSound
  <1>3. RingSound'
    <2>1. (out_offset + (entry + 1)) % SIZE =
            IF out_offset + (entry + 1) < SIZE THEN out_offset + (entry + 1)
            ELSE out_offset + (entry + 1) - SIZE
      BY <1>1, Wraps
    <2>2. Succ(in_offset) = (out_offset + (entry + 1)) % SIZE
      BY <1>1, <1>2, <2>1 DEF Succ
    <2> QED BY <2>2 DEF RingSound
  <1>4. \A i \in 1 .. entry : At(out_offset, i) # in_offset /\ At(out_offset, i) \in 0 .. SIZE - 1
    BY <1>1, <1>2 DEF At
  <1>5. At(out_offset, entry + 1) = in_offset
    BY <1>1, <1>2 DEF At
  <1>6. msg_pool \in [0 .. SIZE - 1 -> Value]
    BY DEF TypeOK
  <1>7. /\ queue' \in Seq(Value) /\ Len(queue') = entry + 1
        /\ \A i \in 1 .. entry + 1 : queue'[i] = msg_pool'[At(out_offset, i)]
    BY QueueInNextRing
  <1>8. \A i \in 1 .. entry + 1 : msg_pool'[At(out_offset, i)] =
            IF i <= entry THEN msg_pool[At(out_offset, i)] ELSE v
    <2> SUFFICES ASSUME NEW i \in 1 .. entry + 1
                 PROVE  msg_pool'[At(out_offset, i)] =
                          IF i <= entry THEN msg_pool[At(out_offset, i)] ELSE v
      OBVIOUS
    <2>1. CASE i \in 1 .. entry
      BY <1>1, <1>4, <1>6, <2>1
    <2>2. CASE i = entry + 1
      BY <1>1, <1>5, <1>6, <2>2
    <2> QED BY <1>1, <2>1, <2>2
  <1>9. /\ queue \in Seq(Value) /\ Len(queue) = entry
        /\ \A i \in 1 .. entry : queue[i] = msg_pool[At(out_offset, i)]
    BY QueueInRing
  <1>10. /\ Append(queue, v) \in Seq(Value) /\ Len(Append(queue, v)) = entry + 1
         /\ \A i \in 1 .. entry + 1 : Append(queue, v)[i] = IF i <= entry THEN queue[i] ELSE v
    BY <1>1, <1>9
  <1>11. \A i \in 1 .. entry + 1 : queue'[i] = Append(queue, v)[i]
    BY <1>1, <1>7, <1>8, <1>9, <1>10
  <1>12. queue' = Append(queue, v)
    BY <1>7, <1>10, <1>11, SeqEqual
  <1> QED BY <1>3, <1>12

\* A message is written before out_offset: the queue grows at its front.
LEMMA RingPrepends ==
    ASSUME TypeOK, TypeOK', RingSound, entry < SIZE, NEW v \in Value,
           out_offset' = IF out_offset > 0 THEN out_offset - 1 ELSE SIZE - 1,
           msg_pool' = [msg_pool EXCEPT ![out_offset'] = v],
           entry' = entry + 1, in_offset' = in_offset
    PROVE  RingSound' /\ queue' = <<v>> \o queue
  <1> DEFINE o == out_offset'
  <1>1. /\ SIZE \in Nat \ {0} /\ out_offset \in 0 .. SIZE - 1 /\ entry \in 0 .. SIZE
        /\ in_offset \in 0 .. SIZE - 1 /\ o \in 0 .. SIZE - 1
        /\ o = IF out_offset > 0 THEN out_offset - 1 ELSE SIZE - 1
    BY QueueAssumption DEF TypeOK
  <1>2. in_offset = IF out_offset + entry < SIZE THEN out_offset + entry
                    ELSE out_offset + entry - SIZE
    BY <1>1, Wraps DEF RingSound
  <1> HIDE DEF o
  <1>3. RingSound'
    <2>1. (o + (entry + 1)) % SIZE = IF o + (entry + 1) < SIZE THEN o + (entry + 1)
                                     ELSE o + (entry + 1) - SIZE
      BY <1>1, Wraps
    <2>2. in_offset = (o + (entry + 1)) % SIZE
      BY <1>1, <1>2, <2>1
    <2> QED BY <2>2 DEF RingSound, o
  <1>4. At(o, 1) = o
    BY <1>1 DEF At
  <1>5. \A i \in 2 .. entry + 1 : /\ i - 1 \in 1 .. entry
                                 /\ At(o, i) = At(out_offset, i - 1) /\ At(o, i) # o
                                 /\ At(o, i) \in 0 .. SIZE - 1
    BY <1>1 DEF At
  <1>6. msg_pool \in [0 .. SIZE - 1 -> Value] /\ msg_pool' = [msg_pool EXCEPT ![o] = v]
    BY DEF TypeOK, o
  <1>7. /\ queue' \in Seq(Value) /\ Len(queue') = entry + 1
        /\ \A i \in 1 .. entry + 1 : queue'[i] = msg_pool'[At(o, i)]
    BY QueueInNextRing DEF o
  <1>8. /\ queue \in Seq(Value) /\ Len(queue) = entry
        /\ \A i \in 1 .. entry : queue[i] = msg_pool[At(out_offset, i)]
    BY QueueInRing
  <1>9. \A i \in 1 .. entry + 1 : msg_pool'[At(o, i)] = IF i = 1 THEN v ELSE queue[i - 1]
    <2> SUFFICES ASSUME NEW i \in 1 .. entry + 1
                 PROVE  msg_pool'[At(o, i)] = IF i = 1 THEN v ELSE queue[i - 1]
      OBVIOUS
    <2>1. CASE i \in 2 .. entry + 1
      BY <1>1, <1>5, <1>6, <1>8, <2>1
    <2>2. CASE i = 1
      BY <1>1, <1>4, <1>6, <2>2
    <2> QED BY <1>1, <2>1, <2>2
  <1>10. /\ <<v>> \o queue \in Seq(Value) /\ Len(<<v>> \o queue) = entry + 1
         /\ \A i \in 1 .. entry + 1 : (<<v>> \o queue)[i] = IF i = 1 THEN v ELSE queue[i - 1]
    BY <1>1, <1>8
  <1>11. \A i \in 1 .. entry + 1 : queue'[i] = (<<v>> \o queue)[i]
    BY <1>7, <1>9, <1>10
  <1>12. queue' = <<v>> \o queue
    BY <1>7, <1>10, <1>11, SeqEqual
  <1> QED BY <1>3, <1>12

\* The message at out_offset is taken: the queue loses its first element.
LEMMA RingRemoves ==
    ASSUME TypeOK, TypeOK', RingSound, entry > 0, out_offset' = Succ(out_offset),
           entry' = entry - 1, UNCHANGED <<msg_pool, in_offset>>
    PROVE  /\ RingSound' /\ queue # <<>> /\ Head(queue) = msg_pool[out_offset]
           /\ queue' = Tail(queue)
  <1> DEFINE o == out_offset'
  <1>1. /\ SIZE \in Nat \ {0} /\ out_offset \in 0 .. SIZE - 1 /\ entry \in 0 .. SIZE
        /\ in_offset \in 0 .. SIZE - 1 /\ o \in 0 .. SIZE - 1
        /\ o = IF out_offset + 1 >= SIZE THEN 0 ELSE out_offset + 1
    BY QueueAssumption DEF TypeOK, Succ
  <1>2. in_offset = IF out_offset + entry < SIZE THEN out_offset + entry
                    ELSE out_offset + entry - SIZE
    BY <1>1, Wraps DEF RingSound
  <1> HIDE DEF o
  <1>3. RingSound'
    <2>1. (o + (entry - 1)) % SIZE = IF o + (entry - 1) < SIZE THEN o + (entry - 1)
                                     ELSE o + (entry - 1) - SIZE
      BY <1>1, Wraps
    <2>2. in_offset = (o + (entry - 1)) % SIZE
      BY <1>1, <1>2, <2>1
    <2> QED BY <2>2 DEF RingSound, o
  <1>4. /\ queue \in Seq(Value) /\ Len(queue) = entry
        /\ \A i \in 1 .. entry : queue[i] = msg_pool[At(out_offset, i)]
    BY QueueInRing
  <1>5. At(out_offset, 1) = out_offset
    BY <1>1 DEF At
  <1>6. queue # <<>> /\ Head(queue) = msg_pool[out_offset]
    BY <1>1, <1>4, <1>5
  <1>7. /\ queue' \in Seq(Value) /\ Len(queue') = entry - 1
        /\ \A i \in 1 .. entry - 1 : queue'[i] = msg_pool[At(o, i)]
    BY QueueInNextRing DEF o
  <1>8. \A i \in 1 .. entry - 1 : i + 1 \in 1 .. entry /\ At(o, i) = At(out_offset, i + 1)
    BY <1>1 DEF At
  <1>9. /\ Tail(queue) \in Seq(Value) /\ Len(Tail(queue)) = entry - 1
        /\ \A i \in 1 .. entry - 1 : Tail(queue)[i] = queue[i + 1]
    BY <1>1, <1>4, <1>6
  <1>10. queue' = Tail(queue)
    BY <1>4, <1>7, <1>8, <1>9, SeqEqual
  <1> QED BY <1>3, <1>6, <1>10

-----------------------------------------------------------------------------
(* The mailbox: each action keeps the invariant and is a step of the queue,  *)
(* or none.                                                                 *)

\* A step of the queue, or none.
QueueStep == Queue!Next \/ UNCHANGED <<queue, call>>

\* No wakeup is lost by a mailbox with entry messages.
LEMMA MailboxWakeups ==
    ASSUME IInv
    PROVE  entry \in Nat /\ SIZE - entry \in Nat /\ Wakeups(entry, SIZE - entry)
  BY QueueAssumption DEF IInv, TypeOK, NoLostWakeup, Wakeups

\* What the queue sees of a thread.
LEMMA CallOf ==
    ASSUME NEW t \in Thread
    PROVE  /\ pc[t] = "user" => call[t] = result[t]
           /\ pc[t] = "take" => call[t] = <<"take">>
           /\ pc[t] \in {"put", "urgent"} => call[t] = <<pc[t], arg[t]>>
  BY DEF call

\* A call that returns is seen to return.
LEMMA CallReturns ==
    ASSUME IInv, NEW t \in Thread, NEW r \in Queue!Outcome, Returns(t, r)
    PROVE  call' = [call EXCEPT ![t] = r]
  <1>1. /\ UNCHANGED arg
        /\ \A u \in Thread : /\ pc'[u] = IF u = t THEN "user" ELSE pc[u]
                             /\ result'[u] = IF u = t THEN r ELSE result[u]
    BY ReturnsTyped DEF IInv
  <1>2. \A u \in Thread : call'[u] = IF u = t THEN r ELSE call[u]
    BY <1>1 DEF call
  <1>3. call' = [u \in Thread |-> call'[u]] /\ call = [u \in Thread |-> call[u]]
    BY DEF call
  <1> HIDE DEF call
  <1> QED BY <1>2, <1>3

\* A step that leaves the calls alone is not seen.
LEMMA CallKept ==
    ASSUME UNCHANGED <<pc, arg, result>> PROVE call' = call
  BY DEF call

\* A step that leaves the ring alone leaves the queue alone.
LEMMA RingKept ==
    ASSUME IInv, UNCHANGED ring, CallsOK', NEW m, NEW s, m = entry, s = SIZE - entry,
           Wakeups(m, s)'
    PROVE  IInv' /\ queue' = queue
  <1>1. TypeOK' /\ RingSound' /\ queue' = queue
    BY DEF IInv, TypeOK, ring, RingSound, queue, CallsOK
  <1>2. NoLostWakeup'
    BY MailboxWakeups DEF NoLostWakeup, Wakeups, ring
  <1> QED BY <1>1, <1>2 DEF IInv

\* A message came in.
LEMMA MailboxSenderReturns ==
    ASSUME IInv, NEW t \in Thread, pc[t] \in {"put", "urgent"}, Looks(t), entry < SIZE,
           entry' = entry + 1, WakeFirst(receivers), receivers' = Rest(receivers),
           Returns(t, <<"ok">>), UNCHANGED senders
    PROVE  CallsOK' /\ NoLostWakeup'
  <1>1. stat[t] = "READY"
    BY LooksReady DEF IInv
  <1>2. <<"ok">> \in Queue!Outcome
    BY DEF Queue!Outcome
  <1>3. /\ CallsOK'
        /\ \A m, s \in Nat : Wakeups(m, s) => Wakeups(m + 1, s - 1)'
    BY <1>1, <1>2, SenderReturns DEF IInv
  <1>4. NoLostWakeup'
    <2>1. /\ receivers' # <<>> => entry + 1 <= Cardinality(OnTheWay("take")')
          /\ senders' # <<>> => (SIZE - entry) - 1 <= Cardinality(OnTheWay("put")')
      BY <1>3, MailboxWakeups DEF Wakeups
    <2>2. SIZE - entry' = (SIZE - entry) - 1
      BY MailboxWakeups, QueueAssumption
    <2> QED BY <2>1, <2>2 DEF NoLostWakeup
  <1> QED BY <1>3, <1>4

\* _rt_mb_send_wait with space appends the message.
LEMMA SendStep == ASSUME IInv, NEW t \in Thread, Send(t) PROVE IInv' /\ QueueStep
  <1>1. /\ pc[t] = "put" /\ Looks(t) /\ entry < SIZE
        /\ msg_pool' = [msg_pool EXCEPT ![in_offset] = arg[t]]
        /\ in_offset' = Succ(in_offset) /\ entry' = entry + 1
        /\ WakeFirst(receivers) /\ receivers' = Rest(receivers) /\ Returns(t, <<"ok">>)
        /\ out_offset' = out_offset /\ senders' = senders
    BY DEF Send
  <1>2. CallsOK' /\ NoLostWakeup'
    BY <1>1, MailboxSenderReturns
  <1>3. arg[t] \in Value
    BY DEF IInv, TypeOK, CallsTypeOK
  <1>4. TypeOK'
    BY <1>1, <1>2, <1>3, QueueAssumption DEF IInv, TypeOK, Succ, CallsOK
  <1>5. RingSound' /\ queue' = Append(queue, arg[t])
    BY <1>1, <1>3, <1>4, RingAppends DEF IInv
  <1>6. IInv'
    BY <1>2, <1>4, <1>5 DEF IInv
  <1>7. call' = [call EXCEPT ![t] = <<"ok">>]
    BY <1>1, CallReturns DEF Queue!Outcome
  <1>8. call[t] = <<"put", arg[t]>> /\ call[t] \in Queue!Put
    BY <1>1, <1>3, CallOf DEF Queue!Put
  <1>9. Len(queue) = entry
    BY QueueInRing DEF IInv
  <1>10. Queue!Accept(t)
    BY <1>1, <1>5, <1>7, <1>8, <1>9 DEF Queue!Accept
  <1> QED BY <1>6, <1>10 DEF QueueStep, Queue!Next

\* rt_mb_urgent with space puts the message in front of the others.
LEMMA UrgentSendStep == ASSUME IInv, NEW t \in Thread, UrgentSend(t) PROVE IInv' /\ QueueStep
  <1>1. /\ pc[t] = "urgent" /\ Looks(t) /\ entry < SIZE
        /\ out_offset' = (IF out_offset > 0 THEN out_offset - 1 ELSE SIZE - 1)
        /\ msg_pool' = [msg_pool EXCEPT ![out_offset'] = arg[t]] /\ entry' = entry + 1
        /\ WakeFirst(receivers) /\ receivers' = Rest(receivers) /\ Returns(t, <<"ok">>)
        /\ in_offset' = in_offset /\ senders' = senders
    BY DEF UrgentSend
  <1>2. Looks(t)
    BY <1>1
  <1>3. CallsOK' /\ NoLostWakeup'
    BY <1>1, <1>2, MailboxSenderReturns
  <1>4. arg[t] \in Value
    BY DEF IInv, TypeOK, CallsTypeOK
  <1>5. TypeOK'
    BY <1>1, <1>3, <1>4, QueueAssumption DEF IInv, TypeOK, CallsOK
  <1>6. RingSound' /\ queue' = <<arg[t]>> \o queue
    BY <1>1, <1>4, <1>5, RingPrepends DEF IInv
  <1>7. IInv'
    BY <1>3, <1>5, <1>6 DEF IInv
  <1>8. call' = [call EXCEPT ![t] = <<"ok">>]
    BY <1>1, CallReturns DEF Queue!Outcome
  <1>9. /\ call[t] = <<"urgent", arg[t]>> /\ call[t] \in Queue!Urgent
        /\ call[t] \notin Queue!Put
    <2>1. call[t] = <<"urgent", arg[t]>>
      BY <1>1, CallOf
    <2>2. call[t] \in Queue!Urgent
      BY <1>4, <2>1 DEF Queue!Urgent
    <2>3. call[t][1] = "urgent"
      BY <2>1
    <2>4. \A p \in Queue!Put : p[1] = "put"
      BY DEF Queue!Put
    <2> HIDE DEF call
    <2> QED BY <2>1, <2>2, <2>3, <2>4
  <1>10. Len(queue) = entry
    BY QueueInRing DEF IInv
  <1>11. Queue!Accept(t)
    BY <1>1, <1>6, <1>8, <1>9, <1>10 DEF Queue!Accept
  <1> QED BY <1>7, <1>11 DEF QueueStep, Queue!Next

\* _rt_mb_recv with a message delivers the first one.
LEMMA ReceiveStep == ASSUME IInv, NEW t \in Thread, Receive(t) PROVE IInv' /\ QueueStep
  <1>1. /\ pc[t] = "take" /\ Looks(t) /\ entry > 0
        /\ out_offset' = Succ(out_offset) /\ entry' = entry - 1
        /\ WakeFirst(senders) /\ senders' = Rest(senders)
        /\ Returns(t, <<"got", msg_pool[out_offset]>>)
        /\ msg_pool' = msg_pool /\ in_offset' = in_offset /\ receivers' = receivers
    BY DEF Receive
  <1>2. <<"got", msg_pool[out_offset]>> \in Queue!Outcome
    BY DEF Queue!Outcome, IInv, TypeOK
  <1>3. CallsOK' /\ NoLostWakeup'
    <2>1. stat[t] = "READY"
      BY <1>1, LooksReady DEF IInv
    <2>2. /\ CallsOK'
          /\ \A m, s \in Nat : Wakeups(s, m) => Wakeups(s - 1, m + 1)'
      BY <1>1, <1>2, <2>1, ReceiverReturns DEF IInv
    <2> QED BY <1>1, <2>2, MailboxWakeups, QueueAssumption DEF NoLostWakeup, Wakeups
  <1>4. TypeOK'
    BY <1>1, <1>3, QueueAssumption DEF IInv, TypeOK, Succ, CallsOK
  <1>5. /\ RingSound' /\ queue # <<>> /\ Head(queue) = msg_pool[out_offset]
        /\ queue' = Tail(queue)
    BY <1>1, <1>4, RingRemoves DEF IInv
  <1>6. IInv'
    BY <1>3, <1>4, <1>5 DEF IInv
  <1>7. call' = [call EXCEPT ![t] = <<"got", msg_pool[out_offset]>>]
    BY <1>1, <1>2, CallReturns
  <1>8. call[t] \in Queue!Take
    BY <1>1, CallOf DEF Queue!Take
  <1>9. Queue!Deliver(t)
    BY <1>5, <1>7, <1>8 DEF Queue!Deliver
  <1> QED BY <1>6, <1>9 DEF QueueStep, Queue!Next

\* Nothing can be had, and the caller waits.
LEMMA BlockStep == ASSUME IInv, NEW t \in Thread, Block(t) PROVE IInv' /\ QueueStep
  <1>1. Stuck(t) /\ Waits(t) /\ UNCHANGED ring
    BY DEF Block
  <1>2. /\ CallsOK' /\ UNCHANGED <<pc, arg, result>>
        /\ \A m, s \in Nat : Wakeups(m, s) /\ (IF pc[t] = "take" THEN m ELSE s) = 0
              => Wakeups(m, s)'
    BY <1>1, CallerWaits DEF IInv
  <1>3. (IF pc[t] = "take" THEN entry ELSE SIZE - entry) = 0
    BY <1>1, QueueAssumption DEF Stuck
  <1>4. IInv' /\ queue' = queue
    BY <1>1, <1>2, <1>3, MailboxWakeups, RingKept
  <1> QED BY <1>2, <1>4, CallKept DEF QueueStep

\* A call that fails has left no trace in the ring.
LEMMA FailIsSeen ==
    ASSUME IInv, NEW t \in Thread, pc[t] # "user", Returns(t, <<"failed">>), queue' = queue
    PROVE  QueueStep
  <1>1. call' = [call EXCEPT ![t] = <<"failed">>]
    BY CallReturns DEF Queue!Outcome
  <1>2. call[t] \in Queue!Request
    <2>1. pc[t] \in {"put", "urgent", "take"} /\ arg[t] \in Value
      BY DEF IInv, TypeOK, CallsTypeOK
    <2> QED BY <2>1, CallOf DEF Queue!Request, Queue!Put, Queue!Urgent, Queue!Take
  <1>3. Queue!Fail(t)
    BY <1>1, <1>2 DEF Queue!Fail
  <1> QED BY <1>3 DEF QueueStep, Queue!Next

\* -RT_EFULL, -RT_ETIMEOUT.
LEMMA GiveUpStep == ASSUME IInv, NEW t \in Thread, GiveUp(t) PROVE IInv' /\ QueueStep
  <1>1. Stuck(t) /\ GivesUp(t) /\ UNCHANGED ring
    BY DEF GiveUp
  <1>2. /\ CallsOK' /\ pc[t] # "user" /\ Returns(t, <<"failed">>)
        /\ \A m, s \in Nat : Wakeups(m, s) /\ (IF pc[t] = "take" THEN m ELSE s) = 0
              => Wakeups(m, s)'
    BY <1>1, CallerGivesUp DEF IInv
  <1>3. (IF pc[t] = "take" THEN entry ELSE SIZE - entry) = 0
    BY <1>1, QueueAssumption DEF Stuck
  <1>4. IInv' /\ queue' = queue
    BY <1>1, <1>2, <1>3, MailboxWakeups, RingKept
  <1> QED BY <1>2, <1>4, FailIsSeen

\* A call begins.
LEMMA CallsStep ==
    ASSUME IInv, NEW t \in Thread, NEW op \in {"put", "urgent", "take"}, NEW v \in Value,
           NEW time \in Times, Calls(t, op, v, time), UNCHANGED ring
    PROVE  IInv' /\ QueueStep
  <1>1. /\ CallsOK' /\ pc[t] = "user" /\ UNCHANGED result
        /\ \A u \in Thread : /\ pc'[u] = IF u = t THEN op ELSE pc[u]
                             /\ arg'[u] = IF u = t THEN v ELSE arg[u]
        /\ \A m, s \in Nat : Wakeups(m, s) => Wakeups(m, s)'
    BY CallBegins DEF IInv
  <1>2. IInv' /\ queue' = queue
    BY <1>1, MailboxWakeups, RingKept
  <1>3. QueueStep
    <2> DEFINE r == IF op = "take" THEN <<"take">> ELSE <<op, v>>
    <2>1. r \in Queue!Request
      BY DEF Queue!Request, Queue!Put, Queue!Urgent, Queue!Take
    <2>2. call[t] \in Queue!Outcome
      BY <1>1, CallOf DEF IInv, CallsOK, ResultTypeOK
    <2>3. \A u \in Thread : call'[u] = IF u = t THEN r ELSE call[u]
      BY <1>1 DEF call
    <2>4. call' = [u \in Thread |-> call'[u]] /\ call = [u \in Thread |-> call[u]]
      BY DEF call
    <2> HIDE DEF call, r
    <2>5. call' = [call EXCEPT ![t] = r]
      BY <2>3, <2>4
    <2>6. Queue!Invoke(t, r)
      BY <1>2, <2>2, <2>5 DEF Queue!Invoke
    <2> QED BY <2>1, <2>6 DEF QueueStep, Queue!Next
  <1> QED BY <1>2, <1>3

\* A wait fails, or ends.
LEMMA WaitFailsStep ==
    ASSUME IInv, NEW t \in Thread, WaitFails(t), UNCHANGED ring PROVE IInv' /\ QueueStep
  <1>1. /\ CallsOK' /\ pc[t] # "user" /\ Returns(t, <<"failed">>)
        /\ \A m, s \in Nat : Wakeups(m, s) => Wakeups(m, s)'
    BY CallerFails DEF IInv
  <1>2. IInv' /\ queue' = queue
    BY <1>1, MailboxWakeups, RingKept
  <1> QED BY <1>1, <1>2, FailIsSeen

\* A step that no call returns or begins in.
LEMMA QuietStep ==
    ASSUME IInv, UNCHANGED ring, CallsOK', UNCHANGED <<pc, arg, result>>,
           \A m, s \in Nat : Wakeups(m, s) => Wakeups(m, s)'
    PROVE  IInv' /\ QueueStep
  <1>1. IInv' /\ queue' = queue
    BY MailboxWakeups, RingKept
  <1> QED BY <1>1, CallKept DEF QueueStep

\* The mailbox is emptied while nobody is left in a list.
LEMMA ClearedQueue ==
    ASSUME IInv, Cleared, CallsOK', UNCHANGED <<pc, arg, result>>,
           \A m, s \in Nat : Wakeups(m, s)'
    PROVE  IInv' /\ QueueStep
  <1>1. TypeOK'
    BY QueueAssumption DEF IInv, TypeOK, Cleared, CallsOK
  <1>2. RingSound'
    <2>1. 0 % SIZE = 0
      BY QueueAssumption, Wraps
    <2> QED BY <2>1 DEF RingSound, Cleared
  <1>3. NoLostWakeup'
    BY QueueAssumption DEF NoLostWakeup, Wakeups, Cleared
  <1>4. queue' = <<>>
    <2>1. queue' \in Seq(Value) /\ Len(queue') = 0
      BY <1>1, QueueInNextRing DEF Cleared
    <2> QED BY <2>1, EmptySeq
  <1>5. Queue!Reset
    BY <1>4, CallKept DEF Queue!Reset
  <1> QED BY <1>1, <1>2, <1>3, <1>5 DEF IInv, QueueStep, Queue!Next

-----------------------------------------------------------------------------
(* The mailbox: the theorems.                                               *)

\* An empty mailbox, and nobody in a call.
LEMMA InitInv == Init => IInv /\ Queue!Init
  <1> SUFFICES ASSUME Init PROVE IInv /\ Queue!Init
    OBVIOUS
  <1>1. CallsOK /\ \A m, s \in Nat : Wakeups(m, s)
    BY CallsBegin DEF Init
  <1>2. TypeOK
    BY <1>1, QueueAssumption DEF Init, TypeOK, CallsOK
  <1>3. NoLostWakeup
    BY <1>1, QueueAssumption DEF Init, NoLostWakeup, Wakeups
  <1>4. RingSound
    <2>1. 0 % SIZE = 0
      BY QueueAssumption, Wraps
    <2> QED BY <2>1 DEF Init, RingSound
  <1>5. queue = <<>>
    <2>1. queue \in Seq(Value) /\ Len(queue) = 0
      BY <1>2, QueueInRing DEF Init
    <2> QED BY <2>1, EmptySeq
  <1>6. call = [t \in Thread |-> <<"none">>]
    BY DEF Init, CallsInit, call
  <1> QED BY <1>1, <1>2, <1>3, <1>4, <1>5, <1>6 DEF IInv, Queue!Init

\* Every step keeps the invariant and is a step of the queue, or none.
LEMMA NextInv == IInv /\ [Next]_vars => IInv' /\ QueueStep
  <1> SUFFICES ASSUME IInv, [Next]_vars PROVE IInv' /\ QueueStep
    OBVIOUS
  <1>1. ASSUME NEW t \in Thread,
               Send(t) \/ UrgentSend(t) \/ Receive(t) \/ Block(t) \/ GiveUp(t)
        PROVE  IInv' /\ QueueStep
    BY <1>1, SendStep, UrgentSendStep, ReceiveStep, BlockStep, GiveUpStep
  <1>2. ASSUME NEW t \in Thread, CallStep(t), UNCHANGED ring PROVE IInv' /\ QueueStep
    <2>1. CASE WaitEnds(t)
      BY <1>2, <2>1, WaiterLeaves, QuietStep DEF IInv
    <2>2. CASE ResumeInsert(t)
      BY <1>2, <2>2, SleeperInserted, QuietStep DEF IInv
    <2>3. CASE ResumeRaced(t)
      BY <1>2, <2>3, SleeperRaced, QuietStep DEF IInv
    <2> QED BY <1>2, <2>1, <2>2, <2>3, CallsStep, WaitFailsStep DEF CallStep
  <1>3. CASE Reset
    BY <1>3, ResumeAllCalls, ClearedQueue DEF Reset, IInv
  <1>4. CASE InitAgain
    BY <1>4, RebornCalls, ClearedQueue DEF InitAgain, IInv
  <1>5. CASE Detach /\ UNCHANGED ring
    BY <1>5, DetachCalls, QuietStep DEF IInv
  <1>6. CASE UNCHANGED vars \/ (Stopped /\ UNCHANGED ring)
    BY <1>6, CallsStutter, QuietStep DEF vars, IInv, Stopped
  <1> QED BY <1>1, <1>2, <1>3, <1>4, <1>5, <1>6 DEF Next

\* The invariant above is one of the mailbox.
THEOREM MailboxInvariant == Spec => []IInv
  BY InitInv, NextInv, PTL DEF Spec

\* While a receiver waits, for every message in the mailbox another one is on its way
\* to it, and the same for senders and free words, whatever timeouts, resumes, resets
\* and detaches come in between.
THEOREM WakeupCorrect == Spec => []NoLostWakeup
  <1>1. IInv => NoLostWakeup
    BY DEF IInv
  <1> QED BY <1>1, MailboxInvariant, PTL

\* The ring with its two offsets and its counter implements the bounded queue: every
\* message goes to one receiver, in the order of sends and urgent sends, and a call
\* that fails leaves no trace.
THEOREM QueueImplemented == Spec => ImplementsQueue
  <1>1. Init => Queue!Init
    BY InitInv
  <1>2. IInv /\ [Next]_vars => [Queue!Next]_<<queue, call>>
    BY NextInv DEF QueueStep
  <1> QED BY <1>1, <1>2, MailboxInvariant, PTL DEF Spec, ImplementsQueue, Queue!Spec

-----------------------------------------------------------------------------
(* The message queue: chains of nodes.                                      *)

\* From p, following the links, one meets the nodes of s, then the end.
IsChain(link, p, s) ==
    /\ s \in Seq(Node) /\ IsInjective(s)
    /\ p = IF s = <<>> THEN Null ELSE s[1]
    /\ \A i \in 1 .. Len(s) : link[s[i]] = IF i = Len(s) THEN Null ELSE s[i + 1]

\* A walk of n steps, each from what f says of the one before.
WalkFrom(f, link, p, n) ==
    [k \in 0 .. n |-> IF k = 0 THEN p
                      ELSE IF f[k - 1] = Null THEN Null ELSE link[f[k - 1]]]

\* Where a walk along s is after k steps.
WalkAlong(s, k) == IF k < Len(s) THEN s[k + 1] ELSE Null

\* Null is no node.
LEMMA NullNoNode == Null \notin Node /\ SIZE \in Nat \ {0}
  BY NullAssumption, QueueAssumption DEF Node

\* One step along a chain.
LEMMA ChainStep ==
    ASSUME NEW link, NEW p, NEW s, IsChain(link, p, s), NEW k \in Nat
    PROVE  /\ WalkAlong(s, 0) = p
           /\ k > 0 => WalkAlong(s, k) = IF WalkAlong(s, k - 1) = Null THEN Null
                                         ELSE link[WalkAlong(s, k - 1)]
  <1>1. /\ s \in Seq(Node) /\ Len(s) \in Nat /\ (s = <<>> <=> Len(s) = 0)
        /\ p = IF s = <<>> THEN Null ELSE s[1]
        /\ \A i \in 1 .. Len(s) : /\ link[s[i]] = IF i = Len(s) THEN Null ELSE s[i + 1]
                                  /\ s[i] # Null
    BY NullNoNode DEF IsChain
  <1>2. WalkAlong(s, 0) = p
    BY <1>1 DEF WalkAlong
  <1>3. ASSUME k > 0
        PROVE  WalkAlong(s, k) = IF WalkAlong(s, k - 1) = Null THEN Null
                                 ELSE link[WalkAlong(s, k - 1)]
    <2>1. CASE k - 1 < Len(s)
      <3>1. k \in 1 .. Len(s) /\ WalkAlong(s, k - 1) = s[k]
        BY <1>1, <1>3, <2>1 DEF WalkAlong
      <3>2. s[k] # Null /\ link[s[k]] = IF k = Len(s) THEN Null ELSE s[k + 1]
        BY <1>1, <3>1
      <3> QED BY <1>1, <3>1, <3>2 DEF WalkAlong
    <2>2. CASE ~(k - 1 < Len(s))
      BY <1>1, <1>3, <2>2 DEF WalkAlong
    <2> QED BY <2>1, <2>2
  <1> QED BY <1>2, <1>3

\* Walk follows a chain to its end.
LEMMA WalkFollows ==
    ASSUME NEW link, NEW p, NEW s, IsChain(link, p, s), NEW n \in Nat
    PROVE  Walk(link, p, n) = WalkAlong(s, n)
  <1> DEFINE g == [k \in 0 .. n |-> WalkAlong(s, k)]
             at == CHOOSE f : f = WalkFrom(f, link, p, n)
             Bad == {k \in 0 .. n : at[k] # WalkAlong(s, k)}
  <1>1. g = WalkFrom(g, link, p, n)
    <2>1. ASSUME NEW k \in 0 .. n
          PROVE  g[k] = IF k = 0 THEN p ELSE IF g[k - 1] = Null THEN Null ELSE link[g[k - 1]]
      <3>1. g[k] = WalkAlong(s, k) /\ (k # 0 => g[k - 1] = WalkAlong(s, k - 1)) /\ k \in Nat
        OBVIOUS
      <3> HIDE DEF g
      <3> QED BY <3>1, ChainStep
    <2> DEFINE e == WalkFrom(g, link, p, n)
    <2>2. \A k \in 0 .. n : g[k] = e[k]
      BY <2>1 DEF WalkFrom
    <2>3. DOMAIN g = 0 .. n /\ g = [k \in DOMAIN g |-> g[k]]
      OBVIOUS
    <2>4. DOMAIN e = 0 .. n /\ e = [k \in DOMAIN e |-> e[k]]
      BY DEF WalkFrom
    <2> HIDE DEF g, e
    <2>5. g = e
      BY <2>2, <2>3, <2>4
    <2> QED BY <2>5 DEF e
  <1>2. at = WalkFrom(at, link, p, n)
    <2>1. \E f : f = WalkFrom(f, link, p, n)
      BY <1>1, Zenon
    <2> HIDE DEF g
    <2> QED BY <2>1, Zenon
  <1>3. Walk(link, p, n) = at[n]
    BY Zenon DEF Walk, WalkFrom
  <1> HIDE DEF at
  <1>4. Bad = {}
    <2> SUFFICES ASSUME Bad # {} PROVE FALSE
      OBVIOUS
    <2>1. Bad \in SUBSET Nat
      OBVIOUS
    <2>2. PICK k \in Bad : \A i \in Bad : k <= i
      BY <2>1, MinimumExists
    <2>3. k \in 0 .. n /\ k \in Nat /\ at[k] # WalkAlong(s, k)
      BY <2>2
    <2>4. at[k] = IF k = 0 THEN p ELSE IF at[k - 1] = Null THEN Null ELSE link[at[k - 1]]
      BY <1>2, <2>3 DEF WalkFrom
    <2>5. k # 0
      BY <2>3, <2>4, ChainStep
    <2>6. k - 1 \in 0 .. n /\ ~(k <= k - 1)
      BY <2>3, <2>5
    <2>7. at[k - 1] = WalkAlong(s, k - 1)
      BY <2>2, <2>6
    <2>8. WalkAlong(s, k) = IF WalkAlong(s, k - 1) = Null THEN Null
                            ELSE link[WalkAlong(s, k - 1)]
      BY <2>3, <2>5, ChainStep
    <2> QED BY <2>3, <2>4, <2>5, <2>7, <2>8
  <1>5. n \in 0 .. n
    OBVIOUS
  <1> QED BY <1>3, <1>4, <1>5

\* A list of different nodes is no longer than there are nodes.
LEMMA ChainLength ==
    ASSUME NEW s \in Seq(Node), IsInjective(s) PROVE Len(s) \in 0 .. SIZE
  <1>1. Range(s) \in SUBSET Node
    BY ListEmpty
  <1>2. IsFiniteSet(Range(s)) /\ Cardinality(Range(s)) = Len(s)
    BY NodesCounted
  <1>3. IsFiniteSet(Node) /\ Cardinality(Node) = SIZE
    BY NullNoNode, FS_Interval DEF Node
  <1>4. Cardinality(Range(s)) <= Cardinality(Node)
    BY <1>1, <1>3, FS_Subset
  <1> QED BY <1>2, <1>3, <1>4

\* Chain reads a chain from beginning to end.
LEMMA ChainIs ==
    ASSUME NEW link, NEW p, NEW s, IsChain(link, p, s) PROVE Chain(link, p) = s
  <1> DEFINE I == {i \in 0 .. SIZE : Walk(link, p, i) # Null}
  <1>1. s \in Seq(Node) /\ Len(s) \in 0 .. SIZE /\ SIZE \in Nat
    BY ChainLength, NullNoNode DEF IsChain
  <1>2. \A i \in Nat : Walk(link, p, i) = WalkAlong(s, i)
    BY WalkFollows
  <1>3. \A i \in Nat : WalkAlong(s, i) # Null <=> i < Len(s)
    <2>1. \A i \in 1 .. Len(s) : s[i] # Null
      BY <1>1, NullNoNode
    <2> QED BY <1>1, <2>1 DEF WalkAlong
  <1>4. I = 0 .. Len(s) - 1
    BY <1>1, <1>2, <1>3
  <1>5. Cardinality(I) = Len(s)
    <2> DEFINE b == Len(s) - 1
    <2>1. b \in Int /\ 0 \in Int
      BY <1>1
    <2> HIDE DEF b
    <2>2. Cardinality(0 .. b) = IF 0 > b THEN 0 ELSE b - 0 + 1
      BY <2>1, FS_Interval
    <2>3. b = Len(s) - 1
      BY DEF b
    <2> HIDE DEF I
    <2>4. I = 0 .. b
      BY <1>4, <2>3
    <2> QED BY <1>1, <2>2, <2>3, <2>4
  <1> HIDE DEF I
  <1>6. Chain(link, p) = [i \in 1 .. Cardinality(I) |-> Walk(link, p, i - 1)]
    BY DEF Chain, I
  <1>7. \A i \in 1 .. Len(s) : Walk(link, p, i - 1) = s[i]
    BY <1>1, <1>2 DEF WalkAlong
  <1>8. s = [i \in 1 .. Len(s) |-> s[i]]
    BY <1>1
  <1> QED BY <1>5, <1>6, <1>7, <1>8

\* Links that agree on the nodes of a chain have the same chain.
LEMMA ChainKept ==
    ASSUME NEW link, NEW p, NEW s, IsChain(link, p, s), NEW other,
           \A n \in Range(s) : other[n] = link[n]
    PROVE  IsChain(other, p, s)
  <1>1. \A i \in 1 .. Len(s) : s[i] \in Range(s)
    BY RangeByIndex DEF IsChain
  <1> QED BY <1>1 DEF IsChain

\* A chain without its first node.
LEMMA ChainTail ==
    ASSUME NEW link, NEW p, NEW s, IsChain(link, p, s), p # Null
    PROVE  /\ s # <<>> /\ p = Head(s) /\ p \in Range(s) /\ p \in Node
           /\ IsChain(link, link[p], Tail(s)) /\ Range(Tail(s)) = Range(s) \ {p}
           /\ Len(Tail(s)) = Len(s) - 1
  <1>1. /\ s # <<>> /\ s \in Seq(Node) /\ IsInjective(s) /\ p = s[1] /\ Len(s) \in Nat
        /\ \A i \in 1 .. Len(s) : link[s[i]] = IF i = Len(s) THEN Null ELSE s[i + 1]
    BY DEF IsChain
  <1> DEFINE r == Tail(s)
  <1>2. /\ p = Head(s) /\ Len(s) >= 1 /\ Len(r) = Len(s) - 1 /\ r \in Seq(Node)
        /\ \A i \in 1 .. Len(r) : r[i] = s[i + 1]
    BY <1>1
  <1>3. p \in Range(s) /\ p \in Node
    BY <1>1, <1>2, ListEmpty
  <1>4. IsInjective(r) /\ Range(r) = Range(s) \ {p}
    BY <1>1, <1>2, TailLinks
  <1> HIDE DEF r
  <1>5. r = <<>> <=> Len(s) = 1
    BY <1>1, <1>2
  <1>6. link[p] = IF r = <<>> THEN Null ELSE r[1]
    <2>1. link[p] = IF 1 = Len(s) THEN Null ELSE s[2]
      BY <1>1, <1>2
    <2>2. r # <<>> => r[1] = s[2]
      BY <1>1, <1>2, <1>5
    <2> QED BY <1>5, <2>1, <2>2
  <1>7. ASSUME NEW i \in 1 .. Len(r)
        PROVE  link[r[i]] = IF i = Len(r) THEN Null ELSE r[i + 1]
    <2>1. r[i] = s[i + 1] /\ i + 1 \in 1 .. Len(s)
      BY <1>1, <1>2
    <2>2. link[r[i]] = IF i + 1 = Len(s) THEN Null ELSE s[i + 1 + 1]
      BY <1>1, <2>1
    <2>3. i # Len(r) => r[i + 1] = s[i + 1 + 1]
      BY <1>1, <1>2
    <2> QED BY <1>1, <1>2, <2>2, <2>3
  <1>8. IsChain(link, link[p], r)
    BY <1>2, <1>4, <1>6, <1>7 DEF IsChain
  <1> QED BY <1>1, <1>2, <1>3, <1>4, <1>8 DEF r

\* A node linked before the first one.
LEMMA ChainPush ==
    ASSUME NEW link, NEW p, NEW s, IsChain(link, p, s), NEW n \in Node, n \notin Range(s),
           NEW other, other[n] = p, \A k \in Range(s) : other[k] = link[k]
    PROVE  /\ IsChain(other, n, <<n>> \o s) /\ Range(<<n>> \o s) = Range(s) \cup {n}
           /\ Len(<<n>> \o s) = Len(s) + 1
  <1> DEFINE r == <<n>> \o s
  <1>1. /\ s \in Seq(Node) /\ IsInjective(s) /\ Len(s) \in Nat
        /\ p = IF s = <<>> THEN Null ELSE s[1]
        /\ \A i \in 1 .. Len(s) : link[s[i]] = IF i = Len(s) THEN Null ELSE s[i + 1]
        /\ s = <<>> <=> Len(s) = 0
    BY DEF IsChain
  <1>2. r \in Seq(Node) /\ IsInjective(r) /\ Range(r) = Range(s) \cup {n}
    BY <1>1, InsertAfterLinks DEF InsertAfter
  <1>3. /\ Len(r) = Len(s) + 1 /\ r # <<>>
        /\ \A i \in 1 .. Len(s) + 1 : r[i] = IF i = 1 THEN n ELSE s[i - 1]
    BY <1>1
  <1>4. \A i \in 1 .. Len(s) : s[i] \in Range(s)
    BY <1>1, RangeByIndex
  <1> HIDE DEF r
  <1>5. ASSUME NEW i \in 1 .. Len(r)
        PROVE  other[r[i]] = IF i = Len(r) THEN Null ELSE r[i + 1]
    <2>1. CASE i = 1
      BY <1>1, <1>3, <2>1
    <2>2. CASE i # 1
      <3>1. i - 1 \in 1 .. Len(s) /\ r[i] = s[i - 1]
        BY <1>1, <1>3, <2>2
      <3>2. other[r[i]] = IF i - 1 = Len(s) THEN Null ELSE s[i - 1 + 1]
        BY <1>1, <1>4, <3>1
      <3>3. i # Len(r) => r[i + 1] = s[i - 1 + 1]
        BY <1>1, <1>3, <2>2
      <3> QED BY <1>1, <1>3, <3>2, <3>3
    <2> QED BY <2>1, <2>2
  <1>6. n = r[1]
    BY <1>1, <1>3
  <1>7. IsChain(other, n, r)
    BY <1>2, <1>3, <1>5, <1>6 DEF IsChain
  <1> QED BY <1>2, <1>3, <1>7 DEF r

\* The last node of a list, or Null.
LastOf(s) == IF s = <<>> THEN Null ELSE s[Len(s)]

\* A node linked after the last one.
LEMMA ChainAppend ==
    ASSUME NEW link, NEW p, NEW s, IsChain(link, p, s), NEW n \in Node, n \notin Range(s),
           NEW other, other[n] = Null, s # <<>> => other[LastOf(s)] = n,
           \A k \in Range(s) : k # LastOf(s) => other[k] = link[k]
    PROVE  /\ IsChain(other, IF s = <<>> THEN n ELSE p, Append(s, n))
           /\ Range(Append(s, n)) = Range(s) \cup {n} /\ Len(Append(s, n)) = Len(s) + 1
           /\ LastOf(Append(s, n)) = n
  <1> DEFINE r == Append(s, n)
  <1>1. /\ s \in Seq(Node) /\ IsInjective(s) /\ Len(s) \in Nat
        /\ p = IF s = <<>> THEN Null ELSE s[1]
        /\ \A i \in 1 .. Len(s) : link[s[i]] = IF i = Len(s) THEN Null ELSE s[i + 1]
        /\ s = <<>> <=> Len(s) = 0
    BY DEF IsChain
  <1>2. r \in Seq(Node) /\ IsInjective(r) /\ Range(r) = Range(s) \cup {n}
    BY <1>1, InsertBeforeLinks DEF InsertBefore
  <1>3. /\ Len(r) = Len(s) + 1 /\ r # <<>>
        /\ \A i \in 1 .. Len(s) + 1 : r[i] = IF i = Len(s) + 1 THEN n ELSE s[i]
    <2> DEFINE m == Len(s) + 1
    <2>1. m \in Nat /\ r \in Seq(Node) /\ Len(r) = m
          /\ \A i \in 1 .. m : r[i] = IF i = m THEN n ELSE s[i]
      BY <1>1
    <2> HIDE DEF r
    <2> QED BY <1>1, <2>1
  <1>4. \A i \in 1 .. Len(s) : s[i] \in Range(s) /\ (s[i] = LastOf(s) => i = Len(s))
    <2>1. \A i, j \in 1 .. Len(s) : s[i] = s[j] => i = j
      BY <1>1 DEF IsInjective
    <2> QED BY <1>1, <2>1, RangeByIndex DEF LastOf
  <1> HIDE DEF r
  <1>5. ASSUME NEW i \in 1 .. Len(r)
        PROVE  other[r[i]] = IF i = Len(r) THEN Null ELSE r[i + 1]
    <2>1. CASE i = Len(s) + 1
      BY <1>1, <1>3, <2>1
    <2>2. CASE i # Len(s) + 1
      <3>1. i \in 1 .. Len(s) /\ r[i] = s[i] /\ i # Len(r) /\ s # <<>>
        BY <1>1, <1>3, <2>2
      <3>2. CASE i = Len(s)
        <4>1. s[i] = LastOf(s) /\ r[i + 1] = n
          BY <1>1, <1>3, <3>1, <3>2 DEF LastOf
        <4> QED BY <3>1, <4>1
      <3>3. CASE i # Len(s)
        <4>1. other[s[i]] = link[s[i]] /\ link[s[i]] = s[i + 1] /\ r[i + 1] = s[i + 1]
          BY <1>1, <1>3, <1>4, <3>1, <3>3
        <4> QED BY <3>1, <4>1
      <3> QED BY <3>2, <3>3
    <2> QED BY <2>1, <2>2
  <1>6. (IF s = <<>> THEN n ELSE p) = r[1] /\ LastOf(r) = n
    BY <1>1, <1>3 DEF LastOf
  <1>7. IsChain(other, IF s = <<>> THEN n ELSE p, r)
    BY <1>2, <1>3, <1>5, <1>6 DEF IsChain
  <1> QED BY <1>2, <1>3, <1>6, <1>7 DEF r

\* A list of nodes given back one by one: the last one is the first of the new chain.
GivenBack(q, f) ==
    [i \in 1 .. Len(q) + Len(f) |-> IF i <= Len(q) THEN q[Len(q) + 1 - i] ELSE f[i - Len(q)]]

\* A detach gives the nodes of the queue back to the free chain one by one, the last first.
LEMMA ChainGivenBack ==
    ASSUME NEW link, NEW p, NEW f, IsChain(link, p, f), NEW q \in Seq(Node), IsInjective(q),
           Range(q) \cap Range(f) = {}, NEW other,
           \A n \in Range(f) : other[n] = link[n],
           \A i \in 1 .. Len(q) : other[q[i]] = IF i = 1 THEN p ELSE q[i - 1]
    PROVE  /\ IsChain(other, IF q = <<>> THEN p ELSE q[Len(q)], GivenBack(q, f))
           /\ Range(GivenBack(q, f)) = Range(q) \cup Range(f)
           /\ Len(GivenBack(q, f)) = Len(q) + Len(f)
  <1> DEFINE r == GivenBack(q, f)
             m == Len(q) + Len(f)
  <1>1. /\ f \in Seq(Node) /\ IsInjective(f) /\ Len(f) \in Nat /\ Len(q) \in Nat
        /\ p = IF f = <<>> THEN Null ELSE f[1]
        /\ \A i \in 1 .. Len(f) : link[f[i]] = IF i = Len(f) THEN Null ELSE f[i + 1]
        /\ (f = <<>> <=> Len(f) = 0) /\ (q = <<>> <=> Len(q) = 0)
    BY DEF IsChain
  <1>2. /\ \A i, j \in 1 .. Len(f) : f[i] = f[j] => i = j
        /\ \A i, j \in 1 .. Len(q) : q[i] = q[j] => i = j
        /\ \A i \in 1 .. Len(f) : f[i] \in Range(f) /\ f[i] \in Node
        /\ \A i \in 1 .. Len(q) : q[i] \in Range(q) /\ q[i] \in Node
    BY <1>1, RangeByIndex DEF IsInjective
  <1>3. /\ m \in Nat /\ m = Len(q) + Len(f)
        /\ \A i \in 1 .. m : r[i] = IF i <= Len(q) THEN q[Len(q) + 1 - i] ELSE f[i - Len(q)]
        /\ DOMAIN r = 1 .. m /\ r = [i \in 1 .. m |-> r[i]]
    BY <1>1 DEF GivenBack
  <1> HIDE DEF r, m
  <1>4. \A i \in 1 .. m : IF i <= Len(q) THEN Len(q) + 1 - i \in 1 .. Len(q)
                          ELSE i - Len(q) \in 1 .. Len(f)
    BY <1>1, <1>3
  <1>5. \A i \in 1 .. m : r[i] \in Node
    BY <1>2, <1>3, <1>4
  <1>6. r \in Seq(Node) /\ Len(r) = m
    BY <1>3, <1>5
  <1>7. IsInjective(r)
    <2>1. ASSUME NEW i \in 1 .. m, NEW j \in 1 .. m, r[i] = r[j] PROVE i = j
      <3>1. CASE i <= Len(q) /\ j <= Len(q)
        <4>1. Len(q) + 1 - i = Len(q) + 1 - j
          BY <1>2, <1>3, <1>4, <2>1, <3>1
        <4> QED BY <1>1, <1>3, <4>1
      <3>2. CASE ~(i <= Len(q)) /\ ~(j <= Len(q))
        <4>1. i - Len(q) = j - Len(q)
          BY <1>2, <1>3, <1>4, <2>1, <3>2
        <4> QED BY <1>1, <1>3, <4>1
      <3>3. CASE i <= Len(q) /\ ~(j <= Len(q))
        BY <1>2, <1>3, <1>4, <2>1, <3>3
      <3>4. CASE ~(i <= Len(q)) /\ j <= Len(q)
        BY <1>2, <1>3, <1>4, <2>1, <3>4
      <3> QED BY <3>1, <3>2, <3>3, <3>4
    <2> QED BY <1>3, <2>1 DEF IsInjective
  <1>8. Range(r) = Range(q) \cup Range(f)
    <2>1. ASSUME NEW x \in Range(r) PROVE x \in Range(q) \cup Range(f)
      <3>1. PICK i \in 1 .. m : r[i] = x
        BY <1>6, <2>1, RangeByIndex
      <3> QED BY <1>2, <1>3, <1>4, <3>1
    <2>2. ASSUME NEW x \in Range(q) PROVE x \in Range(r)
      <3>1. PICK i \in 1 .. Len(q) : q[i] = x
        BY <2>2, RangeByIndex
      <3> DEFINE j == Len(q) + 1 - i
      <3>2. j \in 1 .. m /\ j <= Len(q) /\ Len(q) + 1 - j = i
        BY <1>1, <1>3
      <3> HIDE DEF j
      <3>3. r[j] = x
        BY <1>3, <3>1, <3>2
      <3> QED BY <1>6, <3>2, <3>3, RangeByIndex
    <2>3. ASSUME NEW x \in Range(f) PROVE x \in Range(r)
      <3>1. PICK i \in 1 .. Len(f) : f[i] = x
        BY <1>1, <2>3, RangeByIndex
      <3> DEFINE j == Len(q) + i
      <3>2. j \in 1 .. m /\ ~(j <= Len(q)) /\ j - Len(q) = i
        BY <1>1, <1>3
      <3> HIDE DEF j
      <3>3. r[j] = x
        BY <1>3, <3>1, <3>2
      <3> QED BY <1>6, <3>2, <3>3, RangeByIndex
    <2> QED BY <2>1, <2>2, <2>3
  <1>9. ASSUME NEW i \in 1 .. m
        PROVE  other[r[i]] = IF i = m THEN Null ELSE r[i + 1]
    <2>1. CASE i < Len(q)
      <3>1. /\ Len(q) + 1 - i \in 1 .. Len(q) /\ Len(q) + 1 - i # 1
            /\ i + 1 \in 1 .. m /\ i # m /\ Len(q) + 1 - (i + 1) = Len(q) + 1 - i - 1
            /\ i + 1 <= Len(q) /\ i <= Len(q)
        <4>1. Len(q) \in Nat /\ Len(f) \in Nat /\ m = Len(q) + Len(f) /\ i \in 1 .. m
          BY <1>1, <1>3
        <4> QED BY ONLY <2>1, <4>1
      <3>2. r[i] = q[Len(q) + 1 - i] /\ r[i + 1] = q[Len(q) + 1 - i - 1]
        BY <1>3, <3>1
      <3>3. other[q[Len(q) + 1 - i]] = q[Len(q) + 1 - i - 1]
        BY <3>1
      <3> QED BY <3>1, <3>2, <3>3
    <2>2. CASE i = Len(q)
      <3>1. Len(q) + 1 - i = 1 /\ i <= Len(q) /\ 1 \in 1 .. Len(q)
        BY <1>1, <2>2
      <3>2. r[i] = q[1] /\ other[q[1]] = p
        BY <1>3, <3>1
      <3>3. CASE Len(f) = 0
        BY <1>1, <1>3, <2>2, <3>2, <3>3
      <3>4. CASE Len(f) # 0
        <4>1. i + 1 \in 1 .. m /\ ~(i + 1 <= Len(q)) /\ i + 1 - Len(q) = 1 /\ i # m
          BY <1>1, <1>3, <2>2, <3>4
        <4>2. r[i + 1] = f[1]
          BY <1>3, <4>1
        <4> QED BY <1>1, <3>2, <3>4, <4>1, <4>2
      <3> QED BY <3>3, <3>4
    <2>3. CASE i > Len(q)
      <3> DEFINE k == i - Len(q)
      <3>1. k \in 1 .. Len(f) /\ ~(i <= Len(q)) /\ (k = Len(f) <=> i = m)
        BY <1>1, <1>3, <2>3
      <3>2. r[i] = f[k] /\ other[f[k]] = link[f[k]]
        BY <1>2, <1>3, <3>1
      <3>3. ASSUME i # m PROVE r[i + 1] = f[k + 1]
        <4>1. i + 1 \in 1 .. m /\ ~(i + 1 <= Len(q)) /\ i + 1 - Len(q) = k + 1
          BY <1>1, <1>3, <2>3, <3>3
        <4> HIDE DEF k
        <4> QED BY <1>3, <4>1
      <3> HIDE DEF k
      <3> QED BY <1>1, <3>1, <3>2, <3>3
    <2> QED BY <1>1, <1>3, <2>1, <2>2, <2>3
  <1>10. (IF q = <<>> THEN p ELSE q[Len(q)]) = IF r = <<>> THEN Null ELSE r[1]
    <2>1. r = <<>> <=> m = 0
      BY <1>3, <1>6
    <2>2. CASE q = <<>>
      <3>1. Len(q) = 0 /\ m = Len(f)
        BY <1>1, <1>3, <2>2
      <3>2. m # 0 => r[1] = f[1]
        BY <1>1, <1>3, <3>1
      <3> QED BY <1>1, <2>1, <2>2, <3>1, <3>2
    <2>3. CASE q # <<>>
      <3>1. 1 \in 1 .. m /\ 1 <= Len(q) /\ Len(q) + 1 - 1 = Len(q) /\ m # 0
        BY <1>1, <1>3, <2>3
      <3>2. r[1] = q[Len(q)]
        BY <1>3, <3>1
      <3> QED BY <2>1, <2>3, <3>1, <3>2
    <2> QED BY <2>2, <2>3
  <1>11. IsChain(other, IF q = <<>> THEN p ELSE q[Len(q)], r)
    BY <1>6, <1>7, <1>9, <1>10 DEF IsChain
  <1> QED BY <1>3, <1>6, <1>8, <1>11 DEF r

\* The free list rt_mq_init makes has all nodes, the last one first.
FreshChain == [i \in 1 .. SIZE |-> SIZE + 1 - i]

\* The free chain that rt_mq_init builds holds every node once.
LEMMA FreshChainIs ==
    /\ IsChain(FreshLinks, SIZE, FreshChain)
    /\ Range(FreshChain) = Node /\ Len(FreshChain) = SIZE
    /\ FreshLinks \in [Node -> Node \cup {Null}]
  <1> DEFINE s == FreshChain
  <1>1. SIZE \in Nat /\ SIZE >= 1 /\ Node = 1 .. SIZE
    BY NullNoNode DEF Node
  <1>2. /\ \A i \in 1 .. SIZE : s[i] = SIZE + 1 - i /\ s[i] \in Node
        /\ s = [i \in 1 .. SIZE |-> s[i]] /\ DOMAIN s = 1 .. SIZE
    BY <1>1 DEF FreshChain
  <1>3. \A n \in Node : FreshLinks[n] = IF n = 1 THEN Null ELSE n - 1
    BY DEF FreshLinks
  <1> HIDE DEF s
  <1>4. s \in Seq(Node) /\ Len(s) = SIZE
    BY <1>1, <1>2
  <1>5. IsInjective(s)
    <2>1. ASSUME NEW i \in 1 .. SIZE, NEW j \in 1 .. SIZE, s[i] = s[j] PROVE i = j
      <3>1. SIZE + 1 - i = SIZE + 1 - j
        BY <1>2, <2>1
      <3> QED BY <1>1, <3>1
    <2> QED BY <1>2, <2>1 DEF IsInjective
  <1>6. Range(s) = Node
    <2>1. Range(s) \subseteq Node
      BY <1>4, ListEmpty
    <2>2. ASSUME NEW n \in Node PROVE n \in Range(s)
      <3> DEFINE i == SIZE + 1 - n
      <3>1. i \in 1 .. SIZE /\ SIZE + 1 - i = n
        BY <1>1
      <3> HIDE DEF i
      <3>2. s[i] = n
        BY <1>2, <3>1
      <3> QED BY <1>4, <3>1, <3>2, RangeByIndex
    <2> QED BY <2>1, <2>2
  <1>7. SIZE = IF s = <<>> THEN Null ELSE s[1]
    <2>1. 1 \in 1 .. SIZE /\ SIZE + 1 - 1 = SIZE
      BY <1>1
    <2>2. s[1] = SIZE /\ s # <<>>
      BY <1>1, <1>2, <1>4, <2>1
    <2> QED BY <2>2
  <1>8. ASSUME NEW i \in 1 .. SIZE
        PROVE  FreshLinks[s[i]] = IF i = SIZE THEN Null ELSE s[i + 1]
    <2>1. s[i] = SIZE + 1 - i /\ s[i] \in Node
      BY <1>2
    <2>2. i # SIZE => i + 1 \in 1 .. SIZE /\ SIZE + 1 - (i + 1) = SIZE + 1 - i - 1
      BY <1>1
    <2>3. i # SIZE => s[i + 1] = SIZE + 1 - i - 1
      BY <1>2, <2>2
    <2>4. SIZE + 1 - i = 1 <=> i = SIZE
      BY <1>1
    <2>5. FreshLinks[s[i]] = IF s[i] = 1 THEN Null ELSE s[i] - 1
      BY <1>3, <2>1
    <2>6. s[i] = 1 <=> i = SIZE
      BY <2>1, <2>4
    <2>7. i # SIZE => s[i + 1] = s[i] - 1
      BY <1>1, <2>1, <2>3
    <2> QED BY <2>5, <2>6, <2>7
  <1>9. FreshLinks \in [Node -> Node \cup {Null}]
    BY <1>1 DEF FreshLinks
  <1> QED BY <1>4, <1>5, <1>6, <1>7, <1>8, <1>9 DEF IsChain, s

-----------------------------------------------------------------------------
(* The message queue: what the nodes of a chain hold.                       *)

\* The messages in the nodes of s.
Messages(d, s) == [i \in 1 .. Len(s) |-> d[s[i]]]

\* What the nodes of a chain hold, one by one.
LEMMA MessagesTyped ==
    ASSUME NEW d \in [Node -> Value], NEW s \in Seq(Node)
    PROVE  /\ Messages(d, s) \in Seq(Value) /\ Len(Messages(d, s)) = Len(s)
           /\ \A i \in 1 .. Len(s) : Messages(d, s)[i] = d[s[i]]
  <1>1. \A i \in 1 .. Len(s) : d[s[i]] \in Value
    OBVIOUS
  <1>2. Len(s) \in Nat /\ Messages(d, s) \in [1 .. Len(s) -> Value]
    BY <1>1 DEF Messages
  <1> QED BY <1>2 DEF Messages

\* A walk finds the messages in order.
LEMMA WalkMessages ==
    ASSUME NEW link, NEW p, NEW s, IsChain(link, p, s), NEW d
    PROVE  [i \in 1 .. Len(s) |-> d[Walk(link, p, i - 1)]] = Messages(d, s)
  <1>1. Len(s) \in Nat
    BY DEF IsChain
  <1>2. \A i \in 1 .. Len(s) : Walk(link, p, i - 1) = s[i]
    <2> SUFFICES ASSUME NEW i \in 1 .. Len(s) PROVE Walk(link, p, i - 1) = s[i]
      OBVIOUS
    <2>1. i - 1 \in Nat /\ i - 1 < Len(s) /\ i - 1 + 1 = i
      BY <1>1
    <2>2. Walk(link, p, i - 1) = WalkAlong(s, i - 1)
      BY <2>1, WalkFollows
    <2> QED BY <2>1, <2>2 DEF WalkAlong
  <1> QED BY <1>2 DEF Messages

\* Messages in other nodes do not matter.
LEMMA MessagesKept ==
    ASSUME NEW s \in Seq(Node), NEW d, NEW other, \A n \in Range(s) : other[n] = d[n]
    PROVE  Messages(other, s) = Messages(d, s)
  <1>1. \A i \in 1 .. Len(s) : s[i] \in Range(s)
    BY RangeByIndex
  <1> QED BY <1>1 DEF Messages

\* A node linked at the tail is the last message.
LEMMA MessagesAppend ==
    ASSUME NEW d \in [Node -> Value], NEW s \in Seq(Node), NEW n \in Node
    PROVE  Messages(d, Append(s, n)) = Append(Messages(d, s), d[n])
  <1> DEFINE r == Append(s, n)
             a == Messages(d, r)
             b == Append(Messages(d, s), d[n])
             m == Len(s) + 1
  <1>1. m \in Nat /\ r \in Seq(Node) /\ Len(r) = m /\ Len(s) \in Nat
        /\ \A i \in 1 .. m : r[i] = IF i = m THEN n ELSE s[i]
    OBVIOUS
  <1>2. /\ Messages(d, s) \in Seq(Value) /\ Len(Messages(d, s)) = Len(s) /\ d[n] \in Value
        /\ \A i \in 1 .. Len(s) : Messages(d, s)[i] = d[s[i]]
    BY MessagesTyped
  <1>3. b \in Seq(Value) /\ Len(b) = m
        /\ \A i \in 1 .. m : b[i] = IF i = m THEN d[n] ELSE Messages(d, s)[i]
    BY <1>2
  <1> HIDE DEF r, b
  <1>4. a \in Seq(Value) /\ Len(a) = m /\ \A i \in 1 .. m : a[i] = d[r[i]]
    BY <1>1, MessagesTyped
  <1> HIDE DEF a
  <1>5. \A i \in 1 .. m : a[i] = b[i]
    <2> SUFFICES ASSUME NEW i \in 1 .. m PROVE a[i] = b[i]
      OBVIOUS
    <2>1. CASE i = m
      BY <1>1, <1>3, <1>4, <2>1
    <2>2. CASE i # m
      <3>1. i \in 1 .. Len(s)
        BY <1>1, <2>2
      <3> QED BY <1>1, <1>2, <1>3, <1>4, <2>2, <3>1
    <2> QED BY <2>1, <2>2
  <1>6. a = b
    BY <1>3, <1>4, <1>5, SeqEqual
  <1> QED BY <1>6 DEF a, b, r

\* A node linked at the head is the next message.
LEMMA MessagesPush ==
    ASSUME NEW d \in [Node -> Value], NEW s \in Seq(Node), NEW n \in Node
    PROVE  Messages(d, <<n>> \o s) = <<d[n]>> \o Messages(d, s)
  <1> DEFINE r == <<n>> \o s
             a == Messages(d, r)
             b == <<d[n]>> \o Messages(d, s)
  <1>1. /\ r \in Seq(Node) /\ Len(r) = Len(s) + 1 /\ Len(s) \in Nat
        /\ \A i \in 1 .. Len(s) + 1 : r[i] = IF i = 1 THEN n ELSE s[i - 1]
    OBVIOUS
  <1>2. /\ Messages(d, s) \in Seq(Value) /\ Len(Messages(d, s)) = Len(s) /\ d[n] \in Value
        /\ \A i \in 1 .. Len(s) : Messages(d, s)[i] = d[s[i]]
    BY MessagesTyped
  <1>3. /\ b \in Seq(Value) /\ Len(b) = Len(s) + 1
        /\ \A i \in 1 .. Len(s) + 1 : b[i] = IF i = 1 THEN d[n] ELSE Messages(d, s)[i - 1]
    BY <1>2
  <1> HIDE DEF r, b
  <1>4. a \in Seq(Value) /\ Len(a) = Len(s) + 1 /\ \A i \in 1 .. Len(s) + 1 : a[i] = d[r[i]]
    BY <1>1, MessagesTyped
  <1> HIDE DEF a
  <1>5. \A i \in 1 .. Len(s) + 1 : a[i] = b[i]
    <2> SUFFICES ASSUME NEW i \in 1 .. Len(s) + 1 PROVE a[i] = b[i]
      OBVIOUS
    <2>1. CASE i = 1
      BY <1>1, <1>3, <1>4, <2>1
    <2>2. CASE i # 1
      <3>1. i - 1 \in 1 .. Len(s)
        BY <1>1, <2>2
      <3>2. a[i] = d[s[i - 1]]
        BY <1>1, <1>4, <2>2
      <3>3. b[i] = Messages(d, s)[i - 1]
        BY <1>3, <2>2
      <3>4. Messages(d, s)[i - 1] = d[s[i - 1]]
        BY <1>2, <3>1
      <3> QED BY <3>2, <3>3, <3>4
    <2> QED BY <2>1, <2>2
  <1>6. a = b
    BY <1>3, <1>4, <1>5, SeqEqual
  <1> QED BY <1>6 DEF a, b, r

\* The first node unlinked held the next message.
LEMMA MessagesTail ==
    ASSUME NEW d \in [Node -> Value], NEW s \in Seq(Node), s # <<>>
    PROVE  /\ Messages(d, s) # <<>> /\ Head(Messages(d, s)) = d[Head(s)]
           /\ Messages(d, Tail(s)) = Tail(Messages(d, s))
  <1> DEFINE r == Tail(s)
             c == Messages(d, s)
             a == Messages(d, r)
             b == Tail(c)
             m == Len(s) - 1
  <1>1. /\ m \in Nat /\ r \in Seq(Node) /\ Len(r) = m /\ Len(s) \in Nat /\ Head(s) = s[1]
        /\ \A i \in 1 .. m : r[i] = s[i + 1]
    OBVIOUS
  <1>2. /\ c \in Seq(Value) /\ Len(c) = Len(s)
        /\ \A i \in 1 .. Len(s) : c[i] = d[s[i]]
    BY MessagesTyped
  <1> HIDE DEF c, r
  <1>3. c # <<>> /\ Head(c) = d[Head(s)]
    BY <1>1, <1>2
  <1>4. b \in Seq(Value) /\ Len(b) = m /\ \A i \in 1 .. m : b[i] = c[i + 1]
    BY <1>2, <1>3
  <1> HIDE DEF b
  <1>5. a \in Seq(Value) /\ Len(a) = m /\ \A i \in 1 .. m : a[i] = d[r[i]]
    BY <1>1, MessagesTyped
  <1> HIDE DEF a
  <1>6. \A i \in 1 .. m : a[i] = b[i]
    <2> SUFFICES ASSUME NEW i \in 1 .. m PROVE a[i] = b[i]
      OBVIOUS
    <2>1. i + 1 \in 1 .. Len(s)
      BY <1>1
    <2> QED BY <1>1, <1>2, <1>4, <1>5, <2>1
  <1>7. a = b
    BY <1>4, <1>5, <1>6, SeqEqual
  <1> QED BY <1>3, <1>7 DEF a, b, c, r

-----------------------------------------------------------------------------
(* The message queue: the invariant.                                        *)

\* The threads with a node in their hands.
Busy == {t \in Thread : node[t] # Null}

\* Every node is in the queue q, in the free list f or in the hands of one thread.
NodesSound(q, f) ==
    /\ IsChain(next, msg_queue_head, q) /\ IsChain(next, msg_queue_free, f)
    /\ Range(q) \cap Range(f) = {}
    /\ \A t \in Thread : node[t] \notin Range(q) /\ node[t] \notin Range(f)
    /\ \A t, u \in Busy : node[t] = node[u] => t = u
    /\ \A n \in Node : n \in Range(q) \/ n \in Range(f) \/ \E t \in Busy : node[t] = n
    /\ Len(q) + Len(f) + Cardinality(Busy) = SIZE
    /\ entry = Len(q) /\ msg_queue_tail = LastOf(q)

\* Who has a node is in a call and does not sleep; a node that is about to be linked at
\* the end of the queue ends there, and one that is about to be linked holds its message.
HandsSound ==
    /\ \A t \in Busy : pc[t] # "user" /\ t \notin asleep
    /\ copied \subseteq Busy
    /\ \A t \in copied : pc[t] = "put" => next[node[t]] = Null
    /\ \A t \in copied : pc[t] # "take" => data[node[t]] = arg[t]

PoolTypeOK ==
    /\ next \in [Node -> Node \cup {Null}] /\ data \in [Node -> Value]
    /\ node \in [Thread -> Node \cup {Null}] /\ copied \subseteq Thread

\* The inductive invariant of the message queue.
MqIInv ==
    /\ PoolTypeOK /\ CallsOK /\ HandsSound
    /\ \E q, f \in Seq(Node) : NodesSound(q, f) /\ Wakeups(entry, Len(f))

\* What the queue is, in this state and in the next one.
LEMMA MqQueueIs ==
    ASSUME NEW q, NEW f, NodesSound(q, f) PROVE mqQueue = Messages(data, q)
  BY WalkMessages DEF NodesSound, mqQueue

\* The walk along the queue in the next state.
LEMMA MqNextQueueIs ==
    ASSUME NEW q, NEW f, NodesSound(q, f)' PROVE mqQueue' = Messages(data', q)
  <1>1. IsChain(next', msg_queue_head', q) /\ entry' = Len(q)
    BY DEF NodesSound
  <1> QED BY <1>1, WalkMessages DEF mqQueue

\* The nodes are accounted for.
LEMMA NodesAreAccounted == ASSUME MqIInv PROVE NodesAccounted /\ MqTypeOK /\ MqNoLostWakeup
  <1>1. PICK q, f \in Seq(Node) : NodesSound(q, f) /\ Wakeups(entry, Len(f))
    BY DEF MqIInv
  <1>2. Chain(next, msg_queue_head) = q /\ Chain(next, msg_queue_free) = f
    BY <1>1, ChainIs DEF NodesSound
  <1>3. Len(q) \in 0 .. SIZE
    BY <1>1, ChainLength DEF NodesSound, IsChain
  <1>4. {node[t] : t \in Busy} \subseteq Node /\ Range(q) \subseteq Node /\ Range(f) \subseteq Node
    BY <1>1, ListEmpty DEF Busy, MqIInv, PoolTypeOK
  <1>5. Range(q) \cup Range(f) \cup {node[t] : t \in Busy} = Node
    BY <1>1, <1>4 DEF NodesSound
  <1>6. NodesAccounted
    BY <1>1, <1>2, <1>5 DEF NodesAccounted, NodesSound, Busy, LastOf
  <1>7. {msg_queue_head, msg_queue_tail, msg_queue_free} \subseteq Node \cup {Null}
    BY <1>1 DEF NodesSound, IsChain, LastOf
  <1>8. MqTypeOK
    BY <1>1, <1>3, <1>7 DEF MqTypeOK, MqIInv, PoolTypeOK, CallsOK, NodesSound
  <1>9. MqNoLostWakeup
    BY <1>1, <1>2 DEF MqNoLostWakeup, Wakeups
  <1> QED BY <1>6, <1>8, <1>9

-----------------------------------------------------------------------------
(* The message queue: each action keeps the invariant and is a step of the   *)
(* queue, or none.                                                          *)

\* A step of the queue, or none.
MqQueueStep == MqQueue!Next \/ UNCHANGED <<mqQueue, mqCall>>

\* t takes a node, or lets go of the one it has.
LEMMA HandFills ==
    ASSUME PoolTypeOK, NEW t \in Thread, node[t] = Null, NEW n \in Node,
           node' = [node EXCEPT ![t] = n]
    PROVE  /\ Busy' = Busy \cup {t} /\ t \notin Busy
           /\ Cardinality(Busy) \in Nat /\ Cardinality(Busy') = Cardinality(Busy) + 1
           /\ \A u \in Thread : node'[u] = IF u = t THEN n ELSE node[u]
           /\ node' \in [Thread -> Node \cup {Null}]
  <1>1. \A u \in Thread : node'[u] = IF u = t THEN n ELSE node[u]
    BY DEF PoolTypeOK
  <1>2. Busy' = Busy \cup {t} /\ t \notin Busy
    BY <1>1, NullNoNode DEF Busy
  <1>3. Busy \in SUBSET Thread
    BY DEF Busy
  <1> HIDE DEF Busy
  <1>4. IsFiniteSet(Busy) /\ Cardinality(Busy) \in Nat
    BY <1>3, OnTheWayCounted
  <1>5. Cardinality(Busy \cup {t}) = Cardinality(Busy) + 1
    BY <1>2, <1>4, FS_AddElement
  <1> QED BY <1>1, <1>2, <1>4, <1>5 DEF PoolTypeOK

\* A thread that puts its node down is not between two sections any more.
LEMMA HandEmpties ==
    ASSUME PoolTypeOK, NEW t \in Thread, t \in Busy, HandsEmpty(t)
    PROVE  /\ Busy' = Busy \ {t} /\ copied' = copied \ {t} /\ node[t] \in Node
           /\ Cardinality(Busy) \in Nat /\ Cardinality(Busy') = Cardinality(Busy) - 1
           /\ \A u \in Thread : node'[u] = IF u = t THEN Null ELSE node[u]
           /\ node' \in [Thread -> Node \cup {Null}] /\ copied' \subseteq Thread
  <1>1. /\ \A u \in Thread : node'[u] = IF u = t THEN Null ELSE node[u]
        /\ copied' = copied \ {t} /\ node' \in [Thread -> Node \cup {Null}]
        /\ copied' \subseteq Thread
    BY DEF PoolTypeOK, HandsEmpty
  <1>2. Busy' = Busy \ {t} /\ node[t] \in Node
    BY <1>1 DEF Busy, PoolTypeOK
  <1>3. Busy \in SUBSET Thread
    BY DEF Busy
  <1> HIDE DEF Busy
  <1>4. IsFiniteSet(Busy) /\ Cardinality(Busy) \in Nat
    BY <1>3, OnTheWayCounted
  <1>5. Cardinality(Busy \ {t}) = Cardinality(Busy) - 1
    BY <1>4, FS_RemoveElement
  <1> QED BY <1>1, <1>2, <1>4, <1>5

\* What the queue sees of a thread, and of a step that changes that for one.
LEMMA MqCallOf ==
    ASSUME NEW t \in Thread
    PROVE  /\ pc[t] = "user" => mqCall[t] = result[t]
           /\ pc[t] = "take" /\ node[t] = Null => mqCall[t] = <<"take">>
           /\ pc[t] \in {"put", "urgent"} => mqCall[t] = <<pc[t], arg[t]>>
  BY DEF mqCall

\* The calls seen by the abstract queue stay when each thread's does,
LEMMA MqCallKept ==
    ASSUME \A u \in Thread : mqCall'[u] = mqCall[u] PROVE mqCall' = mqCall
  <1>1. mqCall' = [u \in Thread |-> mqCall'[u]] /\ mqCall = [u \in Thread |-> mqCall[u]]
    BY DEF mqCall
  <1> HIDE DEF mqCall
  <1> QED BY <1>1

\* and one of them changes when that of one thread does.
LEMMA MqCallChanges ==
    ASSUME NEW t \in Thread, NEW r, \A u \in Thread : mqCall'[u] = IF u = t THEN r ELSE mqCall[u]
    PROVE  mqCall' = [mqCall EXCEPT ![t] = r]
  <1>1. mqCall' = [u \in Thread |-> mqCall'[u]] /\ mqCall = [u \in Thread |-> mqCall[u]]
    BY DEF mqCall
  <1> HIDE DEF mqCall
  <1> QED BY <1>1

\* A sender takes the first free node.
LEMMA GrabStep == ASSUME MqIInv, NEW t \in Thread, Grab(t) PROVE MqIInv' /\ MqQueueStep
  <1>1. /\ pc[t] \in {"put", "urgent"} /\ Looks(t) /\ node[t] = Null /\ msg_queue_free # Null
        /\ node' = [node EXCEPT ![t] = msg_queue_free]
        /\ msg_queue_free' = next[msg_queue_free] /\ asleep' = asleep \ {t}
        /\ UNCHANGED <<next, data, msg_queue_head, msg_queue_tail, entry, copied>>
        /\ UNCHANGED <<lists, object, pc, arg, timeout, result, blocking>>
    BY DEF Grab, queueVars
  <1>2. PoolTypeOK /\ CallsOK /\ HandsSound
    BY DEF MqIInv
  <1>3. PICK q, f \in Seq(Node) : NodesSound(q, f) /\ Wakeups(entry, Len(f))
    BY DEF MqIInv
  <1> DEFINE n == msg_queue_free
  <1>4. /\ IsChain(next, msg_queue_head, q) /\ IsChain(next, n, f)
        /\ Range(q) \cap Range(f) = {}
        /\ \A u \in Thread : node[u] \notin Range(q) /\ node[u] \notin Range(f)
        /\ \A u, w \in Busy : node[u] = node[w] => u = w
        /\ \A k \in Node : k \in Range(q) \/ k \in Range(f) \/ \E u \in Busy : node[u] = k
        /\ Len(q) + Len(f) + Cardinality(Busy) = SIZE
        /\ entry = Len(q) /\ msg_queue_tail = LastOf(q)
    BY <1>3 DEF NodesSound
  <1>5. /\ f # <<>> /\ n \in Range(f) /\ n \in Node /\ IsChain(next, next[n], Tail(f))
        /\ Range(Tail(f)) = Range(f) \ {n} /\ Len(Tail(f)) = Len(f) - 1
        /\ Tail(f) \in Seq(Node) /\ Len(f) \in Nat /\ Len(q) \in Nat
    BY <1>1, <1>4, ChainTail
  <1>6. /\ Busy' = Busy \cup {t} /\ t \notin Busy
        /\ Cardinality(Busy) \in Nat /\ Cardinality(Busy') = Cardinality(Busy) + 1
        /\ \A u \in Thread : node'[u] = IF u = t THEN n ELSE node[u]
        /\ node' \in [Thread -> Node \cup {Null}]
    BY <1>1, <1>2, <1>5, HandFills
  <1>7. Busy \subseteq Thread
    BY DEF Busy
  <1> HIDE DEF n, Busy
  <1>8. NodesSound(q, Tail(f))'
    <2>1. /\ IsChain(next', msg_queue_head', q) /\ IsChain(next', msg_queue_free', Tail(f))
          /\ Range(q) \cap Range(Tail(f)) = {}
      BY <1>1, <1>4, <1>5 DEF n
    <2>2. \A u \in Thread : node'[u] \notin Range(q) /\ node'[u] \notin Range(Tail(f))
      BY <1>4, <1>5, <1>6
    <2>3. \A u, w \in Busy' : node'[u] = node'[w] => u = w
      BY <1>4, <1>5, <1>6, <1>7
    <2>4. \A k \in Node : k \in Range(q) \/ k \in Range(Tail(f)) \/ \E u \in Busy' : node'[u] = k
      BY <1>4, <1>5, <1>6, <1>7
    <2>5. Len(q) + Len(Tail(f)) + Cardinality(Busy') = SIZE
      BY <1>4, <1>5, <1>6
    <2> QED BY <1>1, <1>4, <2>1, <2>2, <2>3, <2>4, <2>5 DEF NodesSound
  <1>9. PoolTypeOK'
    BY <1>1, <1>2, <1>6 DEF PoolTypeOK
  <1>10. HandsSound'
    BY <1>1, <1>2, <1>6, <1>7 DEF HandsSound
  <1>11. stat[t] = "READY"
    BY <1>1, <1>2, LooksReady
  <1>12. /\ CallsOK'
         /\ \A m, s \in Nat : Wakeups(m, s) => Wakeups(m, s - 1)'
    BY <1>1, <1>2, <1>11, StopsWaiting
  <1>13. entry' = entry /\ Wakeups(entry, Len(Tail(f)))'
    BY <1>1, <1>3, <1>4, <1>5, <1>12 DEF Wakeups
  <1>14. MqIInv'
    BY <1>5, <1>8, <1>9, <1>10, <1>12, <1>13 DEF MqIInv
  <1>15. mqQueue' = mqQueue
    BY <1>1, <1>3, <1>8, MqQueueIs, MqNextQueueIs
  <1>16. \A u \in Thread : mqCall'[u] = mqCall[u]
    BY <1>1, <1>6 DEF mqCall
  <1> QED BY <1>14, <1>15, <1>16, MqCallKept DEF MqQueueStep

\* A sender copies its message into its node, which nobody else can reach.
LEMMA FillStep == ASSUME MqIInv, NEW t \in Thread, Fill(t) PROVE MqIInv' /\ MqQueueStep
  <1>1. /\ pc[t] \in {"put", "urgent"} /\ node[t] # Null /\ t \notin copied
        /\ next' = (IF pc[t] = "put" THEN [next EXCEPT ![node[t]] = Null] ELSE next)
        /\ data' = [data EXCEPT ![node[t]] = arg[t]] /\ copied' = copied \cup {t}
        /\ UNCHANGED <<msg_queue_free, msg_queue_head, msg_queue_tail, entry, node>>
        /\ UNCHANGED calls
    BY DEF Fill, queueVars
  <1>2. PoolTypeOK /\ CallsOK /\ HandsSound
    BY DEF MqIInv
  <1>3. PICK q, f \in Seq(Node) : NodesSound(q, f) /\ Wakeups(entry, Len(f))
    BY DEF MqIInv
  <1> DEFINE n == node[t]
  <1>4. n \in Node /\ t \in Busy /\ arg[t] \in Value /\ Busy \subseteq Thread
    BY <1>1, <1>2 DEF PoolTypeOK, Busy, CallsOK, CallsTypeOK
  <1>5. \A k \in Node : /\ k # n => next'[k] = next[k] /\ data'[k] = data[k]
                        /\ next'[n] = IF pc[t] = "put" THEN Null ELSE next[n]
    BY <1>1, <1>2, <1>4 DEF PoolTypeOK
  <1>6. PoolTypeOK'
    <2>1. next' \in [Node -> Node \cup {Null}] /\ data' \in [Node -> Value]
      BY <1>1, <1>2, <1>4 DEF PoolTypeOK
    <2> QED BY <1>1, <1>2, <2>1 DEF PoolTypeOK
  <1>7. n \notin Range(q) /\ n \notin Range(f) /\ Range(q) \subseteq Node /\ Range(f) \subseteq Node
    BY <1>3, ListEmpty DEF NodesSound
  <1>8. Busy' = Busy
    BY <1>1 DEF Busy
  <1>9. \A u \in Busy : u # t => node[u] # n /\ node[u] \in Node
    BY <1>2, <1>3, <1>4 DEF NodesSound, PoolTypeOK, Busy
  <1> HIDE DEF n, Busy
  <1>10. NodesSound(q, f)'
    <2>1. IsChain(next', msg_queue_head, q) /\ IsChain(next', msg_queue_free, f)
      BY <1>3, <1>5, <1>7, ChainKept DEF NodesSound
    <2> QED BY <1>1, <1>3, <1>8, <2>1 DEF NodesSound
  <1>11. /\ CallsOK' /\ UNCHANGED <<pc, asleep, arg, result>>
         /\ \A m, s \in Nat : Wakeups(m, s) => Wakeups(m, s)'
    BY <1>1, <1>2, CallsStutter
  <1>12. HandsSound'
    <2>1. \A u \in copied' : pc'[u] = "put" => next'[node'[u]] = Null
      <3> SUFFICES ASSUME NEW u \in copied', pc'[u] = "put" PROVE next'[node'[u]] = Null
        OBVIOUS
      <3>1. CASE u = t
        BY <1>1, <1>4, <1>5, <1>11, <3>1 DEF n
      <3>2. CASE u # t
        BY <1>1, <1>2, <1>5, <1>9, <1>11, <3>2 DEF HandsSound
      <3> QED BY <3>1, <3>2
    <2>2. \A u \in copied' : pc'[u] # "take" => data'[node'[u]] = arg'[u]
      <3> SUFFICES ASSUME NEW u \in copied', pc'[u] # "take" PROVE data'[node'[u]] = arg'[u]
        OBVIOUS
      <3>1. CASE u = t
        BY <1>1, <1>2, <1>4, <1>11, <3>1 DEF n, PoolTypeOK
      <3>2. CASE u # t
        BY <1>1, <1>2, <1>5, <1>9, <1>11, <3>2 DEF HandsSound
      <3> QED BY <3>1, <3>2
    <2> QED BY <1>1, <1>2, <1>4, <1>8, <1>11, <2>1, <2>2 DEF HandsSound
  <1>13. entry' = entry /\ Wakeups(entry, Len(f))'
    BY <1>1, <1>3, <1>11 DEF Wakeups, NodesSound
  <1>14. MqIInv'
    BY <1>6, <1>10, <1>11, <1>12, <1>13 DEF MqIInv
  <1>15. mqQueue' = mqQueue
    <2>1. Messages(data', q) = Messages(data, q)
      BY <1>5, <1>7, MessagesKept
    <2> QED BY <1>3, <1>10, <2>1, MqQueueIs, MqNextQueueIs
  <1>16. ASSUME NEW u \in Thread PROVE mqCall'[u] = mqCall[u]
    <2>1. CASE pc[u] = "take" /\ node[u] # Null
      <3>1. u # t /\ u \in Busy
        BY <1>1, <2>1 DEF Busy
      <3>2. data'[node[u]] = data[node[u]] /\ (u \in copied' <=> u \in copied)
        BY <1>1, <1>5, <1>9, <3>1
      <3> QED BY <1>1, <1>11, <2>1, <3>2 DEF mqCall
    <2>2. CASE ~(pc[u] = "take" /\ node[u] # Null)
      BY <1>1, <1>11, <2>2 DEF mqCall
    <2> QED BY <2>1, <2>2
  <1> QED BY <1>14, <1>15, <1>16, MqCallKept DEF MqQueueStep

\* A receiver copies the message out of its node.
LEMMA CopyOutStep == ASSUME MqIInv, NEW t \in Thread, CopyOut(t) PROVE MqIInv' /\ MqQueueStep
  <1>1. /\ pc[t] = "take" /\ node[t] # Null /\ t \notin copied
        /\ result' = [result EXCEPT ![t] = <<"got", data[node[t]]>>]
        /\ copied' = copied \cup {t}
        /\ UNCHANGED <<next, data, msg_queue_free, msg_queue_head, msg_queue_tail, entry, node>>
        /\ UNCHANGED <<receivers, senders, object, pc, asleep, arg, timeout, stat, armed, error>>
    BY DEF CopyOut, pool, queueVars, lists, blocking
  <1>2. PoolTypeOK /\ CallsOK /\ HandsSound
    BY DEF MqIInv
  <1>3. PICK q, f \in Seq(Node) : NodesSound(q, f) /\ Wakeups(entry, Len(f))
    BY DEF MqIInv
  <1>4. Busy' = Busy /\ t \in Busy
    BY <1>1 DEF Busy
  <1>5. NodesSound(q, f)'
    BY <1>1, <1>3, <1>4 DEF NodesSound
  <1>6. <<"got", data[node[t]]>> \in Queue!Outcome
    BY <1>1, <1>2 DEF Queue!Outcome, PoolTypeOK
  <1>7. ResultTypeOK' /\ \A u \in Thread : result'[u] =
              IF u = t THEN <<"got", data[node[t]]>> ELSE result[u]
    BY <1>1, <1>2, <1>6 DEF CallsOK, ResultTypeOK
  <1>8. CallsTypeOK' /\ CallsSound'
    BY <1>1, <1>2 DEF CallsOK, CallsTypeOK, BlockingTypeOK, CallsSound, Agrees
  <1>9. PoolTypeOK' /\ HandsSound'
    BY <1>1, <1>2, <1>4 DEF PoolTypeOK, HandsSound
  <1>10. Wakeups(entry, Len(f))'
    BY <1>1, <1>3 DEF Wakeups, OnTheWay
  <1>11. MqIInv'
    BY <1>5, <1>7, <1>8, <1>9, <1>10 DEF MqIInv, CallsOK
  <1>12. mqQueue' = mqQueue
    BY <1>1 DEF mqQueue
  <1>13. \A u \in Thread : mqCall'[u] = mqCall[u]
    BY <1>1, <1>7 DEF mqCall
  <1> QED BY <1>11, <1>12, <1>13, MqCallKept DEF MqQueueStep

\* A call that returns, its hands empty now, is seen to return.
LEMMA MqReturnSeen ==
    ASSUME CallsOK, NEW t \in Thread, NEW r \in Queue!Outcome, Returns(t, r), data' = data,
           \A u \in Thread : u # t => node'[u] = node[u] /\ (u \in copied' <=> u \in copied)
    PROVE  mqCall' = [mqCall EXCEPT ![t] = r]
  <1>1. /\ UNCHANGED arg
        /\ \A u \in Thread : /\ pc'[u] = IF u = t THEN "user" ELSE pc[u]
                             /\ result'[u] = IF u = t THEN r ELSE result[u]
    BY ReturnsTyped
  <1>2. \A u \in Thread : mqCall'[u] = IF u = t THEN r ELSE mqCall[u]
    BY <1>1 DEF mqCall
  <1> QED BY <1>2, MqCallChanges

\* What a thread with a node can rely on.
LEMMA InHands ==
    ASSUME MqIInv, NEW q \in Seq(Node), NEW f \in Seq(Node), NodesSound(q, f),
           NEW t \in Thread, t \in copied
    PROVE  /\ t \in Busy /\ Busy \subseteq Thread /\ t \notin asleep /\ stat[t] = "READY"
           /\ node[t] \in Node /\ node[t] \notin Range(q) /\ node[t] \notin Range(f)
           /\ \A u \in Busy : u # t => node[u] # node[t] /\ node[u] \in Node
           /\ Len(q) \in Nat /\ Len(f) \in Nat /\ Range(q) \subseteq Node
           /\ Range(f) \subseteq Node
           /\ (msg_queue_head = Null <=> q = <<>>) /\ (msg_queue_tail = Null <=> q = <<>>)
           /\ q # <<>> => msg_queue_tail \in Range(q)
  <1>1. t \in Busy /\ Busy \subseteq Thread /\ t \notin asleep
    BY DEF MqIInv, HandsSound, Busy
  <1>2. stat[t] = "READY"
    BY <1>1 DEF MqIInv, CallsOK, CallsSound, CallsTypeOK, BlockingTypeOK
  <1>3. node[t] \in Node /\ \A u \in Busy : u # t => node[u] # node[t] /\ node[u] \in Node
    BY <1>1 DEF MqIInv, PoolTypeOK, Busy, NodesSound
  <1>4. Len(q) \in Nat /\ Len(f) \in Nat /\ Range(q) \subseteq Node /\ Range(f) \subseteq Node
    BY ListEmpty
  <1>5. q # <<>> => q[1] \in Range(q) /\ q[Len(q)] \in Range(q)
    BY RangeByIndex
  <1>6. /\ msg_queue_head = IF q = <<>> THEN Null ELSE q[1]
        /\ msg_queue_tail = IF q = <<>> THEN Null ELSE q[Len(q)]
    BY DEF NodesSound, IsChain, LastOf
  <1>7. /\ (msg_queue_head = Null <=> q = <<>>) /\ (msg_queue_tail = Null <=> q = <<>>)
        /\ q # <<>> => msg_queue_tail \in Range(q)
    BY <1>4, <1>5, <1>6, NullNoNode
  <1> QED BY <1>1, <1>2, <1>3, <1>4, <1>7 DEF NodesSound

\* A sender links its node at the end of the queue.
LEMMA LinkStep == ASSUME MqIInv, NEW t \in Thread, Link(t) PROVE MqIInv' /\ MqQueueStep
  <1> DEFINE n == node[t]
  <1>1. /\ pc[t] = "put" /\ t \in copied
        /\ next' = (IF msg_queue_tail = Null THEN next ELSE [next EXCEPT ![msg_queue_tail] = n])
        /\ msg_queue_tail' = n
        /\ msg_queue_head' = (IF msg_queue_head = Null THEN n ELSE msg_queue_head)
        /\ entry' = entry + 1 /\ WakeFirst(receivers) /\ receivers' = Rest(receivers)
        /\ Returns(t, <<"ok">>) /\ HandsEmpty(t)
        /\ data' = data /\ msg_queue_free' = msg_queue_free /\ senders' = senders
    BY DEF Link
  <1>2. PoolTypeOK /\ CallsOK /\ HandsSound
    BY DEF MqIInv
  <1>3. PICK q, f \in Seq(Node) : NodesSound(q, f) /\ Wakeups(entry, Len(f))
    BY DEF MqIInv
  <1>4. /\ IsChain(next, msg_queue_head, q) /\ IsChain(next, msg_queue_free, f)
        /\ Range(q) \cap Range(f) = {}
        /\ \A u \in Thread : node[u] \notin Range(q) /\ node[u] \notin Range(f)
        /\ \A u, w \in Busy : node[u] = node[w] => u = w
        /\ \A k \in Node : k \in Range(q) \/ k \in Range(f) \/ \E u \in Busy : node[u] = k
        /\ Len(q) + Len(f) + Cardinality(Busy) = SIZE
        /\ entry = Len(q) /\ msg_queue_tail = LastOf(q)
    BY <1>3 DEF NodesSound
  <1>5. /\ t \in Busy /\ Busy \subseteq Thread /\ t \notin asleep /\ stat[t] = "READY"
        /\ n \in Node /\ n \notin Range(q) /\ n \notin Range(f)
        /\ \A u \in Busy : u # t => node[u] # n /\ node[u] \in Node
        /\ Len(q) \in Nat /\ Len(f) \in Nat /\ Range(q) \subseteq Node
        /\ Range(f) \subseteq Node
        /\ (msg_queue_head = Null <=> q = <<>>) /\ (msg_queue_tail = Null <=> q = <<>>)
        /\ q # <<>> => msg_queue_tail \in Range(q)
    BY <1>1, <1>3, InHands
  <1>6. /\ Busy' = Busy \ {t} /\ copied' = copied \ {t}
        /\ Cardinality(Busy) \in Nat /\ Cardinality(Busy') = Cardinality(Busy) - 1
        /\ \A u \in Thread : node'[u] = IF u = t THEN Null ELSE node[u]
        /\ node' \in [Thread -> Node \cup {Null}] /\ copied' \subseteq Thread
    BY <1>1, <1>2, <1>5, HandEmpties
  <1>7. next[n] = Null
    BY <1>1, <1>2 DEF HandsSound
  <1> HIDE DEF n, Busy
  <1>8. /\ \A k \in Node : k # msg_queue_tail => next'[k] = next[k]
        /\ q # <<>> => next'[msg_queue_tail] = n
        /\ next' \in [Node -> Node \cup {Null}]
    BY <1>1, <1>2, <1>5 DEF PoolTypeOK
  <1>9. n # msg_queue_tail
    BY <1>5, NullNoNode
  <1>10. PICK r \in Seq(Node) :
           /\ IsChain(next', IF q = <<>> THEN n ELSE msg_queue_head, r)
           /\ Range(r) = Range(q) \cup {n} /\ Len(r) = Len(q) + 1
           /\ LastOf(r) = n /\ r = Append(q, n)
    <2>1. next'[n] = Null /\ (q # <<>> => next'[LastOf(q)] = n)
      BY <1>4, <1>5, <1>7, <1>8, <1>9
    <2>2. \A k \in Range(q) : k # LastOf(q) => next'[k] = next[k]
      BY <1>4, <1>5, <1>8
    <2>3. Append(q, n) \in Seq(Node)
      BY <1>5
    <2>4. /\ IsChain(next', IF q = <<>> THEN n ELSE msg_queue_head, Append(q, n))
          /\ Range(Append(q, n)) = Range(q) \cup {n} /\ Len(Append(q, n)) = Len(q) + 1
          /\ LastOf(Append(q, n)) = n
      BY <1>4, <1>5, <2>1, <2>2, ChainAppend
    <2> QED BY <2>3, <2>4
  <1>11. IsChain(next', msg_queue_free, f)
    <2>1. \A k \in Range(f) : next'[k] = next[k]
      BY <1>4, <1>5, <1>8, NullNoNode
    <2> QED BY <1>4, <2>1, ChainKept
  <1>12. NodesSound(r, f)'
    <2>1. /\ IsChain(next', msg_queue_head', r) /\ IsChain(next', msg_queue_free', f)
          /\ Range(r) \cap Range(f) = {}
      BY <1>1, <1>4, <1>5, <1>10, <1>11
    <2>2. \A u \in Thread : node'[u] \notin Range(r) /\ node'[u] \notin Range(f)
      <3> SUFFICES ASSUME NEW u \in Thread
                   PROVE  node'[u] \notin Range(r) /\ node'[u] \notin Range(f)
        OBVIOUS
      <3>1. u \in Busy \/ node[u] = Null
        BY DEF Busy
      <3> QED BY <1>4, <1>5, <1>6, <1>10, <3>1, NullNoNode
    <2>3. \A u, w \in Busy' : node'[u] = node'[w] => u = w
      BY <1>4, <1>5, <1>6
    <2>4. \A k \in Node : k \in Range(r) \/ k \in Range(f)
                            \/ \E u \in Busy' : node'[u] = k
      BY <1>4, <1>5, <1>6, <1>10 DEF n
    <2>5. Len(r) + Len(f) + Cardinality(Busy') = SIZE
      BY <1>4, <1>5, <1>6, <1>10
    <2>6. entry' = Len(r) /\ msg_queue_tail' = LastOf(r)
      BY <1>1, <1>4, <1>10
    <2> QED BY <2>1, <2>2, <2>3, <2>4, <2>5, <2>6 DEF NodesSound
  <1>13. PoolTypeOK'
    BY <1>1, <1>2, <1>6, <1>8 DEF PoolTypeOK
  <1>14. <<"ok">> \in Queue!Outcome
    BY DEF Queue!Outcome
  <1>15. /\ CallsOK'
         /\ \A m, s \in Nat : Wakeups(m, s) => Wakeups(m + 1, s)'
    BY <1>1, <1>2, <1>5, <1>14, SenderReturns
  <1>16. /\ asleep' = asleep \ {t} /\ arg' = arg
         /\ \A u \in Thread : pc'[u] = IF u = t THEN "user" ELSE pc[u]
    BY <1>1, <1>2, <1>14, ReturnsTyped
  <1>17. HandsSound'
    <2>1. \A u \in Busy' : pc'[u] # "user" /\ u \notin asleep'
      BY <1>2, <1>5, <1>6, <1>16 DEF HandsSound
    <2>2. copied' \subseteq Busy'
      BY <1>2, <1>6 DEF HandsSound
    <2>3. ASSUME NEW u \in copied', pc'[u] = "put" PROVE next'[node'[u]] = Null
      <3>1. u \in copied /\ u # t /\ u \in Busy /\ u \in Thread
        BY <1>2, <1>5, <1>6, <2>3 DEF HandsSound
      <3>2. node'[u] = node[u] /\ next[node[u]] = Null /\ node[u] \in Node
        BY <1>2, <1>5, <1>6, <1>16, <2>3, <3>1 DEF HandsSound
      <3>3. node[u] # msg_queue_tail
        BY <1>4, <1>5, <3>1, <3>2, NullNoNode
      <3> QED BY <1>8, <3>2, <3>3
    <2>4. ASSUME NEW u \in copied', pc'[u] # "take" PROVE data'[node'[u]] = arg'[u]
      <3>1. u \in copied /\ u # t /\ u \in Thread
        BY <1>2, <1>5, <1>6 DEF HandsSound
      <3> QED BY <1>1, <1>2, <1>6, <1>16, <2>4, <3>1 DEF HandsSound
    <2> QED BY <2>1, <2>2, <2>3, <2>4 DEF HandsSound
  <1>18. Wakeups(entry, Len(f))'
    BY <1>1, <1>3, <1>4, <1>5, <1>15 DEF Wakeups
  <1>19. r \in Seq(Node)
    OBVIOUS
  <1>20. MqIInv'
    BY <1>12, <1>13, <1>15, <1>17, <1>18, <1>19 DEF MqIInv
  <1>21. mqCall' = [mqCall EXCEPT ![t] = <<"ok">>]
    BY <1>1, <1>2, <1>6, <1>14, MqReturnSeen
  <1>22. data[n] = arg[t]
    BY <1>1, <1>2 DEF HandsSound, n
  <1>23. mqQueue' = Append(mqQueue, arg[t]) /\ Len(mqQueue) < SIZE
    <2>1. mqQueue = Messages(data, q) /\ mqQueue' = Messages(data, Append(q, n))
      BY <1>1, <1>3, <1>10, <1>12, MqQueueIs, MqNextQueueIs
    <2>2. Len(Messages(data, q)) = Len(q)
      BY <1>2, MessagesTyped DEF PoolTypeOK
    <2>3. Len(q) < SIZE
      <3>1. Len(r) + Len(f) + Cardinality(Busy') = SIZE /\ Cardinality(Busy') \in Nat
        <4>1. Busy' \in SUBSET Thread
          BY <1>5, <1>6
        <4> QED BY <1>12, <4>1, OnTheWayCounted DEF NodesSound
      <3> QED BY <1>5, <1>10, <3>1
    <2> QED BY <1>2, <1>5, <1>22, <2>1, <2>2, <2>3, MessagesAppend DEF PoolTypeOK
  <1>24. mqCall[t] = <<"put", arg[t]>> /\ mqCall[t] \in MqQueue!Put
    BY <1>1, <1>2, MqCallOf DEF MqQueue!Put, CallsOK, CallsTypeOK
  <1>25. MqQueue!Accept(t)
    BY <1>21, <1>23, <1>24 DEF MqQueue!Accept
  <1> QED BY <1>20, <1>25 DEF MqQueueStep, MqQueue!Next

\* The last node stays the last one when a node is linked before the first.
LEMMA LastOfPush ==
    ASSUME NEW q \in Seq(Node), NEW n \in Node
    PROVE  LastOf(<<n>> \o q) = IF q = <<>> THEN n ELSE LastOf(q)
  <1> DEFINE r == <<n>> \o q
  <1>1. /\ Len(r) = Len(q) + 1 /\ Len(q) \in Nat /\ r # <<>> /\ (q = <<>> <=> Len(q) = 0)
        /\ \A i \in 1 .. Len(q) + 1 : r[i] = IF i = 1 THEN n ELSE q[i - 1]
    OBVIOUS
  <1> HIDE DEF r
  <1>2. LastOf(r) = r[Len(q) + 1]
    BY <1>1 DEF LastOf
  <1>3. CASE q = <<>>
    BY <1>1, <1>2, <1>3 DEF r
  <1>4. CASE q # <<>>
    <2>1. Len(q) + 1 \in 1 .. Len(q) + 1 /\ Len(q) + 1 # 1 /\ Len(q) + 1 - 1 = Len(q)
      BY <1>1, <1>4
    <2>2. r[Len(q) + 1] = q[Len(q)]
      BY <1>1, <2>1
    <2> QED BY <1>2, <1>4, <2>2 DEF LastOf, r
  <1> QED BY <1>3, <1>4

\* rt_mq_urgent links its node in front.
LEMMA LinkUrgentStep ==
    ASSUME MqIInv, NEW t \in Thread, LinkUrgent(t) PROVE MqIInv' /\ MqQueueStep
  <1> DEFINE n == node[t]
  <1>1. /\ pc[t] = "urgent" /\ t \in copied
        /\ next' = [next EXCEPT ![n] = msg_queue_head] /\ msg_queue_head' = n
        /\ msg_queue_tail' = (IF msg_queue_tail = Null THEN n ELSE msg_queue_tail)
        /\ entry' = entry + 1 /\ WakeFirst(receivers) /\ receivers' = Rest(receivers)
        /\ Returns(t, <<"ok">>) /\ HandsEmpty(t)
        /\ data' = data /\ msg_queue_free' = msg_queue_free /\ senders' = senders
    BY DEF LinkUrgent
  <1>2. PoolTypeOK /\ CallsOK /\ HandsSound
    BY DEF MqIInv
  <1>3. PICK q, f \in Seq(Node) : NodesSound(q, f) /\ Wakeups(entry, Len(f))
    BY DEF MqIInv
  <1>4. /\ IsChain(next, msg_queue_head, q) /\ IsChain(next, msg_queue_free, f)
        /\ Range(q) \cap Range(f) = {}
        /\ \A u \in Thread : node[u] \notin Range(q) /\ node[u] \notin Range(f)
        /\ \A u, w \in Busy : node[u] = node[w] => u = w
        /\ \A k \in Node : k \in Range(q) \/ k \in Range(f) \/ \E u \in Busy : node[u] = k
        /\ Len(q) + Len(f) + Cardinality(Busy) = SIZE
        /\ entry = Len(q) /\ msg_queue_tail = LastOf(q)
    BY <1>3 DEF NodesSound
  <1>5. /\ t \in Busy /\ Busy \subseteq Thread /\ t \notin asleep /\ stat[t] = "READY"
        /\ n \in Node /\ n \notin Range(q) /\ n \notin Range(f)
        /\ \A u \in Busy : u # t => node[u] # n /\ node[u] \in Node
        /\ Len(q) \in Nat /\ Len(f) \in Nat /\ Range(q) \subseteq Node
        /\ Range(f) \subseteq Node
        /\ (msg_queue_tail = Null <=> q = <<>>)
    BY <1>1, <1>3, InHands
  <1>6. /\ Busy' = Busy \ {t} /\ copied' = copied \ {t}
        /\ Cardinality(Busy) \in Nat /\ Cardinality(Busy') = Cardinality(Busy) - 1
        /\ \A u \in Thread : node'[u] = IF u = t THEN Null ELSE node[u]
        /\ node' \in [Thread -> Node \cup {Null}] /\ copied' \subseteq Thread
    BY <1>1, <1>2, <1>5, HandEmpties
  <1>7. msg_queue_head \in Node \cup {Null}
    BY <1>4 DEF IsChain
  <1> HIDE DEF n, Busy
  <1>8. /\ \A k \in Node : k # n => next'[k] = next[k]
        /\ next'[n] = msg_queue_head
        /\ next' \in [Node -> Node \cup {Null}]
    BY <1>1, <1>2, <1>5, <1>7 DEF PoolTypeOK
  <1>10. PICK r \in Seq(Node) :
           /\ IsChain(next', n, r)
           /\ Range(r) = Range(q) \cup {n} /\ Len(r) = Len(q) + 1
           /\ LastOf(r) = (IF q = <<>> THEN n ELSE LastOf(q)) /\ r = <<n>> \o q
    <2>1. \A k \in Range(q) : next'[k] = next[k]
      BY <1>5, <1>8
    <2>2. /\ IsChain(next', n, <<n>> \o q)
          /\ Range(<<n>> \o q) = Range(q) \cup {n} /\ Len(<<n>> \o q) = Len(q) + 1
      BY <1>4, <1>5, <1>8, <2>1, ChainPush
    <2>3. LastOf(<<n>> \o q) = IF q = <<>> THEN n ELSE LastOf(q)
      BY <1>5, LastOfPush
    <2>4. <<n>> \o q \in Seq(Node)
      BY <1>5
    <2> QED BY <2>2, <2>3, <2>4
  <1>11. IsChain(next', msg_queue_free, f)
    <2>1. \A k \in Range(f) : next'[k] = next[k]
      BY <1>4, <1>5, <1>8
    <2> QED BY <1>4, <2>1, ChainKept
  <1>12. NodesSound(r, f)'
    <2>1. /\ IsChain(next', msg_queue_head', r) /\ IsChain(next', msg_queue_free', f)
          /\ Range(r) \cap Range(f) = {}
      BY <1>1, <1>4, <1>5, <1>10, <1>11
    <2>2. \A u \in Thread : node'[u] \notin Range(r) /\ node'[u] \notin Range(f)
      <3> SUFFICES ASSUME NEW u \in Thread
                   PROVE  node'[u] \notin Range(r) /\ node'[u] \notin Range(f)
        OBVIOUS
      <3>1. u \in Busy \/ node[u] = Null
        BY DEF Busy
      <3> QED BY <1>4, <1>5, <1>6, <1>10, <3>1, NullNoNode
    <2>3. \A u, w \in Busy' : node'[u] = node'[w] => u = w
      BY <1>4, <1>5, <1>6
    <2>4. \A k \in Node : k \in Range(r) \/ k \in Range(f)
                            \/ \E u \in Busy' : node'[u] = k
      BY <1>4, <1>5, <1>6, <1>10 DEF n
    <2>5. Len(r) + Len(f) + Cardinality(Busy') = SIZE
      BY <1>4, <1>5, <1>6, <1>10
    <2>6. entry' = Len(r) /\ msg_queue_tail' = LastOf(r)
      BY <1>1, <1>4, <1>5, <1>10
    <2> QED BY <2>1, <2>2, <2>3, <2>4, <2>5, <2>6 DEF NodesSound
  <1>13. PoolTypeOK'
    BY <1>1, <1>2, <1>6, <1>8 DEF PoolTypeOK
  <1>14. <<"ok">> \in Queue!Outcome
    BY DEF Queue!Outcome
  <1>15. /\ CallsOK'
         /\ \A m, s \in Nat : Wakeups(m, s) => Wakeups(m + 1, s)'
    BY <1>1, <1>2, <1>5, <1>14, SenderReturns
  <1>16. /\ asleep' = asleep \ {t} /\ arg' = arg
         /\ \A u \in Thread : pc'[u] = IF u = t THEN "user" ELSE pc[u]
    BY <1>1, <1>2, <1>14, ReturnsTyped
  <1>17. HandsSound'
    <2>1. \A u \in Busy' : pc'[u] # "user" /\ u \notin asleep'
      BY <1>2, <1>5, <1>6, <1>16 DEF HandsSound
    <2>2. copied' \subseteq Busy'
      BY <1>2, <1>6 DEF HandsSound
    <2>3. ASSUME NEW u \in copied'
          PROVE  /\ pc'[u] = "put" => next'[node'[u]] = Null
                 /\ pc'[u] # "take" => data'[node'[u]] = arg'[u]
      <3>1. u \in copied /\ u # t /\ u \in Busy /\ u \in Thread
        BY <1>2, <1>5, <1>6, <2>3 DEF HandsSound
      <3>2. node'[u] = node[u] /\ node[u] \in Node /\ node[u] # n
        BY <1>5, <1>6, <3>1
      <3> QED BY <1>1, <1>2, <1>8, <1>16, <3>1, <3>2 DEF HandsSound
    <2> QED BY <2>1, <2>2, <2>3 DEF HandsSound
  <1>18. Wakeups(entry, Len(f))'
    BY <1>1, <1>3, <1>4, <1>5, <1>15 DEF Wakeups
  <1>19. r \in Seq(Node)
    OBVIOUS
  <1>20. MqIInv'
    BY <1>12, <1>13, <1>15, <1>17, <1>18, <1>19 DEF MqIInv
  <1>21. mqCall' = [mqCall EXCEPT ![t] = <<"ok">>]
    BY <1>1, <1>2, <1>6, <1>14, MqReturnSeen
  <1>22. data[n] = arg[t]
    BY <1>1, <1>2 DEF HandsSound, n
  <1>23. mqQueue' = <<arg[t]>> \o mqQueue /\ Len(mqQueue) < SIZE
    <2>1. mqQueue = Messages(data, q) /\ mqQueue' = Messages(data, <<n>> \o q)
      BY <1>1, <1>3, <1>10, <1>12, MqQueueIs, MqNextQueueIs
    <2>2. Len(Messages(data, q)) = Len(q)
      BY <1>2, MessagesTyped DEF PoolTypeOK
    <2>3. Len(q) < SIZE
      <3>1. Len(r) + Len(f) + Cardinality(Busy') = SIZE /\ Cardinality(Busy') \in Nat
        <4>1. Busy' \in SUBSET Thread
          BY <1>5, <1>6
        <4> QED BY <1>12, <4>1, OnTheWayCounted DEF NodesSound
      <3> QED BY <1>5, <1>10, <3>1
    <2>4. Messages(data, <<n>> \o q) = <<data[n]>> \o Messages(data, q)
      BY <1>2, <1>5, MessagesPush DEF PoolTypeOK
    <2> QED BY ONLY <1>22, <2>1, <2>2, <2>3, <2>4
  <1>24. /\ mqCall[t] = <<"urgent", arg[t]>> /\ mqCall[t] \in MqQueue!Urgent
         /\ mqCall[t] \notin MqQueue!Put
    <2>1. mqCall[t] = <<"urgent", arg[t]>> /\ arg[t] \in Value
      BY <1>1, <1>2, MqCallOf DEF CallsOK, CallsTypeOK
    <2>2. mqCall[t] \in MqQueue!Urgent
      BY <2>1 DEF MqQueue!Urgent
    <2>3. mqCall[t][1] = "urgent"
      BY <2>1
    <2>4. \A p \in MqQueue!Put : p[1] = "put"
      BY DEF MqQueue!Put
    <2> HIDE DEF mqCall
    <2> QED BY <2>1, <2>2, <2>3, <2>4
  <1>25. MqQueue!Accept(t)
    BY <1>21, <1>23, <1>24 DEF MqQueue!Accept
  <1> QED BY <1>20, <1>25 DEF MqQueueStep, MqQueue!Next

\* A receiver gives its node back.
LEMMA GiveBackStep ==
    ASSUME MqIInv, NEW t \in Thread, GiveBack(t) PROVE MqIInv' /\ MqQueueStep
  <1> DEFINE n == node[t]
  <1>1. /\ pc[t] = "take" /\ t \in copied
        /\ next' = [next EXCEPT ![n] = msg_queue_free] /\ msg_queue_free' = n
        /\ WakeFirst(senders) /\ senders' = Rest(senders)
        /\ Returns(t, result[t]) /\ HandsEmpty(t)
        /\ data' = data /\ receivers' = receivers
        /\ UNCHANGED <<msg_queue_head, msg_queue_tail, entry>>
    BY DEF GiveBack, queueVars
  <1>2. PoolTypeOK /\ CallsOK /\ HandsSound
    BY DEF MqIInv
  <1>3. PICK q, f \in Seq(Node) : NodesSound(q, f) /\ Wakeups(entry, Len(f))
    BY DEF MqIInv
  <1>4. /\ IsChain(next, msg_queue_head, q) /\ IsChain(next, msg_queue_free, f)
        /\ Range(q) \cap Range(f) = {}
        /\ \A u \in Thread : node[u] \notin Range(q) /\ node[u] \notin Range(f)
        /\ \A u, w \in Busy : node[u] = node[w] => u = w
        /\ \A k \in Node : k \in Range(q) \/ k \in Range(f) \/ \E u \in Busy : node[u] = k
        /\ Len(q) + Len(f) + Cardinality(Busy) = SIZE
        /\ entry = Len(q) /\ msg_queue_tail = LastOf(q)
    BY <1>3 DEF NodesSound
  <1>5. /\ t \in Busy /\ Busy \subseteq Thread /\ t \notin asleep /\ stat[t] = "READY"
        /\ n \in Node /\ n \notin Range(q) /\ n \notin Range(f)
        /\ \A u \in Busy : u # t => node[u] # n /\ node[u] \in Node
        /\ Len(q) \in Nat /\ Len(f) \in Nat /\ Range(q) \subseteq Node
        /\ Range(f) \subseteq Node
    BY <1>1, <1>3, InHands
  <1>6. /\ Busy' = Busy \ {t} /\ copied' = copied \ {t}
        /\ Cardinality(Busy) \in Nat /\ Cardinality(Busy') = Cardinality(Busy) - 1
        /\ \A u \in Thread : node'[u] = IF u = t THEN Null ELSE node[u]
        /\ node' \in [Thread -> Node \cup {Null}] /\ copied' \subseteq Thread
    BY <1>1, <1>2, <1>5, HandEmpties
  <1>7. msg_queue_free \in Node \cup {Null} /\ node[t] # Null
    BY <1>4, <1>5 DEF IsChain, Busy
  <1> HIDE DEF n, Busy
  <1>8. /\ \A k \in Node : k # n => next'[k] = next[k]
        /\ next'[n] = msg_queue_free
        /\ next' \in [Node -> Node \cup {Null}]
    BY <1>1, <1>2, <1>5, <1>7 DEF PoolTypeOK
  <1>10. PICK r \in Seq(Node) :
           /\ IsChain(next', n, r)
           /\ Range(r) = Range(f) \cup {n} /\ Len(r) = Len(f) + 1
    <2>1. \A k \in Range(f) : next'[k] = next[k]
      BY <1>5, <1>8
    <2>2. /\ IsChain(next', n, <<n>> \o f)
          /\ Range(<<n>> \o f) = Range(f) \cup {n} /\ Len(<<n>> \o f) = Len(f) + 1
      BY <1>4, <1>5, <1>8, <2>1, ChainPush
    <2>3. <<n>> \o f \in Seq(Node)
      BY <1>5
    <2> QED BY <2>2, <2>3
  <1>11. IsChain(next', msg_queue_head, q)
    <2>1. \A k \in Range(q) : next'[k] = next[k]
      BY <1>4, <1>5, <1>8
    <2> QED BY <1>4, <2>1, ChainKept
  <1>12. NodesSound(q, r)'
    <2>1. /\ IsChain(next', msg_queue_head', q) /\ IsChain(next', msg_queue_free', r)
          /\ Range(q) \cap Range(r) = {}
      BY <1>1, <1>4, <1>5, <1>10, <1>11
    <2>2. \A u \in Thread : node'[u] \notin Range(q) /\ node'[u] \notin Range(r)
      <3> SUFFICES ASSUME NEW u \in Thread
                   PROVE  node'[u] \notin Range(q) /\ node'[u] \notin Range(r)
        OBVIOUS
      <3>1. u \in Busy \/ node[u] = Null
        BY DEF Busy
      <3> QED BY <1>4, <1>5, <1>6, <1>10, <3>1, NullNoNode
    <2>3. \A u, w \in Busy' : node'[u] = node'[w] => u = w
      BY <1>4, <1>5, <1>6
    <2>4. \A k \in Node : k \in Range(q) \/ k \in Range(r)
                            \/ \E u \in Busy' : node'[u] = k
      BY <1>4, <1>5, <1>6, <1>10 DEF n
    <2>5. Len(q) + Len(r) + Cardinality(Busy') = SIZE
      BY <1>4, <1>5, <1>6, <1>10
    <2> QED BY <1>1, <1>4, <2>1, <2>2, <2>3, <2>4, <2>5 DEF NodesSound
  <1>13. PoolTypeOK'
    BY <1>1, <1>2, <1>6, <1>8 DEF PoolTypeOK
  <1>14. result[t] \in Queue!Outcome
    BY <1>2 DEF CallsOK, ResultTypeOK
  <1>15. /\ CallsOK'
         /\ \A m, s \in Nat : Wakeups(s, m) => Wakeups(s, m + 1)'
    BY <1>1, <1>2, <1>5, <1>14, ReceiverReturns
  <1>16. /\ asleep' = asleep \ {t} /\ arg' = arg
         /\ \A u \in Thread : pc'[u] = IF u = t THEN "user" ELSE pc[u]
    BY <1>1, <1>2, <1>14, ReturnsTyped
  <1>17. HandsSound'
    <2>1. \A u \in Busy' : pc'[u] # "user" /\ u \notin asleep'
      BY <1>2, <1>5, <1>6, <1>16 DEF HandsSound
    <2>2. copied' \subseteq Busy'
      BY <1>2, <1>6 DEF HandsSound
    <2>3. ASSUME NEW u \in copied'
          PROVE  /\ pc'[u] = "put" => next'[node'[u]] = Null
                 /\ pc'[u] # "take" => data'[node'[u]] = arg'[u]
      <3>1. u \in copied /\ u # t /\ u \in Busy /\ u \in Thread
        BY <1>2, <1>5, <1>6, <2>3 DEF HandsSound
      <3>2. node'[u] = node[u] /\ node[u] \in Node /\ node[u] # n
        BY <1>5, <1>6, <3>1
      <3> QED BY <1>1, <1>2, <1>8, <1>16, <3>1, <3>2 DEF HandsSound
    <2> QED BY <2>1, <2>2, <2>3 DEF HandsSound
  <1>18. Wakeups(entry, Len(r))'
    BY <1>1, <1>3, <1>4, <1>5, <1>10, <1>15 DEF Wakeups
  <1>19. r \in Seq(Node)
    OBVIOUS
  <1>20. MqIInv'
    BY <1>12, <1>13, <1>15, <1>17, <1>18, <1>19 DEF MqIInv
  <1>21. mqCall' = mqCall
    <2>1. mqCall' = [mqCall EXCEPT ![t] = result[t]]
      BY <1>1, <1>2, <1>6, <1>14, MqReturnSeen
    <2>2. mqCall[t] = result[t] /\ mqCall = [u \in Thread |-> mqCall[u]]
      BY <1>1, <1>7 DEF mqCall
    <2> HIDE DEF mqCall
    <2> QED BY <2>1, <2>2
  <1>22. mqQueue' = mqQueue
    BY <1>1, <1>3, <1>12, MqQueueIs, MqNextQueueIs
  <1> QED BY <1>20, <1>21, <1>22 DEF MqQueueStep

\* The last node of a list that loses its first one.
LEMMA LastOfTail ==
    ASSUME NEW s \in Seq(Node), s # <<>>, IsInjective(s)
    PROVE  LastOf(Tail(s)) = IF LastOf(s) = s[1] THEN Null ELSE LastOf(s)
  <1> DEFINE r == Tail(s)
  <1>1. /\ Len(s) \in Nat /\ Len(s) >= 1 /\ Len(r) = Len(s) - 1 /\ r \in Seq(Node)
        /\ \A i \in 1 .. Len(r) : r[i] = s[i + 1]
    OBVIOUS
  <1> HIDE DEF r
  <1>2. LastOf(s) = s[Len(s)] /\ (LastOf(s) = s[1] <=> Len(s) = 1)
    <2>1. \A i, j \in 1 .. Len(s) : s[i] = s[j] => i = j
      BY DEF IsInjective
    <2> QED BY <1>1, <2>1 DEF LastOf
  <1>3. CASE Len(s) = 1
    <2>1. r = <<>>
      BY <1>1, <1>3
    <2> QED BY <1>2, <1>3, <2>1 DEF LastOf, r
  <1>4. CASE Len(s) # 1
    <2>1. Len(r) \in 1 .. Len(r) /\ Len(r) + 1 = Len(s) /\ r # <<>>
      BY <1>1, <1>4
    <2>2. LastOf(r) = s[Len(s)]
      BY <1>1, <2>1 DEF LastOf
    <2> QED BY <1>2, <1>4, <2>2 DEF r
  <1> QED BY <1>3, <1>4

\* A receiver unlinks the first node.
LEMMA UnlinkFirstStep ==
    ASSUME MqIInv, NEW t \in Thread, UnlinkFirst(t) PROVE MqIInv' /\ MqQueueStep
  <1> DEFINE n == msg_queue_head
  <1>1. /\ pc[t] = "take" /\ Looks(t) /\ node[t] = Null /\ entry > 0
        /\ node' = [node EXCEPT ![t] = n] /\ msg_queue_head' = next[n]
        /\ msg_queue_tail' = (IF msg_queue_tail = n THEN Null ELSE msg_queue_tail)
        /\ entry' = entry - 1 /\ asleep' = asleep \ {t}
        /\ UNCHANGED <<next, data, msg_queue_free, copied>>
        /\ UNCHANGED <<lists, object, pc, arg, timeout, result, blocking>>
    BY DEF UnlinkFirst
  <1>2. PoolTypeOK /\ CallsOK /\ HandsSound
    BY DEF MqIInv
  <1>3. PICK q, f \in Seq(Node) : NodesSound(q, f) /\ Wakeups(entry, Len(f))
    BY DEF MqIInv
  <1>4. /\ IsChain(next, n, q) /\ IsChain(next, msg_queue_free, f)
        /\ Range(q) \cap Range(f) = {}
        /\ \A u \in Thread : node[u] \notin Range(q) /\ node[u] \notin Range(f)
        /\ \A u, w \in Busy : node[u] = node[w] => u = w
        /\ \A k \in Node : k \in Range(q) \/ k \in Range(f) \/ \E u \in Busy : node[u] = k
        /\ Len(q) + Len(f) + Cardinality(Busy) = SIZE
        /\ entry = Len(q) /\ msg_queue_tail = LastOf(q)
    BY <1>3 DEF NodesSound
  <1>5. q # <<>> /\ n = q[1] /\ n # Null /\ IsInjective(q)
    <2>1. q # <<>>
      BY <1>1, <1>4
    <2>2. q[1] \in Node
      BY <2>1
    <2> QED BY <1>4, <2>1, <2>2, NullNoNode DEF IsChain
  <1>6. /\ n = Head(q) /\ n \in Range(q) /\ n \in Node /\ IsChain(next, next[n], Tail(q))
        /\ Range(Tail(q)) = Range(q) \ {n} /\ Len(Tail(q)) = Len(q) - 1
        /\ Tail(q) \in Seq(Node) /\ Len(f) \in Nat /\ Len(q) \in Nat
    BY <1>4, <1>5, ChainTail
  <1>7. LastOf(Tail(q)) = IF LastOf(q) = n THEN Null ELSE LastOf(q)
    BY <1>5, LastOfTail
  <1>8. /\ Busy' = Busy \cup {t} /\ t \notin Busy
        /\ Cardinality(Busy) \in Nat /\ Cardinality(Busy') = Cardinality(Busy) + 1
        /\ \A u \in Thread : node'[u] = IF u = t THEN n ELSE node[u]
        /\ node' \in [Thread -> Node \cup {Null}]
    BY <1>1, <1>2, <1>6, HandFills
  <1>9. Busy \subseteq Thread
    BY DEF Busy
  <1> HIDE DEF n, Busy
  <1>10. NodesSound(Tail(q), f)'
    <2>1. /\ IsChain(next', msg_queue_head', Tail(q)) /\ IsChain(next', msg_queue_free', f)
          /\ Range(Tail(q)) \cap Range(f) = {}
      BY <1>1, <1>4, <1>6 DEF n
    <2>2. \A u \in Thread : node'[u] \notin Range(Tail(q)) /\ node'[u] \notin Range(f)
      BY <1>4, <1>6, <1>8
    <2>3. \A u, w \in Busy' : node'[u] = node'[w] => u = w
      BY <1>4, <1>6, <1>8, <1>9
    <2>4. \A k \in Node : k \in Range(Tail(q)) \/ k \in Range(f) \/ \E u \in Busy' : node'[u] = k
      BY <1>4, <1>6, <1>8, <1>9
    <2>5. Len(Tail(q)) + Len(f) + Cardinality(Busy') = SIZE
      BY <1>4, <1>6, <1>8
    <2>6. entry' = Len(Tail(q)) /\ msg_queue_tail' = LastOf(Tail(q))
      BY <1>1, <1>4, <1>6, <1>7
    <2> QED BY <2>1, <2>2, <2>3, <2>4, <2>5, <2>6 DEF NodesSound
  <1>11. PoolTypeOK'
    BY <1>1, <1>2, <1>8 DEF PoolTypeOK
  <1>12. HandsSound'
    BY <1>1, <1>2, <1>8, <1>9 DEF HandsSound
  <1>13. stat[t] = "READY"
    BY <1>1, <1>2, LooksReady
  <1>14. /\ CallsOK'
         /\ \A m, s \in Nat : Wakeups(m, s) => Wakeups(m - 1, s)'
    BY <1>1, <1>2, <1>13, StopsWaiting
  <1>15. Wakeups(entry, Len(f))'
    BY <1>1, <1>3, <1>4, <1>6, <1>14 DEF Wakeups
  <1>16. MqIInv'
    BY <1>6, <1>10, <1>11, <1>12, <1>14, <1>15 DEF MqIInv
  <1>17. /\ mqQueue # <<>> /\ Head(mqQueue) = data[n] /\ mqQueue' = Tail(mqQueue)
    <2>1. mqQueue = Messages(data, q) /\ mqQueue' = Messages(data, Tail(q))
      BY <1>1, <1>3, <1>10, MqQueueIs, MqNextQueueIs
    <2>2. /\ Messages(data, q) # <<>> /\ Head(Messages(data, q)) = data[n]
          /\ Messages(data, Tail(q)) = Tail(Messages(data, q))
      BY <1>2, <1>5, <1>6, MessagesTail DEF PoolTypeOK
    <2> QED BY ONLY <2>1, <2>2
  <1>18. mqCall[t] \in MqQueue!Take
    BY <1>1, MqCallOf DEF MqQueue!Take
  <1>19. mqCall' = [mqCall EXCEPT ![t] = <<"got", data[n]>>]
    <2>1. t \notin copied /\ n # Null
      BY <1>2, <1>8, <1>5 DEF HandsSound
    <2>2. ASSUME NEW u \in Thread PROVE mqCall'[u] = IF u = t THEN <<"got", data[n]>> ELSE mqCall[u]
      BY <1>1, <1>8, <2>1 DEF mqCall
    <2> QED BY <2>2, MqCallChanges
  <1>20. MqQueue!Deliver(t)
    <2> HIDE DEF mqCall, mqQueue
    <2> QED BY <1>17, <1>18, <1>19 DEF MqQueue!Deliver
  <1> QED BY <1>16, <1>20 DEF MqQueueStep, MqQueue!Next

\* A step that leaves the nodes alone, and the threads that have one.
LEMMA PoolKept ==
    ASSUME MqIInv, UNCHANGED <<pool, hands>>, CallsOK',
           \A u \in Busy : pc'[u] = pc[u] /\ arg'[u] = arg[u] /\ u \notin asleep',
           \A s \in Nat : Wakeups(entry, s) /\ (s = 0 <=> msg_queue_free = Null)
                            => Wakeups(entry, s)'
    PROVE  MqIInv' /\ mqQueue' = mqQueue
  <1>1. UNCHANGED <<next, data, msg_queue_free, msg_queue_head, msg_queue_tail, entry, node, copied>>
    BY DEF pool, hands, queueVars
  <1>2. PoolTypeOK /\ HandsSound
    BY DEF MqIInv
  <1>3. PICK q, f \in Seq(Node) : NodesSound(q, f) /\ Wakeups(entry, Len(f))
    BY DEF MqIInv
  <1>4. Busy' = Busy
    BY <1>1 DEF Busy
  <1>5. NodesSound(q, f)'
    BY <1>1, <1>3, <1>4 DEF NodesSound
  <1>6. PoolTypeOK' /\ HandsSound'
    BY <1>1, <1>2, <1>4 DEF PoolTypeOK, HandsSound
  <1>7. Len(f) \in Nat /\ (Len(f) = 0 <=> msg_queue_free = Null)
    <2>1. f # <<>> => f[1] \in Node
      OBVIOUS
    <2>2. Len(f) \in Nat /\ (Len(f) = 0 <=> f = <<>>)
      OBVIOUS
    <2>3. msg_queue_free = IF f = <<>> THEN Null ELSE f[1]
      BY <1>3 DEF NodesSound, IsChain
    <2> QED BY <2>1, <2>2, <2>3, NullNoNode
  <1>8. Wakeups(entry, Len(f))'
    BY <1>1, <1>3, <1>7 DEF Wakeups
  <1>9. MqIInv'
    BY <1>5, <1>6, <1>8 DEF MqIInv
  <1> QED BY <1>1, <1>9 DEF mqQueue

\* The caller waits for a message, or for a node.
LEMMA MqBlockStep == ASSUME MqIInv, NEW t \in Thread, MqBlock(t) PROVE MqIInv' /\ MqQueueStep
  <1>1. MqStuck(t) /\ Waits(t) /\ UNCHANGED <<pool, hands>>
    BY DEF MqBlock
  <1>2. /\ CallsOK' /\ UNCHANGED <<pc, arg, result>> /\ asleep' = asleep \cup {t}
        /\ \A m, s \in Nat : Wakeups(m, s) /\ (IF pc[t] = "take" THEN m ELSE s) = 0
              => Wakeups(m, s)'
    BY <1>1, CallerWaits DEF MqIInv
  <1>3. UNCHANGED <<data, node, copied, entry>> /\ node[t] = Null
    BY <1>1 DEF pool, hands, queueVars, MqStuck
  <1>4. \A u \in Busy : pc'[u] = pc[u] /\ arg'[u] = arg[u] /\ u \notin asleep'
    BY <1>2, <1>3 DEF MqIInv, HandsSound, Busy
  <1>5. \A s \in Nat : Wakeups(entry, s) /\ (s = 0 <=> msg_queue_free = Null)
                         => Wakeups(entry, s)'
    <2>1. entry \in Nat
      BY DEF MqIInv, NodesSound
    <2> QED BY <1>1, <1>2, <1>3, <2>1 DEF MqStuck, Wakeups
  <1>6. MqIInv' /\ mqQueue' = mqQueue
    BY <1>1, <1>2, <1>4, <1>5, PoolKept
  <1>7. mqCall' = mqCall
    BY <1>2, <1>3 DEF mqCall
  <1> QED BY <1>6, <1>7 DEF MqQueueStep

\* A call that fails has left no trace among the nodes.
LEMMA MqFailIsSeen ==
    ASSUME MqIInv, NEW t \in Thread, pc[t] # "user", node[t] = Null,
           Returns(t, <<"failed">>), UNCHANGED <<data, node, copied>>, mqQueue' = mqQueue
    PROVE  MqQueueStep
  <1>1. mqCall' = [mqCall EXCEPT ![t] = <<"failed">>]
    <2>1. <<"failed">> \in Queue!Outcome
      BY DEF Queue!Outcome
    <2> QED BY <2>1, MqReturnSeen DEF MqIInv
  <1>2. mqCall[t] \in MqQueue!Request
    <2>1. pc[t] \in {"put", "urgent", "take"} /\ arg[t] \in Value
      BY DEF MqIInv, CallsOK, CallsTypeOK
    <2> QED BY <2>1, MqCallOf DEF MqQueue!Request, MqQueue!Put, MqQueue!Urgent, MqQueue!Take
  <1>3. MqQueue!Fail(t)
    BY <1>1, <1>2 DEF MqQueue!Fail
  <1> QED BY <1>3 DEF MqQueueStep, MqQueue!Next

\* The threads that have a node when one that has none returns.
LEMMA OthersBusy ==
    ASSUME MqIInv, NEW t \in Thread, node[t] = Null, NEW r \in Queue!Outcome, Returns(t, r)
    PROVE  \A u \in Busy : pc'[u] = pc[u] /\ arg'[u] = arg[u] /\ u \notin asleep'
  <1>1. /\ asleep' = asleep \ {t} /\ arg' = arg
        /\ \A u \in Thread : pc'[u] = IF u = t THEN "user" ELSE pc[u]
    BY ReturnsTyped DEF MqIInv
  <1> QED BY <1>1 DEF MqIInv, HandsSound, Busy

\* -RT_EFULL, -RT_ETIMEOUT.
LEMMA MqGiveUpStep == ASSUME MqIInv, NEW t \in Thread, MqGiveUp(t) PROVE MqIInv' /\ MqQueueStep
  <1>1. MqStuck(t) /\ GivesUp(t) /\ UNCHANGED <<pool, hands>>
    BY DEF MqGiveUp
  <1>2. /\ CallsOK' /\ pc[t] # "user" /\ Returns(t, <<"failed">>)
        /\ \A m, s \in Nat : Wakeups(m, s) /\ (IF pc[t] = "take" THEN m ELSE s) = 0
              => Wakeups(m, s)'
    BY <1>1, CallerGivesUp DEF MqIInv
  <1>3. UNCHANGED <<data, node, copied, entry>> /\ node[t] = Null
    BY <1>1 DEF pool, hands, queueVars, MqStuck
  <1>4. \A u \in Busy : pc'[u] = pc[u] /\ arg'[u] = arg[u] /\ u \notin asleep'
    BY <1>2, <1>3, OthersBusy DEF Queue!Outcome
  <1>5. \A s \in Nat : Wakeups(entry, s) /\ (s = 0 <=> msg_queue_free = Null)
                         => Wakeups(entry, s)'
    <2>1. entry \in Nat
      BY DEF MqIInv, NodesSound
    <2> QED BY <1>1, <1>2, <1>3, <2>1 DEF MqStuck, Wakeups
  <1>6. MqIInv' /\ mqQueue' = mqQueue
    BY <1>1, <1>2, <1>4, <1>5, PoolKept
  <1> QED BY <1>2, <1>3, <1>6, MqFailIsSeen

\* A wait ended with an error.
LEMMA MqWaitFailsStep ==
    ASSUME MqIInv, NEW t \in Thread, WaitFails(t), UNCHANGED <<pool, hands>>
    PROVE  MqIInv' /\ MqQueueStep
  <1>1. /\ CallsOK' /\ pc[t] # "user" /\ t \in asleep /\ Returns(t, <<"failed">>)
        /\ \A m, s \in Nat : Wakeups(m, s) => Wakeups(m, s)'
    BY CallerFails DEF MqIInv
  <1>2. UNCHANGED <<data, node, copied, entry>> /\ node[t] = Null /\ entry \in Nat
    BY <1>1 DEF pool, hands, queueVars, MqIInv, HandsSound, Busy, NodesSound
  <1>3. \A u \in Busy : pc'[u] = pc[u] /\ arg'[u] = arg[u] /\ u \notin asleep'
    BY <1>1, <1>2, OthersBusy DEF Queue!Outcome
  <1>4. \A s \in Nat : Wakeups(entry, s) => Wakeups(entry, s)'
    BY <1>1, <1>2 DEF Wakeups
  <1>5. MqIInv' /\ mqQueue' = mqQueue
    BY <1>1, <1>3, <1>4, PoolKept
  <1> QED BY <1>1, <1>2, <1>5, MqFailIsSeen

\* A call begins.
LEMMA MqCallsStep ==
    ASSUME MqIInv, NEW t \in Thread, NEW op \in {"put", "urgent", "take"}, NEW v \in Value,
           NEW time \in Times, Calls(t, op, v, time), UNCHANGED <<pool, hands>>
    PROVE  MqIInv' /\ MqQueueStep
  <1>1. /\ CallsOK' /\ pc[t] = "user" /\ UNCHANGED <<asleep, result>>
        /\ \A u \in Thread : /\ pc'[u] = IF u = t THEN op ELSE pc[u]
                             /\ arg'[u] = IF u = t THEN v ELSE arg[u]
        /\ \A m, s \in Nat : Wakeups(m, s) => Wakeups(m, s)'
    BY CallBegins DEF MqIInv
  <1>2. UNCHANGED <<data, node, copied, entry>> /\ node[t] = Null /\ entry \in Nat
    BY <1>1 DEF pool, hands, queueVars, MqIInv, HandsSound, Busy, NodesSound
  <1>3. \A u \in Busy : pc'[u] = pc[u] /\ arg'[u] = arg[u] /\ u \notin asleep'
    BY <1>1, <1>2 DEF Busy, MqIInv, HandsSound
  <1>4. \A s \in Nat : Wakeups(entry, s) => Wakeups(entry, s)'
    BY <1>1, <1>2 DEF Wakeups
  <1>5. MqIInv' /\ mqQueue' = mqQueue
    BY <1>1, <1>3, <1>4, PoolKept
  <1>6. MqQueueStep
    <2> DEFINE r == IF op = "take" THEN <<"take">> ELSE <<op, v>>
    <2>1. r \in MqQueue!Request
      BY DEF MqQueue!Request, MqQueue!Put, MqQueue!Urgent, MqQueue!Take
    <2>2. mqCall[t] \in MqQueue!Outcome
      BY <1>1, MqCallOf DEF MqIInv, CallsOK, ResultTypeOK, Queue!Outcome, MqQueue!Outcome
    <2>3. \A u \in Thread : mqCall'[u] = IF u = t THEN r ELSE mqCall[u]
      BY <1>1, <1>2 DEF mqCall
    <2> HIDE DEF r
    <2>4. mqCall' = [mqCall EXCEPT ![t] = r]
      BY <2>3, MqCallChanges
    <2>5. MqQueue!Invoke(t, r)
      BY <1>5, <2>2, <2>4 DEF MqQueue!Invoke
    <2> QED BY <2>1, <2>5 DEF MqQueueStep, MqQueue!Next
  <1> QED BY <1>5, <1>6

\* A step that only takes waiting threads out of a list.
LEMMA MqQuietStep ==
    ASSUME MqIInv, UNCHANGED <<pool, hands>>, CallsOK', UNCHANGED <<pc, asleep, arg, result>>,
           \A m, s \in Nat : Wakeups(m, s) => Wakeups(m, s)'
    PROVE  MqIInv' /\ MqQueueStep
  <1>1. UNCHANGED <<data, node, copied, entry>> /\ entry \in Nat
    BY DEF pool, hands, queueVars, MqIInv, NodesSound
  <1>2. \A u \in Busy : pc'[u] = pc[u] /\ arg'[u] = arg[u] /\ u \notin asleep'
    BY DEF MqIInv, HandsSound
  <1>3. \A s \in Nat : Wakeups(entry, s) => Wakeups(entry, s)'
    BY <1>1 DEF Wakeups
  <1>4. MqIInv' /\ mqQueue' = mqQueue
    BY <1>2, <1>3, PoolKept
  <1>5. mqCall' = mqCall
    BY <1>1 DEF mqCall
  <1> QED BY <1>4, <1>5 DEF MqQueueStep

\* The empty list is a chain, and no message is in it.
LEMMA NoNodes ==
    /\ <<>> \in Seq(Node) /\ Range(<<>>) = {} /\ LastOf(<<>>) = Null /\ Len(<<>>) = 0
    /\ \A link : IsChain(link, Null, <<>>)
    /\ \A d \in [Node -> Value] : Messages(d, <<>>) = <<>>
  <1>1. /\ <<>> \in Seq(Node) /\ Range(<<>>) = {} /\ IsInjective(<<>>) /\ Len(<<>>) = 0
    BY DEF Range, IsInjective
  <1>2. ASSUME NEW link PROVE IsChain(link, Null, <<>>)
    BY <1>1 DEF IsChain
  <1>3. ASSUME NEW d \in [Node -> Value] PROVE Messages(d, <<>>) = <<>>
    <2>1. Messages(d, <<>>) \in Seq(Value) /\ Len(Messages(d, <<>>)) = 0
      BY <1>1, MessagesTyped
    <2> QED BY <2>1, EmptySeq
  <1> QED BY <1>1, <1>2, <1>3 DEF LastOf

\* The queue is empty, and no call is affected.
LEMMA MqCleared ==
    ASSUME NEW f, NodesSound(<<>>, f)', PoolTypeOK, UNCHANGED <<data, node, copied, pc, arg, result>>
    PROVE  MqQueueStep
  <1>1. mqQueue' = <<>>
    BY MqNextQueueIs, NoNodes DEF PoolTypeOK
  <1>2. mqCall' = mqCall
    BY DEF mqCall
  <1> QED BY <1>1, <1>2 DEF MqQueueStep, MqQueue!Next, MqQueue!Reset

\* The queued nodes go to the free list, the last one first.
LEMMA MqResetStep == ASSUME MqIInv, MqReset PROVE MqIInv' /\ MqQueueStep
  <1>1. PoolTypeOK /\ CallsOK /\ HandsSound
    BY DEF MqIInv
  <1>2. PICK q, f \in Seq(Node) : NodesSound(q, f) /\ Wakeups(entry, Len(f))
    BY DEF MqIInv
  <1>3. /\ IsChain(next, msg_queue_head, q) /\ IsChain(next, msg_queue_free, f)
        /\ Range(q) \cap Range(f) = {} /\ IsInjective(q)
        /\ \A u \in Thread : node[u] \notin Range(q) /\ node[u] \notin Range(f)
        /\ \A u, w \in Busy : node[u] = node[w] => u = w
        /\ \A k \in Node : k \in Range(q) \/ k \in Range(f) \/ \E u \in Busy : node[u] = k
        /\ Len(q) + Len(f) + Cardinality(Busy) = SIZE
        /\ entry = Len(q) /\ msg_queue_tail = LastOf(q)
    BY <1>2 DEF NodesSound, IsChain
  <1>4. Chain(next, msg_queue_head) = q
    BY <1>3, ChainIs
  <1>5. /\ ResumeAll
        /\ next' = [n \in Node |-> IF n \notin Range(q) THEN next[n]
                                   ELSE IF IndexOf(q, n) = 1 THEN msg_queue_free
                                   ELSE q[IndexOf(q, n) - 1]]
        /\ msg_queue_free' = (IF q = <<>> THEN msg_queue_free ELSE q[Len(q)])
        /\ msg_queue_tail' = (IF msg_queue_tail \in Range(q) THEN Null ELSE msg_queue_tail)
        /\ msg_queue_head' = Null /\ entry' = 0 /\ UNCHANGED <<data, node, copied>>
    BY <1>4 DEF MqReset, hands
  <1>6. /\ Len(q) \in Nat /\ Len(f) \in Nat /\ Range(q) \subseteq Node /\ Range(f) \subseteq Node
        /\ \A i \in 1 .. Len(q) : q[i] \in Range(q)
    BY ListEmpty, RangeByIndex
  <1>7. /\ \A n \in Node : n \notin Range(q) => next'[n] = next[n]
        /\ \A n \in Range(q) : next'[n] = IF IndexOf(q, n) = 1 THEN msg_queue_free
                                          ELSE q[IndexOf(q, n) - 1]
    BY <1>5, <1>6
  <1>8. \A i \in 1 .. Len(q) : IndexOf(q, q[i]) = i
    <2>1. \A i, j \in 1 .. Len(q) : q[i] = q[j] => i = j
      BY <1>3 DEF IsInjective
    <2>2. DOMAIN q = 1 .. Len(q)
      OBVIOUS
    <2> QED BY <2>1, <2>2 DEF IndexOf
  <1>9. \A n \in Range(q) : IndexOf(q, n) \in 1 .. Len(q)
    <2> SUFFICES ASSUME NEW n \in Range(q) PROVE IndexOf(q, n) \in 1 .. Len(q)
      OBVIOUS
    <2>1. PICK i \in 1 .. Len(q) : q[i] = n
      BY RangeByIndex
    <2> QED BY <1>8, <2>1
  <1>10. next' \in [Node -> Node \cup {Null}]
    <2>1. \A n \in Node : next'[n] \in Node \cup {Null}
      <3> SUFFICES ASSUME NEW n \in Node PROVE next'[n] \in Node \cup {Null}
        OBVIOUS
      <3>1. CASE n \notin Range(q)
        BY <1>1, <1>7, <3>1 DEF PoolTypeOK
      <3>2. CASE n \in Range(q)
        <4>1. msg_queue_free \in Node \cup {Null}
          BY <1>3 DEF IsChain
        <4>2. IndexOf(q, n) # 1 => IndexOf(q, n) - 1 \in 1 .. Len(q)
          BY <1>6, <1>9, <3>2
        <4> QED BY <1>6, <1>7, <3>2, <4>1, <4>2
      <3> QED BY <3>1, <3>2
    <2> QED BY <1>5, <2>1
  <1>11. PICK r \in Seq(Node) :
           IsChain(next', msg_queue_free', r) /\ Range(r) = Range(q) \cup Range(f)
             /\ Len(r) = Len(q) + Len(f)
    <2>1. \A n \in Range(f) : next'[n] = next[n]
      BY <1>3, <1>6, <1>7
    <2>2. \A i \in 1 .. Len(q) : next'[q[i]] = IF i = 1 THEN msg_queue_free ELSE q[i - 1]
      BY <1>6, <1>7, <1>8
    <2>3. /\ IsChain(next', IF q = <<>> THEN msg_queue_free ELSE q[Len(q)], GivenBack(q, f))
          /\ Range(GivenBack(q, f)) = Range(q) \cup Range(f)
          /\ Len(GivenBack(q, f)) = Len(q) + Len(f)
      BY <1>3, <2>1, <2>2, ChainGivenBack
    <2>4. GivenBack(q, f) \in Seq(Node)
      BY <2>3 DEF IsChain
    <2> QED BY <1>5, <2>3, <2>4
  <1>12. Busy' = Busy
    BY <1>5 DEF Busy
  <1>13. msg_queue_tail' = Null
    <2>1. q # <<>> => q[Len(q)] \in Range(q)
      BY <1>6
    <2> QED BY <1>3, <1>5, <2>1 DEF LastOf
  <1>14. NodesSound(<<>>, r)'
    <2>1. /\ IsChain(next', msg_queue_head', <<>>) /\ IsChain(next', msg_queue_free', r)
          /\ Range(<<>>) \cap Range(r) = {}
      BY <1>5, <1>11, NoNodes
    <2>2. \A u \in Thread : node'[u] \notin Range(<<>>) /\ node'[u] \notin Range(r)
      BY <1>3, <1>5, <1>11, NoNodes
    <2>3. \A k \in Node : k \in Range(<<>>) \/ k \in Range(r) \/ \E u \in Busy' : node'[u] = k
      BY <1>3, <1>5, <1>11, <1>12
    <2>4. Len(<<>>) + Len(r) + Cardinality(Busy') = SIZE
      BY <1>3, <1>6, <1>11, <1>12, NoNodes
    <2>5. entry' = Len(<<>>) /\ msg_queue_tail' = LastOf(<<>>)
      BY <1>5, <1>13, NoNodes
    <2>6. \A u, w \in Busy' : node'[u] = node'[w] => u = w
      BY <1>3, <1>5, <1>12
    <2> QED BY <2>1, <2>2, <2>3, <2>4, <2>5, <2>6 DEF NodesSound
  <1>15. /\ CallsOK' /\ UNCHANGED <<pc, asleep, arg, result>>
         /\ \A m, s \in Nat : Wakeups(m, s)'
    BY <1>1, <1>5, ResumeAllCalls
  <1>16. PoolTypeOK'
    BY <1>1, <1>5, <1>10 DEF PoolTypeOK
  <1>17. HandsSound'
    <2>1. \A u \in copied : node[u] \in Node /\ node[u] \notin Range(q)
      BY <1>1, <1>3 DEF HandsSound, PoolTypeOK, Busy
    <2> QED BY <1>1, <1>5, <1>7, <1>12, <1>15, <2>1 DEF HandsSound
  <1>18. Wakeups(entry, Len(r))'
    BY <1>5, <1>15 DEF Wakeups
  <1>19. MqIInv'
    BY <1>14, <1>15, <1>16, <1>17, <1>18, NoNodes DEF MqIInv
  <1> QED BY <1>1, <1>5, <1>14, <1>15, <1>19, MqCleared

\* All nodes are free.
LEMMA AllFree ==
    ASSUME next = FreshLinks, msg_queue_free = SIZE, msg_queue_head = Null,
           msg_queue_tail = Null, entry = 0, \A t \in Thread : node[t] = Null
    PROVE  NodesSound(<<>>, FreshChain) /\ FreshChain \in Seq(Node) /\ Busy = {}
           /\ next \in [Node -> Node \cup {Null}]
  <1>1. Busy = {}
    BY DEF Busy
  <1>2. Cardinality(Busy) = 0
    BY <1>1, FS_EmptySet
  <1>3. FreshChain \in Seq(Node) /\ SIZE \in Nat
    BY FreshChainIs, NullNoNode DEF IsChain
  <1>4. Range(FreshChain) = Node /\ Len(FreshChain) = SIZE /\ IsChain(next, SIZE, FreshChain)
        /\ next \in [Node -> Node \cup {Null}]
    BY FreshChainIs
  <1>5. Len(<<>>) + Len(FreshChain) + Cardinality(Busy) = SIZE
    BY <1>2, <1>3, <1>4, NoNodes
  <1>6. \A t \in Thread : node[t] \notin Range(<<>>) /\ node[t] \notin Range(FreshChain)
    BY <1>4, NoNodes, NullNoNode
  <1>7. NodesSound(<<>>, FreshChain)
    BY <1>1, <1>4, <1>5, <1>6, NoNodes DEF NodesSound
  <1> QED BY <1>1, <1>3, <1>4, <1>7

\* The queue is initialised again.
LEMMA MqInitAgainStep == ASSUME MqIInv, MqInitAgain PROVE MqIInv' /\ MqQueueStep
  <1>1. /\ Reborn /\ next' = FreshLinks /\ msg_queue_free' = SIZE
        /\ msg_queue_head' = Null /\ msg_queue_tail' = Null /\ entry' = 0
        /\ UNCHANGED <<data, node, copied>>
    BY DEF MqInitAgain, hands
  <1>2. PoolTypeOK /\ CallsOK /\ HandsSound
    BY DEF MqIInv
  <1>3. /\ CallsOK' /\ UNCHANGED <<pc, asleep, arg, result>>
        /\ \A t \in Thread : pc[t] = "user"
        /\ \A m, s \in Nat : Wakeups(m, s)'
    BY <1>1, <1>2, RebornCalls
  <1>4. \A t \in Thread : node'[t] = Null
    BY <1>1, <1>2, <1>3 DEF HandsSound, Busy
  <1>5. NodesSound(<<>>, FreshChain)' /\ FreshChain \in Seq(Node) /\ Busy' = {}
        /\ next' \in [Node -> Node \cup {Null}]
    <2>1. Busy' = {}
      BY <1>4 DEF Busy
    <2>2. Cardinality(Busy') = 0
      BY <2>1, FS_EmptySet
    <2>3. FreshChain \in Seq(Node) /\ SIZE \in Nat
      BY FreshChainIs, NullNoNode DEF IsChain
    <2>4. /\ Range(FreshChain) = Node /\ Len(FreshChain) = SIZE
          /\ IsChain(next', SIZE, FreshChain) /\ next' \in [Node -> Node \cup {Null}]
      BY <1>1, FreshChainIs
    <2>5. Len(<<>>) + Len(FreshChain) + Cardinality(Busy') = SIZE
      BY <2>2, <2>3, <2>4, NoNodes
    <2>6. \A t \in Thread : node'[t] \notin Range(<<>>) /\ node'[t] \notin Range(FreshChain)
      BY <1>4, <2>4, NoNodes, NullNoNode
    <2>7. NodesSound(<<>>, FreshChain)'
      BY <1>1, <2>1, <2>4, <2>5, <2>6, NoNodes DEF NodesSound
    <2> QED BY <2>1, <2>3, <2>4, <2>7
  <1>6. PoolTypeOK' /\ HandsSound'
    <2>1. copied = {}
      BY <1>1, <1>2, <1>4 DEF HandsSound, Busy
    <2> QED BY <1>1, <1>2, <1>5, <2>1 DEF PoolTypeOK, HandsSound
  <1>7. Len(FreshChain) \in Nat
    BY <1>5
  <1>8. Wakeups(entry, Len(FreshChain))'
    BY <1>1, <1>3, <1>7 DEF Wakeups
  <1>9. MqIInv'
    BY <1>3, <1>5, <1>6, <1>8, NoNodes DEF MqIInv
  <1> QED BY <1>1, <1>2, <1>3, <1>5, <1>9, MqCleared

\* Nobody is in a call and all nodes are free.
LEMMA MqInitInv == MqInit => MqIInv /\ MqQueue!Init
  <1> SUFFICES ASSUME MqInit PROVE MqIInv /\ MqQueue!Init
    OBVIOUS
  <1>1. /\ next = FreshLinks /\ msg_queue_free = SIZE /\ msg_queue_head = Null
        /\ msg_queue_tail = Null /\ entry = 0 /\ node = [t \in Thread |-> Null]
        /\ copied = {} /\ CallsInit /\ data \in [Node -> Value]
    BY DEF MqInit
  <1>2. NodesSound(<<>>, FreshChain) /\ FreshChain \in Seq(Node) /\ Busy = {}
        /\ next \in [Node -> Node \cup {Null}]
    BY <1>1, AllFree
  <1>3. CallsOK /\ \A m, s \in Nat : Wakeups(m, s)
    BY <1>1, CallsBegin
  <1>4. PoolTypeOK /\ HandsSound
    BY <1>1, <1>2 DEF PoolTypeOK, HandsSound
  <1>5. Len(FreshChain) \in Nat
    BY <1>2
  <1>6. MqIInv
    BY <1>1, <1>2, <1>3, <1>4, <1>5, NoNodes DEF MqIInv
  <1>7. mqQueue = <<>>
    BY <1>1, <1>2, MqQueueIs, NoNodes
  <1>8. mqCall = [t \in Thread |-> <<"none">>]
    BY <1>1 DEF CallsInit, mqCall
  <1> QED BY <1>6, <1>7, <1>8 DEF MqQueue!Init

\* Every step keeps the invariant and is a step of the queue, or none.
LEMMA MqNextInv == MqIInv /\ [MqNext]_mqVars => MqIInv' /\ MqQueueStep
  <1> SUFFICES ASSUME MqIInv, [MqNext]_mqVars PROVE MqIInv' /\ MqQueueStep
    OBVIOUS
  <1>1. ASSUME NEW t \in Thread, Grab(t) \/ Fill(t) \/ Link(t) \/ LinkUrgent(t)
        PROVE  MqIInv' /\ MqQueueStep
    BY <1>1, GrabStep, FillStep, LinkStep, LinkUrgentStep
  <1>2. ASSUME NEW t \in Thread, UnlinkFirst(t) \/ CopyOut(t) \/ GiveBack(t)
        PROVE  MqIInv' /\ MqQueueStep
    BY <1>2, UnlinkFirstStep, CopyOutStep, GiveBackStep
  <1>3. ASSUME NEW t \in Thread, MqBlock(t) \/ MqGiveUp(t) PROVE MqIInv' /\ MqQueueStep
    BY <1>3, MqBlockStep, MqGiveUpStep
  <1>4. ASSUME NEW t \in Thread, CallStep(t), UNCHANGED <<pool, hands>>
        PROVE  MqIInv' /\ MqQueueStep
    <2>1. CASE WaitEnds(t)
      BY <1>4, <2>1, WaiterLeaves, MqQuietStep DEF MqIInv
    <2>2. CASE ResumeInsert(t)
      BY <1>4, <2>2, SleeperInserted, MqQuietStep DEF MqIInv
    <2>3. CASE ResumeRaced(t)
      BY <1>4, <2>3, SleeperRaced, MqQuietStep DEF MqIInv
    <2> QED BY <1>4, <2>1, <2>2, <2>3, MqCallsStep, MqWaitFailsStep DEF CallStep
  <1>5. CASE MqReset \/ MqInitAgain
    BY <1>5, MqResetStep, MqInitAgainStep
  <1>6. CASE Detach /\ UNCHANGED <<pool, hands>>
    BY <1>6, DetachCalls, MqQuietStep DEF MqIInv
  <1>7. CASE UNCHANGED mqVars \/ (Stopped /\ UNCHANGED <<pool, hands>>)
    BY <1>7, CallsStutter, MqQuietStep DEF mqVars, MqIInv, Stopped
  <1> QED BY <1>1, <1>2, <1>3, <1>4, <1>5, <1>6, <1>7 DEF MqNext

\* The invariant above is one of the message queue.
THEOREM MessageQueueInvariant == MqSpec => []MqIInv
  BY MqInitInv, MqNextInv, PTL DEF MqSpec

\* Every node of the message queue is in the queue, in the free list or in the hands of
\* one thread, and in one of them only, entry counts the queue and the tail is its last
\* node, although rt_mq_send and rt_mq_recv change them in regions of their own, with
\* resets and other calls in between.
THEOREM NodesCorrect == MqSpec => []NodesAccounted
  BY NodesAreAccounted, MessageQueueInvariant, PTL

\* While a receiver waits, for every message another one is on its way to it, and while
\* a sender waits, for every free node, although rt_mq_recv wakes a sender only when the
\* node is given back.
THEOREM MqWakeupCorrect == MqSpec => []MqNoLostWakeup
  BY NodesAreAccounted, MessageQueueInvariant, PTL

\* The linked nodes implement the bounded queue: a message arrives when its node is
\* linked and is delivered when it is unlinked, and what the receiver copies afterwards
\* is that message.
THEOREM MqQueueImplemented == MqSpec => MqImplementsQueue
  <1>1. MqInit => MqQueue!Init
    BY MqInitInv
  <1>2. MqIInv /\ [MqNext]_mqVars => [MqQueue!Next]_<<mqQueue, mqCall>>
    BY MqNextInv DEF MqQueueStep
  <1> QED BY <1>1, <1>2, MessageQueueInvariant, PTL
          DEF MqSpec, MqImplementsQueue, MqQueue!Spec

=============================================================================
