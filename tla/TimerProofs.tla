----------------------------- MODULE TimerProofs -----------------------------
(***************************************************************************)
(* The timers keep their order and fire neither early nor late, and the      *)
(* timer thread sleeps no longer than it may, for any number of timers and   *)
(* any range of the tick.                                                    *)
(***************************************************************************)
EXTENDS Timer, ListProofs

\* The types, and what the application gives as a time.
Types ==
    /\ TypeOK
    /\ stale \in BOOLEAN
    /\ \A t \in AppTimer : init_tick[t] \in Delays[t]

\* The temporary list of a check holds a timer of the check's kind, and only during
\* the callback.
TempSound ==
    /\ isr # "callback" => temp["hard"] = None
    /\ pc \notin {"callback", "blocked"} => temp["soft"] = None
    /\ \A k \in {"hard", "soft"} : temp[k] # None => Kind(temp[k]) = k

\* Where the timer thread is, and what that says of its state and of its own timer.
ThreadSound ==
    /\ busy <=> pc \in {"callback", "blocked"}
    /\ stat = "SUSPEND" => pc \in {"parked", "asleep", "blocked"}
    /\ pc = "delay" => next \in 1 .. HALF - 1
    /\ ThreadTimer \in active => ThreadTimer \in Range(lists["hard"])

\* a and b are the same tick.
SameTick(a, b) == a - b \in {0, TICKS, 0 - TICKS}

\* The deadline of a timer in a list is the tick at which it is due, and that is near
\* enough for the comparisons of wrapped ticks.
DeadlineSound ==
    /\ \A t \in Range(lists["hard"]) \cup Range(lists["soft"]) :
          SameTick(timeout[t], tick + due[t])
    /\ \A t \in Range(lists["hard"]) : due[t] <= HALF - 1
    /\ \A t \in Range(lists["soft"]) :
          due[t] >= 0 - MaxLate /\ due[t] + MaxLate < HALF /\ due[t] + 2 * MaxLate <= HALF + 1

\* What the timer thread found out on its way to sleep holds for all soft timers, if
\* none was started since.
SleepSound ==
    ~stale =>
        /\ pc = "empty" \/ (pc = "parked" /\ stat = "SUSPEND") => lists["soft"] = <<>>
        /\ pc = "found" => \A t \in Range(lists["soft"]) :
                              Diff(timeout[t], next) + MaxLate <= HALF + 1
        /\ pc = "delay" => \A t \in Range(lists["soft"]) : next <= due[t]
        /\ pc = "asleep" /\ stat = "SUSPEND" =>
              \A t \in Range(lists["soft"]) : due[ThreadTimer] <= due[t]

\* The inductive invariant.
IInv ==
    /\ Types /\ LinkedIsActive /\ TempSound /\ ThreadTimerSound /\ ThreadSound
    /\ DeadlineSound /\ InOrder /\ NoneOverdue /\ SleepSound

-----------------------------------------------------------------------------
(* Wrapped ticks.                                                           *)

\* Half the range of the tick.
LEMMA HalfIsHalf ==
    /\ TICKS \in Nat /\ TICKS >= 1 /\ HALF \in Nat /\ MaxLate \in Nat
    /\ 2 * HALF < TICKS
  BY TimerAssumption DEF HALF

\* The difference of two ticks.
LEMMA DiffIs ==
    ASSUME NEW a \in Tick, NEW b \in Tick
    PROVE  Diff(a, b) = IF a >= b THEN a - b ELSE a - b + TICKS
  <1>1. /\ TICKS \in Nat /\ TICKS >= 1 /\ a \in Int /\ b \in Int
        /\ a >= 0 /\ a < TICKS /\ b >= 0 /\ b < TICKS
    BY HalfIsHalf DEF Tick
  <1>2. CASE a >= b
    BY <1>1, <1>2 DEF Diff
  <1>3. CASE a < b
    BY <1>1, <1>3 DEF Diff
  <1> QED BY <1>1, <1>2, <1>3

\* A tick some time later.
LEMMA LaterIs ==
    ASSUME NEW a \in Tick, NEW d \in 0 .. TICKS - 1
    PROVE  /\ (a + d) % TICKS \in Tick
           /\ SameTick((a + d) % TICKS, a + d)
           /\ (a + d) % TICKS = IF a + d < TICKS THEN a + d ELSE a + d - TICKS
  <1>1. /\ TICKS \in Nat /\ TICKS >= 1 /\ a \in Int /\ d \in Int
        /\ a >= 0 /\ a < TICKS /\ d >= 0 /\ d < TICKS
    BY HalfIsHalf DEF Tick
  <1>2. (a + d) % TICKS = IF a + d < TICKS THEN a + d ELSE a + d - TICKS
    BY <1>1
  <1>3. (a + d) % TICKS \in Tick
    BY <1>1, <1>2 DEF Tick
  <1>4. SameTick((a + d) % TICKS, a + d)
    BY <1>1, <1>2 DEF SameTick
  <1> QED BY <1>2, <1>3, <1>4

\* rt_timer_start's comparison: of two deadlines that are near each other the later one.
LEMMA LaterDeadline ==
    ASSUME NEW c \in Tick, NEW a \in Tick, NEW b \in Tick, NEW x \in Int, NEW y \in Int,
           SameTick(a, c + x), SameTick(b, c + y), x - y < HALF, y - x < HALF
    PROVE  /\ Diff(a, b) \in 1 .. HALF - 1 <=> x > y
           /\ x >= y => Diff(a, b) = x - y
  <1>1. /\ TICKS \in Nat /\ TICKS >= 1 /\ a \in Int /\ b \in Int /\ c \in Int
        /\ a >= 0 /\ a < TICKS /\ b >= 0 /\ b < TICKS /\ c >= 0 /\ c < TICKS
        /\ HALF \in Nat /\ 2 * HALF < TICKS
    BY HalfIsHalf DEF Tick
  <1>2. Diff(a, b) = IF a >= b THEN a - b ELSE a - b + TICKS
    BY DiffIs
  <1>3. /\ \/ a = c + x \/ a = c + x + TICKS \/ a = c + x - TICKS
        /\ \/ b = c + y \/ b = c + y + TICKS \/ b = c + y - TICKS
    BY <1>1 DEF SameTick
  <1> HIDE DEF Diff
  <1>4. Diff(a, b) = IF x >= y THEN x - y ELSE x - y + TICKS
    BY <1>1, <1>2, <1>3
  <1> QED BY <1>1, <1>4

\* The test of the checks: a timer has expired when it is due, or was.
LEMMA ExpiredIs ==
    ASSUME NEW c \in Tick, NEW a \in Tick, NEW x \in Int, SameTick(a, c + x),
           x < HALF, 0 - x < HALF
    PROVE  Diff(c, a) < HALF <=> x <= 0
  <1>1. /\ TICKS \in Nat /\ TICKS >= 1 /\ a \in Int /\ c \in Int
        /\ a >= 0 /\ a < TICKS /\ c >= 0 /\ c < TICKS
        /\ HALF \in Nat /\ 2 * HALF < TICKS
    BY HalfIsHalf DEF Tick
  <1>2. Diff(c, a) = IF c >= a THEN c - a ELSE c - a + TICKS
    BY DiffIs
  <1>3. a = c + x \/ a = c + x + TICKS \/ a = c + x - TICKS
    BY <1>1 DEF SameTick
  <1> QED BY <1>1, <1>2, <1>3

\* The timer thread's time to sleep, from a deadline it has read: a timer whose deadline
\* is not far behind that one is not due before.
LEMMA SleepIsShort ==
    ASSUME NEW c \in Tick, NEW n \in Tick, NEW a \in Tick, NEW x \in Int,
           SameTick(a, c + x), x >= 0 - MaxLate, x < HALF,
           Diff(a, n) + MaxLate <= HALF + 1, Diff(n, c) \in 1 .. HALF - 1
    PROVE  Diff(n, c) <= x
  <1>1. /\ TICKS \in Nat /\ TICKS >= 1 /\ a \in Int /\ c \in Int /\ n \in Int
        /\ a >= 0 /\ a < TICKS /\ c >= 0 /\ c < TICKS /\ n >= 0 /\ n < TICKS
        /\ HALF \in Nat /\ 2 * HALF < TICKS /\ MaxLate \in Nat
    BY HalfIsHalf DEF Tick
  <1>2. /\ Diff(a, n) = IF a >= n THEN a - n ELSE a - n + TICKS
        /\ Diff(n, c) = IF n >= c THEN n - c ELSE n - c + TICKS
    BY DiffIs
  <1>3. a = c + x \/ a = c + x + TICKS \/ a = c + x - TICKS
    BY <1>1 DEF SameTick
  <1> QED BY <1>1, <1>2, <1>3

-----------------------------------------------------------------------------
(* Lists in the order of the deadlines.                                     *)

\* The list is in the order in which its timers are due by d.
DueOrder(list, d) ==
    \A i, j \in 1 .. Len(list) : i < j => d[list[i]] <= d[list[j]]

\* Each of the two lists is in order by itself.
LEMMA OrderByKind ==
    InOrder <=> DueOrder(lists["hard"], due) /\ DueOrder(lists["soft"], due)
  BY DEF InOrder, DueOrder

\* As a relation on the timers.
LEMMA OrderAsRelation ==
    ASSUME NEW list \in Seq(Timer), NEW d \in [Timer -> Int]
    PROVE  DueOrder(list, d) <=>
             Ordered(list, {p \in Timer \X Timer : d[p[1]] <= d[p[2]]})
  <1> DEFINE R == {p \in Timer \X Timer : d[p[1]] <= d[p[2]]}
  <1>1. \A i \in 1 .. Len(list) : list[i] \in Timer
    OBVIOUS
  <1>2. \A u, v \in Timer : <<u, v>> \in R <=> d[u] <= d[v]
    OBVIOUS
  <1> HIDE DEF R
  <1>3. DueOrder(list, d) <=> Ordered(list, R)
    BY <1>1, <1>2 DEF DueOrder, Ordered
  <1> QED BY <1>3 DEF R

\* If all that wait come one tick nearer, the order stays.
LEMMA OrderShifted ==
    ASSUME NEW list \in Seq(Timer), NEW d \in [Timer -> Int], NEW e \in [Timer -> Int],
           DueOrder(list, d), \A u \in Range(list) : e[u] = d[u] - 1
    PROVE  DueOrder(list, e)
  <1>1. \A i \in 1 .. Len(list) : list[i] \in Timer /\ list[i] \in Range(list)
    BY RangeByIndex
  <1> QED BY <1>1 DEF DueOrder

\* If nothing changes about those that wait, the order stays.
LEMMA OrderKept ==
    ASSUME NEW list \in Seq(Timer), NEW d, NEW e, DueOrder(list, d),
           \A u \in Range(list) : e[u] = d[u]
    PROVE  DueOrder(list, e)
  <1>1. \A i \in 1 .. Len(list) : list[i] \in Range(list)
    BY RangeByIndex
  <1> QED BY <1>1 DEF DueOrder

\* _timer_remove keeps the order of the others.
LEMMA OrderUnlinked ==
    ASSUME NEW list \in Seq(Timer), NEW d \in [Timer -> Int], NEW t, DueOrder(list, d)
    PROVE  DueOrder(Unlink(list, t), d)
  <1> DEFINE R == {p \in Timer \X Timer : d[p[1]] <= d[p[2]]}
  <1>1. Ordered(list, R)
    BY OrderAsRelation
  <1>2. Unlink(list, t) \in Seq(Timer)
    BY UnlinkUnlinks
  <1> HIDE DEF R
  <1>3. Ordered(Unlink(list, t), R)
    BY <1>1, UnlinkOrdered
  <1> QED BY <1>2, <1>3, OrderAsRelation DEF R

\* The first timer of a list is the first to be due, and without it the order stays.
LEMMA OrderOfTail ==
    ASSUME NEW list \in Seq(Timer), NEW d \in [Timer -> Int], DueOrder(list, d), list # <<>>
    PROVE  /\ DueOrder(Tail(list), d)
           /\ \A u \in Range(list) : d[Head(list)] <= d[u]
  <1>1. /\ Head(list) = list[1] /\ Len(list) \in Nat /\ Len(list) >= 1
        /\ Len(Tail(list)) = Len(list) - 1
        /\ \A i \in 1 .. Len(list) - 1 : Tail(list)[i] = list[i + 1]
        /\ \A i \in 1 .. Len(list) : d[list[i]] \in Int
    OBVIOUS
  <1>2. DueOrder(Tail(list), d)
    BY <1>1 DEF DueOrder
  <1>3. ASSUME NEW u \in Range(list) PROVE d[Head(list)] <= d[u]
    <2>1. PICK i \in 1 .. Len(list) : list[i] = u
      BY <1>3, RangeByIndex
    <2> QED BY <2>1, <1>1 DEF DueOrder
  <1> QED BY <1>2, <1>3

\* rt_timer_start stops before the first timer that is due later.
LEMMA PositionStops ==
    ASSUME NEW list \in Seq(Timer), NEW t \in Timer, NEW to \in [Timer -> Tick],
           NEW d \in [Timer -> Int], NEW c \in Tick, SameTick(to[t], c + d[t]),
           \A u \in Range(list) : /\ SameTick(to[u], c + d[u])
                                  /\ d[u] - d[t] < HALF /\ d[t] - d[u] < HALF
    PROVE  /\ Position(list, t, to) \in 1 .. Len(list) + 1
           /\ \A j \in 1 .. Len(list) : j < Position(list, t, to) => d[list[j]] <= d[t]
           /\ Position(list, t, to) <= Len(list) => d[t] < d[list[Position(list, t, to)]]
  <1> DEFINE later == {i \in DOMAIN list : Diff(to[list[i]], to[t]) \in 1 .. HALF - 1}
             k == Position(list, t, to)
  <1>1. DOMAIN list = 1 .. Len(list) /\ Len(list) \in Nat
    OBVIOUS
  <1>2. ASSUME NEW i \in 1 .. Len(list) PROVE i \in later <=> d[list[i]] > d[t]
    <2>1. list[i] \in Timer /\ list[i] \in Range(list)
      BY RangeByIndex
    <2>2. d[list[i]] \in Int /\ d[t] \in Int /\ to[list[i]] \in Tick /\ to[t] \in Tick
      BY <2>1
    <2>3. Diff(to[list[i]], to[t]) \in 1 .. HALF - 1 <=> d[list[i]] > d[t]
      BY <2>1, <2>2, LaterDeadline
    <2> QED BY <2>3
  <1>3. later \in SUBSET (1 .. Len(list)) /\ later \in SUBSET Nat
    BY <1>1
  <1>4. k = IF later = {} THEN Len(list) + 1
            ELSE CHOOSE i \in later : \A j \in later : i <= j
    BY DEF Position
  <1>5. \A i \in 1 .. Len(list) : d[list[i]] \in Int
    OBVIOUS
  <1>6. d[t] \in Int
    OBVIOUS
  <1> HIDE DEF later, k
  <1>7. CASE later = {}
    <2>1. k = Len(list) + 1
      BY <1>4, <1>7
    <2>2. \A j \in 1 .. Len(list) : d[list[j]] <= d[t]
      BY <1>2, <1>5, <1>6, <1>7
    <2> QED BY <2>1, <2>2, <1>1 DEF k
  <1>8. CASE later # {}
    <2>1. \E i \in later : \A j \in later : i <= j
      BY <1>3, <1>8, MinimumExists
    <2>2. k \in later /\ \A j \in later : k <= j
      BY <2>1, <1>4, <1>8
    <2>3. k \in 1 .. Len(list)
      BY <2>2, <1>3
    <2>4. ASSUME NEW j \in 1 .. Len(list), j < k PROVE d[list[j]] <= d[t]
      <3>1. j \notin later
        BY <2>2, <2>3, <2>4
      <3> QED BY <3>1, <1>2, <1>5, <1>6
    <2>5. d[t] < d[list[k]]
      BY <2>2, <2>3, <1>2, <1>5, <1>6
    <2> QED BY <2>3, <2>4, <2>5 DEF k
  <1> QED BY <1>7, <1>8

\* rt_timer_start links the timer where it belongs.
LEMMA LinkedInOrder ==
    ASSUME NEW list \in Seq(Timer), NEW t \in Timer, NEW to \in [Timer -> Tick],
           NEW d \in [Timer -> Int], NEW c \in Tick, SameTick(to[t], c + d[t]),
           \A u \in Range(list) : /\ SameTick(to[u], c + d[u])
                                  /\ d[u] - d[t] < HALF /\ d[t] - d[u] < HALF,
           IsInjective(list), t \notin Range(list), DueOrder(list, d)
    PROVE  LET r == LinkAt(list, Position(list, t, to), t)
           IN  /\ r \in Seq(Timer) /\ IsInjective(r) /\ Range(r) = Range(list) \cup {t}
               /\ DueOrder(r, d)
  <1> DEFINE k == Position(list, t, to)
             r == LinkAt(list, k, t)
             R == {p \in Timer \X Timer : d[p[1]] <= d[p[2]]}
  <1>1. /\ k \in 1 .. Len(list) + 1
        /\ \A j \in 1 .. Len(list) : j < k => d[list[j]] <= d[t]
        /\ k <= Len(list) => d[t] < d[list[k]]
    BY PositionStops
  <1> HIDE DEF k
  <1>2. /\ r \in Seq(Timer) /\ IsInjective(r) /\ Range(r) = Range(list) \cup {t}
    BY <1>1, LinkAtLinks
  <1>3. /\ \A i \in 1 .. Len(list) : list[i] \in Timer /\ d[list[i]] \in Int
        /\ d[t] \in Int /\ Len(list) \in Nat
    OBVIOUS
  <1>4. \A j \in 1 .. Len(list) : k <= j => d[t] <= d[list[j]]
    <2> SUFFICES ASSUME NEW j \in 1 .. Len(list), k <= j PROVE d[t] <= d[list[j]]
      OBVIOUS
    <2>1. k \in 1 .. Len(list)
      BY <1>1, <1>3
    <2>2. d[list[k]] <= d[list[j]]
      BY <2>1, <1>3 DEF DueOrder
    <2> QED BY <2>1, <2>2, <1>1, <1>3
  <1>5. Ordered(list, R)
    BY OrderAsRelation
  <1>6. /\ \A j \in 1 .. Len(list) : j < k => <<list[j], t>> \in R
        /\ \A j \in 1 .. Len(list) : k <= j => <<t, list[j]>> \in R
    BY <1>1, <1>3, <1>4
  <1> HIDE DEF R
  <1>7. Ordered(r, R)
    BY <1>1, <1>5, <1>6, LinkAtOrdered
  <1>8. DueOrder(r, d)
    BY <1>2, <1>7, OrderAsRelation DEF R
  <1> QED BY <1>2, <1>8 DEF k

-----------------------------------------------------------------------------
(* Starting a timer.                                                        *)

\* What the invariant says of the two lists.
LEMMA ListsAre ==
    ASSUME IInv
    PROVE  /\ lists["hard"] \in Seq(Timer) /\ lists["soft"] \in Seq(Timer)
           /\ IsInjective(lists["hard"]) /\ IsInjective(lists["soft"])
           /\ DueOrder(lists["hard"], due) /\ DueOrder(lists["soft"], due)
           /\ Range(lists["hard"]) \subseteq active \ Soft
           /\ Range(lists["soft"]) \subseteq active \cap Soft
           /\ \A u \in Range(lists["hard"]) : due[u] >= 0 /\ due[u] < HALF
           /\ \A u \in Range(lists["soft"]) : /\ due[u] >= 0 - MaxLate
                                              /\ due[u] + MaxLate < HALF
                                              /\ due[u] + 2 * MaxLate <= HALF + 1
           /\ due \in [Timer -> Int] /\ timeout \in [Timer -> Tick] /\ tick \in Tick
           /\ active \subseteq Timer /\ Soft \subseteq AppTimer /\ ThreadTimer \notin Soft
           /\ ThreadTimer \in Timer /\ None \notin Timer /\ AppTimer \subseteq Timer
           /\ periodic \subseteq AppTimer
  <1>1. /\ lists["hard"] \in Seq(Timer) /\ lists["soft"] \in Seq(Timer)
        /\ due \in [Timer -> Int] /\ timeout \in [Timer -> Tick] /\ tick \in Tick
        /\ active \subseteq Timer
    BY DEF IInv, Types, TypeOK
  <1>2. /\ Soft \subseteq AppTimer /\ ThreadTimer \notin Soft /\ ThreadTimer \in Timer
        /\ None \notin Timer /\ AppTimer \subseteq Timer /\ periodic \subseteq AppTimer
    BY TimerAssumption DEF Timer, IInv, Types, TypeOK
  <1>3. IsInjective(lists["hard"]) /\ IsInjective(lists["soft"])
    BY DEF IInv, LinkedIsActive
  <1>4. DueOrder(lists["hard"], due) /\ DueOrder(lists["soft"], due)
    BY OrderByKind DEF IInv
  <1>5. /\ \A u \in Range(lists["hard"]) : Kind(u) = "hard" /\ u \in active
        /\ \A u \in Range(lists["soft"]) : Kind(u) = "soft" /\ u \in active
    BY DEF IInv, LinkedIsActive
  <1>6. /\ Range(lists["hard"]) \subseteq active \ Soft
        /\ Range(lists["soft"]) \subseteq active \cap Soft
    BY <1>5 DEF Kind
  <1>7. ASSUME NEW u \in Range(lists["hard"]) PROVE due[u] >= 0 /\ due[u] < HALF
    <2>1. due[u] >= 0 /\ due[u] <= HALF - 1
      BY DEF IInv, NoneOverdue, DeadlineSound
    <2>2. due[u] \in Int
      BY <1>1, <1>6
    <2> QED BY <2>1, <2>2, HalfIsHalf
  <1>8. \A u \in Range(lists["soft"]) : /\ due[u] >= 0 - MaxLate
                                        /\ due[u] + MaxLate < HALF
                                        /\ due[u] + 2 * MaxLate <= HALF + 1
    BY DEF IInv, DeadlineSound
  <1> QED BY <1>1, <1>2, <1>3, <1>4, <1>6, <1>7, <1>8

\* A timer is unlinked from a list and linked again by its new deadline.
LEMMA Relinked ==
    ASSUME NEW list \in Seq(Timer), IsInjective(list), NEW t \in Timer,
           NEW d \in [Timer -> Int], DueOrder(list, d), NEW x \in Int,
           NEW to \in [Timer -> Tick], NEW c \in Tick, SameTick(to[t], c + x),
           \A u \in Range(list) \ {t} : /\ SameTick(to[u], c + d[u])
                                        /\ d[u] - x < HALF /\ x - d[u] < HALF
    PROVE  LET rest == Unlink(list, t)
               r == LinkAt(rest, Position(rest, t, to), t)
           IN  /\ r \in Seq(Timer) /\ IsInjective(r) /\ Range(r) = Range(list) \cup {t}
               /\ DueOrder(r, [d EXCEPT ![t] = x])
  <1> DEFINE rest == Unlink(list, t)
             e == [d EXCEPT ![t] = x]
  <1>1. /\ rest \in Seq(Timer) /\ IsInjective(rest) /\ Range(rest) = Range(list) \ {t}
        /\ DueOrder(rest, d)
    BY UnlinkUnlinks, OrderUnlinked
  <1>2. /\ e \in [Timer -> Int] /\ e[t] = x
        /\ \A u \in Range(list) \ {t} : e[u] = d[u]
    BY ListEmpty
  <1> HIDE DEF rest, e
  <1>3. DueOrder(rest, e)
    BY <1>1, <1>2, OrderKept
  <1>4. \A u \in Range(rest) : /\ SameTick(to[u], c + e[u])
                               /\ e[u] - e[t] < HALF /\ e[t] - e[u] < HALF
    BY <1>1, <1>2
  <1>5. SameTick(to[t], c + e[t]) /\ t \notin Range(rest)
    BY <1>1, <1>2
  <1>6. LET r == LinkAt(rest, Position(rest, t, to), t)
        IN  /\ r \in Seq(Timer) /\ IsInjective(r) /\ Range(r) = Range(rest) \cup {t}
            /\ DueOrder(r, e)
    BY <1>1, <1>2, <1>3, <1>4, <1>5, LinkedInOrder
  <1>7. Range(rest) \cup {t} = Range(list) \cup {t}
    BY <1>1
  <1> QED BY <1>6, <1>7 DEF rest, e

\* The timer thread is resumed by the start of t.
Wakes(t) == t \in Soft /\ ~busy /\ stat = "SUSPEND"

\* What rt_timer_start does to the lists and the times.
LEMMA StartLinks ==
    ASSUME IInv, NEW t \in AppTimer, rt_timer_start(t)
    PROVE  /\ lists' \in [{"hard", "soft"} -> Seq(Timer)]
           /\ IsInjective(lists'["hard"]) /\ IsInjective(lists'["soft"])
           /\ DueOrder(lists'["hard"], due') /\ DueOrder(lists'["soft"], due')
           /\ Range(lists'["hard"]) =
                IF t \in Soft THEN Range(lists["hard"]) \ (IF Wakes(t) THEN {ThreadTimer} ELSE {})
                ELSE Range(lists["hard"]) \cup {t}
           /\ Range(lists'["soft"]) =
                IF t \in Soft THEN Range(lists["soft"]) \cup {t} ELSE Range(lists["soft"])
           /\ timeout' \in [Timer -> Tick] /\ due' \in [Timer -> Int]
           /\ \A u \in Timer \ {t} : due'[u] = due[u] /\ timeout'[u] = timeout[u]
           /\ due'[t] = init_tick[t] /\ SameTick(timeout'[t], tick + due'[t])
           /\ init_tick[t] \in 1 .. HALF - 1 - MaxLate
           /\ t \in Soft => init_tick[t] + 2 * MaxLate <= HALF + 1
  <1> DEFINE to == [timeout EXCEPT ![t] = (tick + init_tick[t]) % TICKS]
             x == init_tick[t]
             k == Kind(t)
             rest == Unlink(lists[k], t)
             r == LinkAt(rest, Position(rest, t, to), t)
  <1>1. /\ t \in Timer /\ x \in 1 .. HALF - 1 - MaxLate
        /\ t \in Soft => x + 2 * MaxLate <= HALF + 1
    BY TimerAssumption DEF IInv, Types, Timer
  <1>2. /\ x \in Int /\ x >= 1 /\ x + MaxLate < HALF /\ x \in 0 .. TICKS - 1 /\ x < HALF
    BY <1>1, HalfIsHalf
  <1>3. (tick + x) % TICKS \in Tick /\ SameTick((tick + x) % TICKS, tick + x)
    BY <1>2, ListsAre, LaterIs
  <1>4. /\ to \in [Timer -> Tick] /\ SameTick(to[t], tick + x)
        /\ \A u \in Timer \ {t} : to[u] = timeout[u]
    BY <1>1, <1>3, ListsAre
  <1>5. /\ timeout' = to /\ due' = [due EXCEPT ![t] = x]
        /\ lists' = IF Wakes(t) THEN [[lists EXCEPT ![k] = r] EXCEPT !["hard"] = Unlink(@, ThreadTimer)]
                    ELSE [lists EXCEPT ![k] = r]
    <2>1. lists \in [{"hard", "soft"} -> Seq(Timer)] /\ k \in {"hard", "soft"}
      BY DEF IInv, Types, TypeOK, Kind
    <2>2. Removed(t) = [lists EXCEPT ![k] = rest]
      BY DEF Removed
    <2>3. [Removed(t) EXCEPT ![k] = LinkAt(@, Position(@, t, to), t)] = [lists EXCEPT ![k] = r]
      BY <2>1, <2>2
    <2> QED BY <2>3 DEF rt_timer_start, Wakes
  <1>6. /\ due' \in [Timer -> Int] /\ due'[t] = x
        /\ \A u \in Timer \ {t} : due'[u] = due[u]
    BY <1>1, <1>2, <1>5, ListsAre
  <1>7. \A u \in Range(lists[k]) \ {t} : /\ SameTick(to[u], tick + due[u])
                                         /\ due[u] - x < HALF /\ x - due[u] < HALF
    <2> TAKE u \in Range(lists[k]) \ {t}
    <2>1. u \in Timer /\ due[u] \in Int /\ to[u] = timeout[u]
      BY <1>4, ListsAre DEF Kind
    <2>2. SameTick(timeout[u], tick + due[u])
      BY DEF IInv, DeadlineSound, Kind
    <2>3. CASE k = "hard"
      <3>1. due[u] >= 0 /\ due[u] < HALF
        BY <2>3, ListsAre
      <3> QED BY <3>1, <2>1, <2>2, <1>2, HalfIsHalf
    <2>4. CASE k = "soft"
      <3>1. due[u] >= 0 - MaxLate /\ due[u] + MaxLate < HALF
        BY <2>4, ListsAre
      <3> QED BY <3>1, <2>1, <2>2, <1>2, HalfIsHalf
    <2> QED BY <2>3, <2>4 DEF Kind
  <1>8. /\ lists[k] \in Seq(Timer) /\ IsInjective(lists[k]) /\ DueOrder(lists[k], due)
        /\ due \in [Timer -> Int] /\ tick \in Tick
    BY ListsAre DEF Kind
  <1> HIDE DEF to, x
  <1>9. /\ r \in Seq(Timer) /\ IsInjective(r) /\ Range(r) = Range(lists[k]) \cup {t}
        /\ DueOrder(r, due')
    BY <1>1, <1>2, <1>4, <1>5, <1>7, <1>8, Relinked
  <1>10. ASSUME NEW list \in Seq(Timer), DueOrder(list, due), t \notin Range(list)
         PROVE  DueOrder(list, due')
    BY <1>6, <1>8, <1>10, ListEmpty, OrderKept
  <1>11. lists \in [{"hard", "soft"} -> Seq(Timer)]
    BY DEF IInv, Types, TypeOK
  <1> HIDE DEF r, rest
  <1>12. /\ lists' \in [{"hard", "soft"} -> Seq(Timer)]
         /\ IsInjective(lists'["hard"]) /\ IsInjective(lists'["soft"])
         /\ DueOrder(lists'["hard"], due') /\ DueOrder(lists'["soft"], due')
         /\ Range(lists'["hard"]) =
              IF t \in Soft THEN Range(lists["hard"]) \ (IF Wakes(t) THEN {ThreadTimer} ELSE {})
              ELSE Range(lists["hard"]) \cup {t}
         /\ Range(lists'["soft"]) =
              IF t \in Soft THEN Range(lists["soft"]) \cup {t} ELSE Range(lists["soft"])
    <2>1. CASE t \notin Soft
      <3>1. k = "hard" /\ ~Wakes(t)
        BY <2>1 DEF Kind, Wakes
      <3>2. lists'["hard"] = r /\ lists'["soft"] = lists["soft"]
        BY <3>1, <1>5, <1>11
      <3>3. lists' \in [{"hard", "soft"} -> Seq(Timer)]
        BY <3>1, <1>5, <1>9, <1>11
      <3>4. DueOrder(lists["soft"], due')
        BY <1>10, <2>1, ListsAre
      <3> QED BY <2>1, <3>1, <3>2, <3>3, <3>4, <1>9, ListsAre
    <2>2. CASE t \in Soft
      <3> DEFINE h == lists["hard"]
                 g == IF Wakes(t) THEN Unlink(h, ThreadTimer) ELSE h
      <3>1. k = "soft"
        BY <2>2 DEF Kind
      <3>2. lists' = [lists EXCEPT !["soft"] = r, !["hard"] = g]
        BY <3>1, <1>5, <1>11
      <3>3. h \in Seq(Timer) /\ IsInjective(h) /\ DueOrder(h, due')
        BY <1>10, <2>2, ListsAre
      <3>4. /\ g \in Seq(Timer) /\ IsInjective(g) /\ DueOrder(g, due')
            /\ Range(g) = Range(h) \ (IF Wakes(t) THEN {ThreadTimer} ELSE {})
        BY <3>3, <1>6, UnlinkUnlinks, OrderUnlinked
      <3> HIDE DEF g
      <3>5. lists'["soft"] = r /\ lists'["hard"] = g
        BY <3>2, <1>11
      <3>6. lists' \in [{"hard", "soft"} -> Seq(Timer)]
        BY <3>2, <3>4, <1>9, <1>11
      <3> QED BY <2>2, <3>1, <3>4, <3>5, <3>6, <1>9
    <2> QED BY <2>1, <2>2
  <1>13. timeout' \in [Timer -> Tick] /\ SameTick(timeout'[t], tick + due'[t])
    BY <1>4, <1>5, <1>6
  <1>14. \A u \in Timer \ {t} : timeout'[u] = timeout[u]
    BY <1>4, <1>5
  <1> QED BY <1>1, <1>6, <1>12, <1>13, <1>14 DEF x

\* What rt_timer_start keeps, wherever it is called from: by a thread or a callback, or
\* at the end of a callback of a periodic timer.
LEMMA StartKeeps ==
    ASSUME IInv, NEW t \in AppTimer, rt_timer_start(t), tick' = tick,
           isr' = "none" => isr = "none",
           \/ pc' = pc
           \/ pc = "callback" /\ pc' = "check"
    PROVE  /\ lists' \in [{"hard", "soft"} -> Seq(Timer)] /\ timeout' \in [Timer -> Tick]
           /\ temp' \in [{"hard", "soft"} -> Timer \cup {None}]
           /\ active' \subseteq Timer /\ stat' \in {"READY", "SUSPEND"}
           /\ due' \in [Timer -> Int]
           /\ LinkedIsActive' /\ DeadlineSound' /\ InOrder' /\ NoneOverdue' /\ ThreadTimerSound'
           /\ ThreadTimer \in active' => ThreadTimer \in Range(lists'["hard"])
           /\ \A k \in {"hard", "soft"} : temp'[k] = IF temp[k] = t THEN None ELSE temp[k]
           /\ stat' = IF Wakes(t) THEN "READY" ELSE stat
           /\ \A u \in Timer \ {t} : due'[u] = due[u] /\ timeout'[u] = timeout[u]
           /\ t \notin Soft => Range(lists'["soft"]) = Range(lists["soft"])
  <1>1. /\ lists' \in [{"hard", "soft"} -> Seq(Timer)]
        /\ IsInjective(lists'["hard"]) /\ IsInjective(lists'["soft"])
        /\ DueOrder(lists'["hard"], due') /\ DueOrder(lists'["soft"], due')
        /\ Range(lists'["hard"]) =
             IF t \in Soft THEN Range(lists["hard"]) \ (IF Wakes(t) THEN {ThreadTimer} ELSE {})
             ELSE Range(lists["hard"]) \cup {t}
        /\ Range(lists'["soft"]) =
             IF t \in Soft THEN Range(lists["soft"]) \cup {t} ELSE Range(lists["soft"])
        /\ timeout' \in [Timer -> Tick] /\ due' \in [Timer -> Int]
        /\ \A u \in Timer \ {t} : due'[u] = due[u] /\ timeout'[u] = timeout[u]
        /\ due'[t] = init_tick[t] /\ SameTick(timeout'[t], tick + due'[t])
        /\ init_tick[t] \in 1 .. HALF - 1 - MaxLate
        /\ t \in Soft => init_tick[t] + 2 * MaxLate <= HALF + 1
    BY StartLinks
  <1>2. /\ temp' = NotTemp(t) /\ stat' = IF Wakes(t) THEN "READY" ELSE stat
        /\ active' = IF Wakes(t) THEN (active \cup {t}) \ {ThreadTimer} ELSE active \cup {t}
    BY DEF rt_timer_start, Wakes
  <1>3. /\ t \in Timer /\ t # ThreadTimer /\ t # None /\ active \subseteq Timer
        /\ Range(lists["hard"]) \subseteq active \ Soft
        /\ Range(lists["soft"]) \subseteq active \cap Soft
        /\ ThreadTimer \notin Soft /\ None \notin Timer
    BY ListsAre, TimerAssumption DEF Timer
  <1>4. /\ temp \in [{"hard", "soft"} -> Timer \cup {None}] /\ stat \in {"READY", "SUSPEND"}
        /\ \A k \in {"hard", "soft"} : temp[k] # None => Kind(temp[k]) = k
    BY DEF IInv, Types, TypeOK, TempSound
  <1>5. /\ temp' \in [{"hard", "soft"} -> Timer \cup {None}]
        /\ \A k \in {"hard", "soft"} : temp'[k] = IF temp[k] = t THEN None ELSE temp[k]
    BY <1>2, <1>3, <1>4 DEF NotTemp, Kind
  <1>6. active' \subseteq Timer /\ stat' \in {"READY", "SUSPEND"}
    BY <1>2, <1>3, <1>4
  <1>7. /\ Range(lists'["hard"]) \subseteq active' \ Soft
        /\ Range(lists'["soft"]) \subseteq active' \cap Soft
    <2>1. CASE t \notin Soft
      <3>1. ~Wakes(t)
        BY <2>1 DEF Wakes
      <3> QED BY <2>1, <3>1, <1>1, <1>2, <1>3
    <2>2. CASE t \in Soft /\ ~Wakes(t)
      BY <2>2, <1>1, <1>2, <1>3
    <2>3. CASE t \in Soft /\ Wakes(t)
      BY <2>3, <1>1, <1>2, <1>3
    <2> QED BY <2>1, <2>2, <2>3
  <1>8. LinkedIsActive'
    <2>1. \A u \in Range(lists'["hard"]) : Kind(u) = "hard" /\ u \in active'
      BY <1>7 DEF Kind
    <2>2. \A u \in Range(lists'["soft"]) : Kind(u) = "soft" /\ u \in active'
      BY <1>7 DEF Kind
    <2>3. ASSUME NEW k \in {"hard", "soft"} PROVE temp'[k] \notin Range(lists'[k])
      <3>1. temp[k] \notin Range(lists[k]) /\ None \notin Range(lists[k])
        BY <1>3 DEF IInv, LinkedIsActive
      <3>2. temp'[k] # t /\ temp'[k] \notin Range(lists[k])
        BY <3>1, <1>3, <1>5
      <3> QED BY <3>2, <1>1
    <2> QED BY <2>1, <2>2, <2>3, <1>1 DEF LinkedIsActive
  <1>9. InOrder'
    BY <1>1 DEF InOrder, DueOrder
  <1>10. ASSUME NEW u \in Range(lists'["hard"])
         PROVE  /\ SameTick(timeout'[u], tick' + due'[u]) /\ due'[u] <= HALF - 1
                /\ due'[u] >= 0 /\ (isr' = "none" => due'[u] > 0)
    <2>1. CASE u = t
      BY <2>1, <1>1, HalfIsHalf
    <2>2. CASE u # t
      <3>1. u \in Range(lists["hard"]) /\ u \in Timer \ {t}
        BY <2>2, <1>1, <1>3
      <3>2. due'[u] = due[u] /\ timeout'[u] = timeout[u]
        BY <3>1, <1>1
      <3> QED BY <3>1, <3>2 DEF IInv, DeadlineSound, NoneOverdue
    <2> QED BY <2>1, <2>2
  <1>11. ASSUME NEW u \in Range(lists'["soft"])
         PROVE  /\ SameTick(timeout'[u], tick' + due'[u]) /\ due'[u] >= 0 - MaxLate
                /\ due'[u] + MaxLate < HALF /\ due'[u] + 2 * MaxLate <= HALF + 1
    <2>1. CASE u = t
      <3>1. t \in Soft
        BY <2>1, <1>7
      <3> QED BY <2>1, <3>1, <1>1, HalfIsHalf
    <2>2. CASE u # t
      <3>1. u \in Range(lists["soft"]) /\ u \in Timer \ {t}
        BY <2>2, <1>1, <1>3
      <3>2. due'[u] = due[u] /\ timeout'[u] = timeout[u]
        BY <3>1, <1>1
      <3> QED BY <3>1, <3>2 DEF IInv, DeadlineSound
    <2> QED BY <2>1, <2>2
  <1>12. DeadlineSound' /\ NoneOverdue'
    BY <1>10, <1>11 DEF DeadlineSound, NoneOverdue
  <1>13. ThreadTimerSound'
    <2>1. CASE Wakes(t)
      <3>1. pc # "blocked" /\ pc' # "blocked"
        BY <2>1 DEF Wakes, IInv, ThreadSound
      <3> QED BY <2>1, <3>1, <1>2 DEF ThreadTimerSound
    <2>2. CASE ~Wakes(t)
      BY <2>2, <1>2, <1>3 DEF ThreadTimerSound, IInv
    <2> QED BY <2>1, <2>2
  <1>14. ThreadTimer \in active' => ThreadTimer \in Range(lists'["hard"])
    BY <1>1, <1>2, <1>3 DEF IInv, ThreadSound
  <1> QED BY <1>1, <1>2, <1>5, <1>6, <1>8, <1>9, <1>12, <1>13, <1>14

\* A timer that is not soft is started: what the timer thread found out still holds.
LEMMA SleepsOn ==
    ASSUME IInv, NEW t \in AppTimer \ Soft, rt_timer_start(t), tick' = tick,
           pc' = pc, next' = next, stale' = stale, isr' = "none" => isr = "none"
    PROVE  SleepSound'
  <1>1. /\ stat' = stat /\ Range(lists'["soft"]) = Range(lists["soft"])
        /\ lists'["soft"] \in Seq(Timer) /\ lists["soft"] \in Seq(Timer)
    BY StartKeeps, ListsAre DEF Wakes
  <1>2. lists["soft"] = <<>> => lists'["soft"] = <<>>
    BY <1>1, ListEmpty
  <1>3. \A u \in Range(lists["soft"]) \cup {ThreadTimer} :
           due'[u] = due[u] /\ timeout'[u] = timeout[u]
    <2>1. \A u \in Range(lists["soft"]) \cup {ThreadTimer} : u \in Timer \ {t}
      BY ListsAre, TimerAssumption
    <2> QED BY <2>1, StartKeeps
  <1> QED BY <1>1, <1>2, <1>3 DEF IInv, SleepSound, Diff

-----------------------------------------------------------------------------
(* The actions.                                                             *)

\* A thread or a callback starts a timer.
LEMMA StartStep == ASSUME IInv, NEW t \in AppTimer, Start(t) PROVE IInv'
  <1>1. /\ rt_timer_start(t) /\ UNCHANGED <<tick, init_tick, periodic, isr, pc, busy, next>>
        /\ stale' = (stale \/ (t \in Soft /\ pc \in {"empty", "found", "delay"}))
    BY DEF Start
  <1>2. /\ lists' \in [{"hard", "soft"} -> Seq(Timer)] /\ timeout' \in [Timer -> Tick]
        /\ temp' \in [{"hard", "soft"} -> Timer \cup {None}]
        /\ active' \subseteq Timer /\ stat' \in {"READY", "SUSPEND"}
        /\ due' \in [Timer -> Int]
        /\ LinkedIsActive' /\ DeadlineSound' /\ InOrder' /\ NoneOverdue' /\ ThreadTimerSound'
        /\ ThreadTimer \in active' => ThreadTimer \in Range(lists'["hard"])
        /\ \A k \in {"hard", "soft"} : temp'[k] = IF temp[k] = t THEN None ELSE temp[k]
        /\ stat' = IF Wakes(t) THEN "READY" ELSE stat
    BY <1>1, StartKeeps
  <1>3. Types'
    BY <1>1, <1>2 DEF IInv, Types, TypeOK
  <1>4. TempSound'
    BY <1>1, <1>2 DEF IInv, TempSound
  <1>5. ThreadSound'
    BY <1>1, <1>2 DEF IInv, ThreadSound
  <1>6. SleepSound'
    <2>1. CASE t \notin Soft
      <3>1. stale' = stale
        BY <2>1, <1>1 DEF IInv, Types
      <3> QED BY <2>1, <3>1, <1>1, SleepsOn
    <2>2. CASE t \in Soft
      <3>1. CASE pc \in {"empty", "found", "delay"}
        BY <2>2, <3>1, <1>1 DEF SleepSound
      <3>2. CASE pc \notin {"empty", "found", "delay"}
        <4>1. pc \in {"parked", "asleep"} => stat' # "SUSPEND"
          BY <2>2, <1>2 DEF Wakes, IInv, ThreadSound
        <4> QED BY <3>2, <4>1, <1>1 DEF SleepSound
      <3> QED BY <3>1, <3>2
    <2> QED BY <2>1, <2>2
  <1> QED BY <1>2, <1>3, <1>4, <1>5, <1>6 DEF IInv

\* A timer is taken out of the list, or the temporary list, that it is in.
LEMMA RemoveKeeps ==
    ASSUME IInv, NEW t \in AppTimer, lists' = Removed(t), temp' = NotTemp(t),
           active' = active \ {t}, init_tick' \in [Timer -> 0 .. HALF - 1],
           \A u \in AppTimer : init_tick'[u] \in Delays[u], periodic' \subseteq Repeating,
           UNCHANGED <<tick, timeout, isr, thread, due, stale>>
    PROVE  IInv'
  <1> DEFINE k == Kind(t)
             r == Unlink(lists[k], t)
  <1>1. /\ UNCHANGED <<tick, timeout, isr, pc, stat, busy, next, due, stale>>
    BY DEF thread
  <1>2. /\ lists \in [{"hard", "soft"} -> Seq(Timer)] /\ k \in {"hard", "soft"}
        /\ temp \in [{"hard", "soft"} -> Timer \cup {None}]
        /\ IsInjective(lists[k]) /\ DueOrder(lists[k], due) /\ due \in [Timer -> Int]
    BY ListsAre DEF IInv, Types, TypeOK, Kind
  <1>3. /\ r \in Seq(Timer) /\ IsInjective(r) /\ Range(r) = Range(lists[k]) \ {t}
        /\ DueOrder(r, due)
    BY <1>2, UnlinkUnlinks, OrderUnlinked
  <1>4. lists' = [lists EXCEPT ![k] = r]
    BY DEF Removed
  <1> HIDE DEF r
  <1>5. /\ lists' \in [{"hard", "soft"} -> Seq(Timer)]
        /\ \A j \in {"hard", "soft"} : lists'[j] = IF j = k THEN r ELSE lists[j]
    BY <1>2, <1>3, <1>4
  <1>6. /\ t # ThreadTimer /\ t # None /\ t \in Timer /\ None \notin Timer
        /\ active \subseteq Timer
        /\ Range(lists["hard"]) \subseteq active \ Soft
        /\ Range(lists["soft"]) \subseteq active \cap Soft
    BY ListsAre, TimerAssumption DEF Timer
  <1>7. /\ Range(lists'["hard"]) = Range(lists["hard"]) \ {t}
        /\ Range(lists'["soft"]) = Range(lists["soft"]) \ {t}
    BY <1>3, <1>5, <1>6 DEF Kind
  <1>8. /\ IsInjective(lists'["hard"]) /\ IsInjective(lists'["soft"])
        /\ DueOrder(lists'["hard"], due) /\ DueOrder(lists'["soft"], due)
    BY <1>3, <1>5, ListsAre
  <1>9. \A j \in {"hard", "soft"} : temp'[j] = IF j = k /\ temp[j] = t THEN None ELSE temp[j]
    BY <1>2 DEF NotTemp
  <1>10. temp' \in [{"hard", "soft"} -> Timer \cup {None}]
    BY <1>2 DEF NotTemp
  <1>11. Types'
    BY <1>1, <1>5, <1>6, <1>10 DEF IInv, Types, TypeOK
  <1>12. LinkedIsActive'
    <2>1. \A u \in Range(lists'["hard"]) : Kind(u) = "hard" /\ u \in active'
      BY <1>6, <1>7 DEF Kind
    <2>2. \A u \in Range(lists'["soft"]) : Kind(u) = "soft" /\ u \in active'
      BY <1>6, <1>7 DEF Kind
    <2>3. ASSUME NEW j \in {"hard", "soft"} PROVE temp'[j] \notin Range(lists'[j])
      <3>1. temp[j] \notin Range(lists[j]) /\ None \notin Range(lists[j])
        BY <1>6 DEF IInv, LinkedIsActive
      <3> QED BY <3>1, <1>7, <1>9
    <2> QED BY <2>1, <2>2, <2>3, <1>8 DEF LinkedIsActive
  <1>13. TempSound'
    BY <1>1, <1>9 DEF IInv, TempSound
  <1>14. ThreadTimerSound'
    BY <1>1, <1>6 DEF IInv, ThreadTimerSound
  <1>15. ThreadSound'
    BY <1>1, <1>6, <1>7 DEF IInv, ThreadSound
  <1>16. DeadlineSound'
    BY <1>1, <1>7 DEF IInv, DeadlineSound
  <1>17. InOrder'
    BY <1>1, <1>8 DEF InOrder, DueOrder
  <1>18. NoneOverdue'
    BY <1>1, <1>7 DEF IInv, NoneOverdue
  <1>19. SleepSound'
    <2>1. lists["soft"] = <<>> => lists'["soft"] = <<>>
      BY <1>2, <1>5, <1>7, ListEmpty
    <2> QED BY <2>1, <1>1, <1>7 DEF IInv, SleepSound, Diff
  <1> QED BY <1>11, <1>12, <1>13, <1>14, <1>15, <1>16, <1>17, <1>18, <1>19 DEF IInv

\* A new time given to a timer is one of its delays.
LEMMA NewTime ==
    ASSUME IInv, NEW t \in AppTimer, NEW d \in Delays[t]
    PROVE  LET new == [init_tick EXCEPT ![t] = d]
           IN  new \in [Timer -> 0 .. HALF - 1] /\ \A u \in AppTimer : new[u] \in Delays[u]
  <1>1. d \in 1 .. HALF - 1 - MaxLate /\ t \in Timer /\ AppTimer \subseteq Timer
    BY TimerAssumption DEF Timer
  <1>2. d \in 0 .. HALF - 1
    BY <1>1, HalfIsHalf
  <1> QED BY <1>1, <1>2 DEF IInv, Types, TypeOK

\* Stopping a timer.
LEMMA StopStep == ASSUME IInv, NEW t \in AppTimer, Stop(t) PROVE IInv'
  <1>1. /\ lists' = Removed(t) /\ temp' = NotTemp(t) /\ active' = active \ {t}
        /\ UNCHANGED <<tick, timeout, isr, thread, due, stale>>
        /\ init_tick' = init_tick /\ periodic' = periodic
    BY DEF Stop
  <1>2. /\ init_tick' \in [Timer -> 0 .. HALF - 1] /\ periodic' \subseteq Repeating
        /\ \A u \in AppTimer : init_tick'[u] \in Delays[u]
    BY <1>1 DEF IInv, Types, TypeOK
  <1> QED BY <1>1, <1>2, RemoveKeeps

\* Detaching a timer and initialising it again.
LEMMA DetachStep ==
    ASSUME IInv, NEW t \in AppTimer, NEW d \in Delays[t], NEW p \in {FALSE, (t \in Repeating)},
           Detach(t, d, p)
    PROVE  IInv'
  <1>1. /\ lists' = Removed(t) /\ temp' = NotTemp(t) /\ active' = active \ {t}
        /\ UNCHANGED <<tick, timeout, isr, thread, due, stale>>
        /\ init_tick' = [init_tick EXCEPT ![t] = d]
        /\ periodic' = IF p THEN periodic \cup {t} ELSE periodic \ {t}
    BY DEF Detach
  <1>2. periodic' \subseteq Repeating
    BY <1>1 DEF IInv, Types, TypeOK
  <1>3. /\ init_tick' \in [Timer -> 0 .. HALF - 1]
        /\ \A u \in AppTimer : init_tick'[u] \in Delays[u]
    BY <1>1, NewTime
  <1> QED BY <1>1, <1>2, <1>3, RemoveKeeps

\* A step that leaves the lists, the times and the tick as they are.
LEMMA QuietLists ==
    ASSUME IInv, UNCHANGED <<tick, lists, temp, timeout, active, due>>,
           isr' = "none" => isr = "none"
    PROVE  LinkedIsActive' /\ DeadlineSound' /\ InOrder' /\ NoneOverdue'
  <1>1. LinkedIsActive'
    BY DEF IInv, LinkedIsActive
  <1>2. DeadlineSound'
    BY DEF IInv, DeadlineSound
  <1>3. InOrder'
    BY DEF IInv, InOrder
  <1>4. NoneOverdue'
    BY DEF IInv, NoneOverdue
  <1> QED BY <1>1, <1>2, <1>3, <1>4

\* Giving a timer another time, or making it periodic or not.
LEMMA ControlStep ==
    ASSUME IInv, NEW t \in AppTimer, NEW d \in Delays[t], NEW p \in {FALSE, (t \in Repeating)},
           Control(t, d, p)
    PROVE  IInv'
  <1>1. /\ UNCHANGED <<tick, lists, temp, timeout, active, isr, pc, stat, busy, next, due, stale>>
        /\ init_tick' = [init_tick EXCEPT ![t] = d]
        /\ periodic' = IF p THEN periodic \cup {t} ELSE periodic \ {t}
    BY DEF Control, thread
  <1>2. periodic' \subseteq Repeating
    BY <1>1 DEF IInv, Types, TypeOK
  <1>3. /\ init_tick' \in [Timer -> 0 .. HALF - 1]
        /\ \A u \in AppTimer : init_tick'[u] \in Delays[u]
    BY <1>1, NewTime
  <1>4. Types'
    BY <1>1, <1>2, <1>3 DEF IInv, Types, TypeOK
  <1>5. LinkedIsActive' /\ DeadlineSound' /\ InOrder' /\ NoneOverdue'
    BY <1>1, QuietLists
  <1>6. TempSound' /\ ThreadTimerSound' /\ ThreadSound'
    BY <1>1 DEF IInv, TempSound, ThreadTimerSound, ThreadSound
  <1>7. SleepSound'
    BY <1>1 DEF IInv, SleepSound, Diff
  <1> QED BY <1>4, <1>5, <1>6, <1>7 DEF IInv

\* A soft timer that waits is late by less than half the range of the tick.
LEMMA LateIsShort ==
    ASSUME IInv, NEW u \in Soft
    PROVE  MaxLate < HALF
  <1>1. init_tick[u] \in 1 .. HALF - 1 - MaxLate
    BY TimerAssumption DEF IInv, Types
  <1> QED BY <1>1, HalfIsHalf

\* The tick goes on, past its end as well.
LEMMA TickIncreaseStep == ASSUME IInv, TickIncrease PROVE IInv'
  <1>1. /\ isr = "none" /\ isr' = "check" /\ tick' = (tick + 1) % TICKS
        /\ \A t \in Range(lists["soft"]) : due[t] > -MaxLate
        /\ due' = [t \in Timer |->
                     IF t \in Range(lists["hard"]) \cup Range(lists["soft"]) THEN due[t] - 1
                     ELSE due[t]]
        /\ stale' = (stale \/ pc = "delay")
        /\ UNCHANGED <<lists, temp, timeout, init_tick, active, periodic, pc, stat, busy, next>>
    BY DEF TickIncrease, timers, thread
  <1>2. /\ TICKS \in Nat /\ TICKS >= 1 /\ HALF \in Nat /\ MaxLate \in Nat /\ 2 * HALF < TICKS
        /\ tick \in Nat /\ tick < TICKS
    BY HalfIsHalf, ListsAre DEF Tick
  <1>3. tick' = (IF tick + 1 < TICKS THEN tick + 1 ELSE 0) /\ tick' \in Tick
    BY <1>1, <1>2 DEF Tick
  <1>4. \A u \in Range(lists["hard"]) \cup Range(lists["soft"]) :
           u \in Timer /\ due[u] \in Int /\ due'[u] = due[u] - 1
    BY <1>1, ListsAre
  <1>5. due' \in [Timer -> Int]
    BY <1>1, ListsAre
  <1>6. Types'
    BY <1>1, <1>3, <1>5 DEF IInv, Types, TypeOK
  <1>7. \A u \in Range(lists["hard"]) : due[u] > 0 /\ due[u] < HALF
    BY <1>1, ListsAre DEF IInv, NoneOverdue
  <1>8. \A u \in Range(lists["soft"]) : due[u] > 0 - MaxLate /\ due[u] + MaxLate < HALF
                                        /\ due[u] + 2 * MaxLate <= HALF + 1
    BY <1>1, <1>2, <1>4, ListsAre
  <1>9. ASSUME NEW u \in Range(lists["hard"]) \cup Range(lists["soft"])
        PROVE  SameTick(timeout[u], tick' + due'[u])
    <2>1. SameTick(timeout[u], tick + due[u]) /\ timeout[u] \in Tick
      BY <1>4, ListsAre DEF IInv, DeadlineSound
    <2>2. timeout[u] \in Int /\ timeout[u] >= 0 /\ timeout[u] < TICKS
      BY <2>1, <1>2 DEF Tick
    <2>3. due[u] < HALF /\ due[u] > 0 - HALF
      <3>1. CASE u \in Range(lists["hard"])
        BY <3>1, <1>2, <1>4, <1>7
      <3>2. CASE u \in Range(lists["soft"])
        <4>1. MaxLate < HALF
          BY <3>2, LateIsShort, ListsAre
        <4> QED BY <3>2, <4>1, <1>2, <1>4, <1>8
      <3> QED BY <3>1, <3>2
    <2> QED BY <2>1, <2>2, <2>3, <1>2, <1>3, <1>4 DEF SameTick
  <1>10. DeadlineSound'
    <2>1. \A u \in Range(lists["hard"]) : due'[u] <= HALF - 1
      BY <1>2, <1>4, <1>7
    <2>2. \A u \in Range(lists["soft"]) : /\ due'[u] >= 0 - MaxLate
                                          /\ due'[u] + MaxLate < HALF
                                          /\ due'[u] + 2 * MaxLate <= HALF + 1
      BY <1>2, <1>4, <1>8
    <2> QED BY <2>1, <2>2, <1>1, <1>9 DEF DeadlineSound
  <1>11. NoneOverdue'
    BY <1>1, <1>4, <1>7 DEF NoneOverdue
  <1>12. InOrder'
    <2>1. DueOrder(lists["hard"], due') /\ DueOrder(lists["soft"], due')
      BY <1>4, <1>5, ListsAre, OrderShifted
    <2> QED BY <2>1, <1>1 DEF InOrder, DueOrder
  <1>13. LinkedIsActive' /\ TempSound' /\ ThreadTimerSound' /\ ThreadSound'
    BY <1>1 DEF IInv, LinkedIsActive, TempSound, ThreadTimerSound, ThreadSound
  <1>14. SleepSound'
    <2> SUFFICES ASSUME ~stale' PROVE SleepSound'
      BY DEF SleepSound
    <2>1. ~stale /\ pc # "delay"
      BY <1>1
    <2>2. pc = "asleep" /\ stat = "SUSPEND" => ThreadTimer \in Range(lists["hard"])
      BY DEF IInv, ThreadTimerSound, ThreadSound
    <2>3. pc = "asleep" /\ stat = "SUSPEND" =>
             \A u \in Range(lists["soft"]) : due'[ThreadTimer] <= due'[u]
      BY <2>1, <2>2, <1>4 DEF IInv, SleepSound
    <2> QED BY <2>1, <2>3, <1>1 DEF IInv, SleepSound, Diff
  <1> QED BY <1>6, <1>10, <1>11, <1>12, <1>13, <1>14 DEF IInv

\* The first timer of a list: it is the first to be due, and the checks see whether it is.
LEMMA FirstTimer ==
    ASSUME IInv, NEW k \in {"hard", "soft"}, lists[k] # <<>>
    PROVE  LET t == Head(lists[k])
           IN  /\ t \in Range(lists[k]) /\ t \in Timer /\ Kind(t) = k /\ t \in active
               /\ \A u \in Range(lists[k]) : due[t] <= due[u]
               /\ Expired(t) <=> due[t] <= 0
               /\ Tail(lists[k]) \in Seq(Timer) /\ IsInjective(Tail(lists[k]))
               /\ Range(Tail(lists[k])) = Range(lists[k]) \ {t}
               /\ DueOrder(Tail(lists[k]), due)
  <1> DEFINE t == Head(lists[k])
  <1>1. /\ lists[k] \in Seq(Timer) /\ IsInjective(lists[k]) /\ DueOrder(lists[k], due)
        /\ due \in [Timer -> Int] /\ tick \in Tick /\ timeout \in [Timer -> Tick]
    BY ListsAre
  <1>2. t \in Range(lists[k]) /\ t \in Timer
    BY <1>1, ListEmpty
  <1>3. Kind(t) = k /\ t \in active
    BY <1>2 DEF IInv, LinkedIsActive
  <1>4. DueOrder(Tail(lists[k]), due) /\ \A u \in Range(lists[k]) : due[t] <= due[u]
    BY <1>1, OrderOfTail
  <1>5. /\ Tail(lists[k]) \in Seq(Timer) /\ IsInjective(Tail(lists[k]))
        /\ Range(Tail(lists[k])) = Range(lists[k]) \ {t}
    BY <1>1, TailLinks
  <1> HIDE DEF t
  <1>6. due[t] \in Int /\ timeout[t] \in Tick /\ SameTick(timeout[t], tick + due[t])
    BY <1>1, <1>2 DEF IInv, DeadlineSound
  <1>7. due[t] < HALF /\ 0 - due[t] < HALF
    <2>1. CASE k = "hard"
      <3>1. due[t] >= 0 /\ due[t] < HALF
        BY <2>1, <1>2, ListsAre
      <3> QED BY <3>1, <1>6, HalfIsHalf
    <2>2. CASE k = "soft"
      <3>1. due[t] >= 0 - MaxLate /\ due[t] + MaxLate < HALF /\ MaxLate < HALF
        BY <2>2, <1>2, ListsAre, LateIsShort
      <3> QED BY <3>1, <1>6, HalfIsHalf
    <2> QED BY <2>1, <2>2
  <1>8. Expired(t) <=> due[t] <= 0
    BY <1>1, <1>6, <1>7, ExpiredIs DEF Expired
  <1> QED BY <1>2, <1>3, <1>4, <1>5, <1>8 DEF t

\* rt_timer_check takes out the first timer, and the timer thread is ready if it is its.
LEMMA HardExpireStep == ASSUME IInv, HardExpire PROVE IInv'
  <1> DEFINE t == Head(lists["hard"])
             r == Tail(lists["hard"])
  <1>1. /\ isr = "check" /\ isr' = "callback" /\ lists["hard"] # <<>>
        /\ lists' = [lists EXCEPT !["hard"] = r] /\ temp' = [temp EXCEPT !["hard"] = t]
        /\ active' = (IF t \in periodic THEN active ELSE active \ {t})
        /\ stat' = (IF t = ThreadTimer THEN "READY" ELSE stat)
        /\ UNCHANGED <<tick, timeout, init_tick, periodic, pc, busy, next, due, stale>>
    BY DEF HardExpire
  <1>2. /\ t \in Range(lists["hard"]) /\ t \in Timer /\ Kind(t) = "hard" /\ t \in active
        /\ r \in Seq(Timer) /\ IsInjective(r) /\ Range(r) = Range(lists["hard"]) \ {t}
        /\ DueOrder(r, due)
    BY <1>1, FirstTimer
  <1>3. /\ lists \in [{"hard", "soft"} -> Seq(Timer)]
        /\ temp \in [{"hard", "soft"} -> Timer \cup {None}]
        /\ ThreadTimer \notin periodic /\ active \subseteq Timer
        /\ Range(lists["hard"]) \subseteq active \ Soft
        /\ Range(lists["soft"]) \subseteq active \cap Soft
    BY ListsAre, TimerAssumption DEF IInv, Types, TypeOK
  <1> HIDE DEF t, r
  <1>4. /\ lists' \in [{"hard", "soft"} -> Seq(Timer)]
        /\ lists'["hard"] = r /\ lists'["soft"] = lists["soft"]
        /\ temp' \in [{"hard", "soft"} -> Timer \cup {None}]
        /\ temp'["hard"] = t /\ temp'["soft"] = temp["soft"]
    BY <1>1, <1>2, <1>3
  <1>5. Types'
    BY <1>1, <1>3, <1>4 DEF IInv, Types, TypeOK
  <1>6. LinkedIsActive'
    <2>1. \A u \in Range(lists'["hard"]) : Kind(u) = "hard" /\ u \in active'
      BY <1>1, <1>2, <1>3, <1>4 DEF Kind
    <2>2. \A u \in Range(lists'["soft"]) : Kind(u) = "soft" /\ u \in active'
      BY <1>1, <1>2, <1>3, <1>4 DEF Kind
    <2>3. temp'["hard"] \notin Range(lists'["hard"]) /\ temp'["soft"] \notin Range(lists'["soft"])
      BY <1>2, <1>4 DEF IInv, LinkedIsActive
    <2> QED BY <2>1, <2>2, <2>3, <1>2, <1>4, ListsAre DEF LinkedIsActive
  <1>7. TempSound'
    BY <1>1, <1>2, <1>4 DEF IInv, TempSound
  <1>8. ThreadTimerSound' /\ ThreadSound'
    <2>1. t = ThreadTimer => pc = "asleep"
      BY <1>2 DEF IInv, ThreadTimerSound
    <2>2. ThreadTimer \in active' <=> ThreadTimer \in active /\ t # ThreadTimer
      BY <1>1, <1>3
    <2>3. ThreadTimer \in active' => ThreadTimer \in Range(lists'["hard"])
      BY <2>2, <1>2, <1>4 DEF IInv, ThreadSound
    <2>4. ThreadTimerSound'
      BY <2>1, <2>2, <1>1 DEF IInv, ThreadTimerSound
    <2> QED BY <2>3, <2>4, <1>1 DEF IInv, ThreadSound
  <1>9. DeadlineSound' /\ NoneOverdue'
    BY <1>1, <1>2, <1>4 DEF IInv, DeadlineSound, NoneOverdue
  <1>10. InOrder'
    BY <1>1, <1>2, <1>4, ListsAre DEF InOrder, DueOrder
  <1>11. SleepSound'
    BY <1>1, <1>4 DEF IInv, SleepSound, Diff
  <1> QED BY <1>5, <1>6, <1>7, <1>8, <1>9, <1>10, <1>11 DEF IInv

\* The callback ends, and a periodic timer starts again.
LEMMA HardDoneStep == ASSUME IInv, HardDone PROVE IInv'
  <1> DEFINE t == temp["hard"]
  <1>1. /\ isr = "callback" /\ Finish("hard") /\ isr' = "check"
        /\ UNCHANGED <<tick, init_tick, periodic, pc, busy, next, stale>>
    BY DEF HardDone
  <1>2. CASE t # None /\ t \in periodic \cap active
    <2>1. t \in AppTimer \ Soft
      BY <1>2, ListsAre DEF IInv, TempSound, Kind
    <2>2. rt_timer_start(t)
      BY <1>1, <1>2 DEF Finish
    <2> HIDE DEF t
    <2>3. /\ lists' \in [{"hard", "soft"} -> Seq(Timer)] /\ timeout' \in [Timer -> Tick]
          /\ temp' \in [{"hard", "soft"} -> Timer \cup {None}]
          /\ active' \subseteq Timer /\ stat' \in {"READY", "SUSPEND"}
          /\ due' \in [Timer -> Int]
          /\ LinkedIsActive' /\ DeadlineSound' /\ InOrder' /\ NoneOverdue' /\ ThreadTimerSound'
          /\ ThreadTimer \in active' => ThreadTimer \in Range(lists'["hard"])
          /\ \A k \in {"hard", "soft"} : temp'[k] = IF temp[k] = t THEN None ELSE temp[k]
          /\ stat' = stat
      BY <2>1, <2>2, <1>1, StartKeeps DEF Wakes
    <2>4. Types'
      BY <2>3, <1>1 DEF IInv, Types, TypeOK
    <2>5. TempSound'
      BY <2>3, <1>1 DEF IInv, TempSound, t
    <2>6. ThreadSound'
      BY <2>3, <1>1 DEF IInv, ThreadSound
    <2>7. SleepSound'
      BY <2>1, <2>2, <1>1, SleepsOn
    <2> QED BY <2>3, <2>4, <2>5, <2>6, <2>7 DEF IInv
  <1>3. CASE ~(t # None /\ t \in periodic \cap active)
    <2>1. /\ temp' = [temp EXCEPT !["hard"] = None]
          /\ UNCHANGED <<lists, timeout, active, stat, due>>
      BY <1>1, <1>3 DEF Finish
    <2>2. /\ temp \in [{"hard", "soft"} -> Timer \cup {None}]
          /\ None \notin Range(lists["hard"])
      BY ListsAre DEF IInv, Types, TypeOK
    <2>3. /\ temp' \in [{"hard", "soft"} -> Timer \cup {None}]
          /\ temp'["hard"] = None /\ temp'["soft"] = temp["soft"]
      BY <2>1, <2>2
    <2>4. Types'
      BY <2>1, <2>3, <1>1 DEF IInv, Types, TypeOK
    <2>5. LinkedIsActive'
      BY <2>1, <2>2, <2>3 DEF IInv, LinkedIsActive
    <2>6. TempSound'
      BY <2>3, <1>1 DEF IInv, TempSound
    <2>7. ThreadTimerSound' /\ ThreadSound' /\ DeadlineSound' /\ InOrder' /\ NoneOverdue'
      BY <2>1, <1>1 DEF IInv, ThreadTimerSound, ThreadSound, DeadlineSound, InOrder, NoneOverdue
    <2>8. SleepSound'
      BY <2>1, <1>1 DEF IInv, SleepSound, Diff
    <2> QED BY <2>4, <2>5, <2>6, <2>7, <2>8 DEF IInv
  <1> QED BY <1>2, <1>3

\* rt_timer_check ends when the first timer is not due, and then none is.
LEMMA CheckEndStep == ASSUME IInv, CheckEnd PROVE IInv'
  <1>1. /\ isr = "check" /\ isr' = "none"
        /\ lists["hard"] # <<>> => ~Expired(Head(lists["hard"]))
        /\ UNCHANGED <<tick, lists, temp, timeout, init_tick, active, periodic, pc, stat, busy,
                       next, due, stale>>
    BY DEF CheckEnd, timers, thread
  <1>2. Types' /\ TempSound' /\ ThreadTimerSound' /\ ThreadSound'
    BY <1>1 DEF IInv, Types, TypeOK, TempSound, ThreadTimerSound, ThreadSound
  <1>3. LinkedIsActive' /\ DeadlineSound' /\ InOrder'
    BY <1>1 DEF IInv, LinkedIsActive, DeadlineSound, InOrder
  <1>4. ASSUME NEW u \in Range(lists["hard"]) PROVE due[u] > 0
    <2>1. lists["hard"] # <<>>
      BY <1>4, ListsAre, ListEmpty
    <2>2. /\ Head(lists["hard"]) \in Timer /\ due[Head(lists["hard"])] <= due[u]
          /\ ~(due[Head(lists["hard"])] <= 0)
      BY <2>1, <1>1, FirstTimer
    <2>3. due[u] \in Int /\ due[Head(lists["hard"])] \in Int
      BY <2>2, ListsAre
    <2> QED BY <2>2, <2>3
  <1>5. NoneOverdue'
    BY <1>1, <1>4 DEF IInv, NoneOverdue
  <1>6. SleepSound'
    BY <1>1 DEF IInv, SleepSound, Diff
  <1> QED BY <1>2, <1>3, <1>5, <1>6 DEF IInv

\* The timer thread looks at its list: no deadline in it is far behind the first one.
LEMMA NextTimeoutStep == ASSUME IInv, NextTimeout PROVE IInv'
  <1>1. /\ isr = "none" /\ stat = "READY" /\ pc = "next" /\ stale' = FALSE
        /\ IF lists["soft"] = <<>> THEN pc' = "empty" /\ UNCHANGED next
           ELSE pc' = "found" /\ next' = timeout[Head(lists["soft"])]
        /\ UNCHANGED <<tick, lists, temp, timeout, init_tick, active, periodic, isr, stat, busy,
                       due>>
    BY DEF NextTimeout, Runs, timers
  <1>2. LinkedIsActive' /\ DeadlineSound' /\ InOrder' /\ NoneOverdue'
    BY <1>1, QuietLists
  <1>3. CASE lists["soft"] = <<>>
    <2>1. Types' /\ TempSound' /\ ThreadTimerSound' /\ ThreadSound'
      BY <1>1, <1>3 DEF IInv, Types, TypeOK, TempSound, ThreadTimerSound, ThreadSound
    <2>2. SleepSound'
      BY <1>1, <1>3 DEF SleepSound
    <2> QED BY <2>1, <2>2, <1>2 DEF IInv
  <1>4. CASE lists["soft"] # <<>>
    <2> DEFINE h == Head(lists["soft"])
    <2>1. /\ h \in Range(lists["soft"]) /\ h \in Timer
          /\ \A u \in Range(lists["soft"]) : due[h] <= due[u]
      BY <1>4, FirstTimer
    <2> HIDE DEF h
    <2>2. pc' = "found" /\ next' = timeout[h] /\ next' \in Tick
      BY <1>1, <1>4, <2>1, ListsAre DEF h
    <2>3. Types' /\ TempSound' /\ ThreadTimerSound' /\ ThreadSound'
      BY <1>1, <2>2 DEF IInv, Types, TypeOK, TempSound, ThreadTimerSound, ThreadSound
    <2>4. ASSUME NEW u \in Range(lists["soft"])
          PROVE  Diff(timeout[u], timeout[h]) + MaxLate <= HALF + 1
      <3>1. /\ u \in Timer /\ due[u] \in Int /\ due[h] \in Int /\ due[h] <= due[u]
            /\ timeout[u] \in Tick /\ timeout[h] \in Tick /\ tick \in Tick
        BY <2>1, ListsAre
      <3>2. SameTick(timeout[u], tick + due[u]) /\ SameTick(timeout[h], tick + due[h])
        BY <2>1 DEF IInv, DeadlineSound
      <3>3. /\ due[h] >= 0 - MaxLate /\ due[u] + MaxLate < HALF
            /\ due[u] + 2 * MaxLate <= HALF + 1
        BY <2>1, ListsAre
      <3>4. due[u] - due[h] < HALF /\ due[h] - due[u] < HALF /\ due[u] >= due[h]
        BY <3>1, <3>3, HalfIsHalf
      <3>5. Diff(timeout[u], timeout[h]) = due[u] - due[h]
        BY <3>1, <3>2, <3>4, LaterDeadline
      <3> QED BY <3>1, <3>3, <3>5, HalfIsHalf
    <2>5. SleepSound'
      BY <2>2, <2>4, <1>1 DEF SleepSound, Diff
    <2> QED BY <2>3, <2>5, <1>2 DEF IInv
  <1> QED BY <1>3, <1>4

\* The timer thread computes how long it may sleep.
LEMMA GetDeltaStep == ASSUME IInv, GetDelta PROVE IInv'
  <1>1. /\ isr = "none" /\ stat = "READY" /\ pc = "found"
        /\ IF Diff(next, tick) \in 1 .. HALF - 1
           THEN pc' = "delay" /\ next' = Diff(next, tick)
           ELSE pc' = "check" /\ UNCHANGED next
        /\ UNCHANGED <<tick, lists, temp, timeout, init_tick, active, periodic, isr, stat, busy,
                       due, stale>>
    BY DEF GetDelta, Runs, timers
  <1>2. LinkedIsActive' /\ DeadlineSound' /\ InOrder' /\ NoneOverdue'
    BY <1>1, QuietLists
  <1>3. CASE Diff(next, tick) \in 1 .. HALF - 1
    <2>1. pc' = "delay" /\ next' = Diff(next, tick) /\ next' \in 1 .. HALF - 1
      BY <1>1, <1>3
    <2>2. next' \in Tick
      BY <2>1, HalfIsHalf DEF Tick
    <2>3. Types' /\ TempSound' /\ ThreadTimerSound' /\ ThreadSound'
      BY <1>1, <2>1, <2>2 DEF IInv, Types, TypeOK, TempSound, ThreadTimerSound, ThreadSound
    <2>4. ASSUME ~stale, NEW u \in Range(lists["soft"]) PROVE next' <= due[u]
      <3>1. Diff(timeout[u], next) + MaxLate <= HALF + 1
        BY <2>4, <1>1 DEF IInv, SleepSound
      <3>2. /\ u \in Timer /\ due[u] \in Int /\ timeout[u] \in Tick /\ tick \in Tick
            /\ next \in Tick
        BY ListsAre DEF IInv, Types, TypeOK
      <3>3. SameTick(timeout[u], tick + due[u])
        BY DEF IInv, DeadlineSound
      <3>4. due[u] >= 0 - MaxLate /\ due[u] + MaxLate < HALF
        BY ListsAre
      <3>5. due[u] < HALF
        BY <3>2, <3>4, HalfIsHalf
      <3>6. Diff(next, tick) <= due[u]
        BY <3>1, <3>2, <3>3, <3>4, <3>5, <1>3, SleepIsShort
      <3> QED BY <3>6, <2>1
    <2>5. SleepSound'
      BY <2>1, <2>4, <1>1 DEF SleepSound
    <2> QED BY <2>3, <2>5, <1>2 DEF IInv
  <1>4. CASE ~(Diff(next, tick) \in 1 .. HALF - 1)
    <2>1. Types' /\ TempSound' /\ ThreadTimerSound' /\ ThreadSound'
      BY <1>1, <1>4 DEF IInv, Types, TypeOK, TempSound, ThreadTimerSound, ThreadSound
    <2>2. SleepSound'
      BY <1>1, <1>4 DEF SleepSound
    <2> QED BY <2>1, <2>2, <1>2 DEF IInv
  <1> QED BY <1>3, <1>4

\* The timer thread goes to sleep by its own timer, which is linked with the hard ones.
LEMMA DelayStep == ASSUME IInv, Delay PROVE IInv'
  <1> DEFINE tt == ThreadTimer
             to == [timeout EXCEPT ![tt] = (tick + next) % TICKS]
             h == lists["hard"]
             r == LinkAt(h, Position(h, tt, to), tt)
  <1>1. /\ isr = "none" /\ stat = "READY" /\ pc = "delay" /\ pc' = "asleep"
        /\ timeout' = to /\ lists' = [lists EXCEPT !["hard"] = r]
        /\ init_tick' = [init_tick EXCEPT ![tt] = next]
        /\ active' = active \cup {tt} /\ due' = [due EXCEPT ![tt] = next]
        /\ stat' = "SUSPEND"
        /\ UNCHANGED <<tick, temp, periodic, isr, busy, next, stale>>
    <2>1. lists \in [{"hard", "soft"} -> Seq(Timer)]
      BY DEF IInv, Types, TypeOK
    <2> QED BY <2>1 DEF Delay, Runs
  <1>2. /\ next \in 1 .. HALF - 1 /\ tick \in Tick /\ h \in Seq(Timer) /\ IsInjective(h)
        /\ DueOrder(h, due) /\ due \in [Timer -> Int] /\ timeout \in [Timer -> Tick]
        /\ tt \in Timer /\ tt \notin Soft /\ tt \notin AppTimer /\ AppTimer \subseteq Timer
        /\ init_tick \in [Timer -> 0 .. HALF - 1]
    BY <1>1, ListsAre, TimerAssumption DEF IInv, ThreadSound, Types, TypeOK
  <1>3. /\ next \in Int /\ next >= 1 /\ next < HALF /\ next \in 0 .. TICKS - 1
        /\ next \in 0 .. HALF - 1 /\ next <= HALF - 1
    BY <1>2, HalfIsHalf
  <1>4. (tick + next) % TICKS \in Tick /\ SameTick((tick + next) % TICKS, tick + next)
    BY <1>2, <1>3, LaterIs
  <1>5. /\ to \in [Timer -> Tick] /\ SameTick(to[tt], tick + next)
        /\ \A u \in Timer \ {tt} : to[u] = timeout[u]
    BY <1>2, <1>4
  <1>6. tt \notin active /\ tt \notin Range(h)
    BY <1>1, ListsAre DEF IInv, ThreadTimerSound
  <1>7. \A u \in Range(h) : /\ SameTick(to[u], tick + due[u])
                            /\ due[u] - next < HALF /\ next - due[u] < HALF
    <2> TAKE u \in Range(h)
    <2>1. u \in Timer /\ u # tt /\ to[u] = timeout[u] /\ due[u] \in Int
      BY <1>2, <1>5, <1>6, ListEmpty
    <2>2. SameTick(timeout[u], tick + due[u])
      BY DEF IInv, DeadlineSound
    <2>3. due[u] >= 0 /\ due[u] < HALF
      BY ListsAre
    <2> QED BY <2>1, <2>2, <2>3, <1>3, HalfIsHalf
  <1>8. Unlink(h, tt) = h
    BY <1>6 DEF Unlink
  <1> HIDE DEF to, tt
  <1>9. /\ r \in Seq(Timer) /\ IsInjective(r) /\ Range(r) = Range(h) \cup {tt}
        /\ DueOrder(r, due')
    BY <1>1, <1>2, <1>3, <1>5, <1>7, <1>8, Relinked
  <1> HIDE DEF r
  <1>10. /\ due' \in [Timer -> Int] /\ due'[tt] = next
         /\ \A u \in Timer \ {tt} : due'[u] = due[u]
    BY <1>1, <1>2, <1>3
  <1>11. /\ lists' \in [{"hard", "soft"} -> Seq(Timer)]
         /\ lists'["hard"] = r /\ lists'["soft"] = lists["soft"]
    BY <1>1, <1>9 DEF IInv, Types, TypeOK
  <1>12. /\ init_tick' \in [Timer -> 0 .. HALF - 1]
         /\ \A u \in AppTimer : init_tick'[u] = init_tick[u]
    BY <1>1, <1>2, <1>3 DEF tt
  <1>13. Types'
    BY <1>1, <1>2, <1>5, <1>10, <1>11, <1>12 DEF IInv, Types, TypeOK
  <1>14. TempSound' /\ ThreadTimerSound' /\ ThreadSound'
    BY <1>1, <1>9, <1>11 DEF IInv, TempSound, ThreadTimerSound, ThreadSound, tt
  <1>15. LinkedIsActive'
    <2>1. \A u \in Range(lists'["hard"]) : Kind(u) = "hard" /\ u \in active'
      BY <1>1, <1>2, <1>9, <1>11, ListsAre DEF Kind
    <2>2. \A u \in Range(lists'["soft"]) : Kind(u) = "soft" /\ u \in active'
      BY <1>1, <1>11, ListsAre DEF Kind
    <2>3. temp'["hard"] = None /\ None \notin Range(lists'["hard"])
      BY <1>1, <1>9, <1>11, ListsAre, ListEmpty DEF IInv, TempSound
    <2>4. temp'["soft"] \notin Range(lists'["soft"])
      BY <1>1, <1>11 DEF IInv, LinkedIsActive
    <2> QED BY <2>1, <2>2, <2>3, <2>4, <1>9, <1>11, ListsAre DEF LinkedIsActive
  <1>16. ASSUME NEW u \in Range(r)
         PROVE  SameTick(timeout'[u], tick' + due'[u]) /\ due'[u] <= HALF - 1 /\ due'[u] > 0
    <2>1. CASE u = tt
      BY <2>1, <1>1, <1>3, <1>5, <1>10
    <2>2. CASE u # tt
      <3>1. u \in Range(h) /\ u \in Timer \ {tt}
        BY <2>2, <1>2, <1>9, ListEmpty
      <3>2. timeout'[u] = timeout[u] /\ due'[u] = due[u]
        BY <3>1, <1>1, <1>5, <1>10
      <3> QED BY <3>1, <3>2, <1>1 DEF IInv, DeadlineSound, NoneOverdue
    <2> QED BY <2>1, <2>2
  <1>17. \A u \in Range(lists["soft"]) : timeout'[u] = timeout[u] /\ due'[u] = due[u]
    <2> TAKE u \in Range(lists["soft"])
    <2>1. u \in Timer \ {tt}
      BY <1>2, ListsAre
    <2> QED BY <2>1, <1>1, <1>5, <1>10
  <1>18. DeadlineSound'
    BY <1>1, <1>11, <1>16, <1>17 DEF IInv, DeadlineSound
  <1>19. NoneOverdue'
    <2>1. \A u \in Range(r) : due'[u] \in Int
      BY <1>9, <1>10, ListEmpty
    <2> QED BY <2>1, <1>1, <1>11, <1>16 DEF NoneOverdue
  <1>20. InOrder'
    <2>1. DueOrder(lists["soft"], due')
      BY <1>17, ListsAre, OrderKept
    <2> QED BY <2>1, <1>9, <1>11 DEF InOrder, DueOrder
  <1>21. SleepSound'
    <2>1. ~stale => \A u \in Range(lists["soft"]) : due'[tt] <= due'[u]
      BY <1>1, <1>10, <1>17 DEF IInv, SleepSound
    <2> QED BY <2>1, <1>1, <1>11 DEF SleepSound, tt
  <1> QED BY <1>13, <1>14, <1>15, <1>18, <1>19, <1>20, <1>21 DEF IInv

\* The steps of the timer thread that change nothing but its state.
LEMMA ThreadStep ==
    ASSUME IInv, Suspend \/ WakeUp \/ CallbackBlocks \/ CallbackWoken \/ SoftCheckEnd
    PROVE  IInv'
  <1>1. UNCHANGED <<tick, lists, temp, timeout, init_tick, active, periodic, isr, busy, next,
                    due, stale>>
    BY DEF Suspend, WakeUp, CallbackBlocks, CallbackWoken, SoftCheckEnd, timers
  <1>2. LinkedIsActive' /\ DeadlineSound' /\ InOrder' /\ NoneOverdue'
    BY <1>1, QuietLists
  <1>3. \/ pc = "empty" /\ pc' = "parked" /\ stat' = "SUSPEND"
        \/ pc \in {"parked", "asleep"} /\ pc' = "check" /\ stat = "READY" /\ stat' = stat
        \/ pc = "callback" /\ pc' = "blocked" /\ stat' = "SUSPEND"
        \/ pc = "blocked" /\ pc' = "callback" /\ stat' = "READY"
        \/ pc = "check" /\ pc' = "next" /\ stat' = stat
    BY DEF Suspend, WakeUp, CallbackBlocks, CallbackWoken, SoftCheckEnd, Runs
  <1>4. Types'
    BY <1>1, <1>3 DEF IInv, Types, TypeOK
  <1>5. TempSound'
    BY <1>1, <1>3 DEF IInv, TempSound
  <1>6. ThreadTimerSound'
    BY <1>1, <1>3 DEF IInv, ThreadTimerSound
  <1>7. ThreadSound'
    BY <1>1, <1>3 DEF IInv, ThreadSound, ThreadTimerSound
  <1>8. SleepSound'
    BY <1>1, <1>3 DEF IInv, SleepSound
  <1> QED BY <1>2, <1>4, <1>5, <1>6, <1>7, <1>8 DEF IInv

\* rt_soft_timer_check takes out the first timer.
LEMMA SoftExpireStep == ASSUME IInv, SoftExpire PROVE IInv'
  <1> DEFINE t == Head(lists["soft"])
             r == Tail(lists["soft"])
  <1>1. /\ isr = "none" /\ stat = "READY" /\ pc = "check" /\ pc' = "callback" /\ busy' = TRUE
        /\ lists["soft"] # <<>>
        /\ lists' = [lists EXCEPT !["soft"] = r] /\ temp' = [temp EXCEPT !["soft"] = t]
        /\ active' = (IF t \in periodic THEN active ELSE active \ {t})
        /\ UNCHANGED <<tick, timeout, init_tick, periodic, isr, stat, next, due, stale>>
    BY DEF SoftExpire, Runs
  <1>2. /\ t \in Range(lists["soft"]) /\ t \in Timer /\ Kind(t) = "soft" /\ t \in active
        /\ r \in Seq(Timer) /\ IsInjective(r) /\ Range(r) = Range(lists["soft"]) \ {t}
        /\ DueOrder(r, due)
    BY <1>1, FirstTimer
  <1>3. /\ lists \in [{"hard", "soft"} -> Seq(Timer)]
        /\ temp \in [{"hard", "soft"} -> Timer \cup {None}] /\ active \subseteq Timer
        /\ Range(lists["hard"]) \subseteq active \ Soft
        /\ Range(lists["soft"]) \subseteq active \cap Soft /\ ThreadTimer \notin Soft
    BY ListsAre DEF IInv, Types, TypeOK
  <1> HIDE DEF t, r
  <1>4. /\ lists' \in [{"hard", "soft"} -> Seq(Timer)]
        /\ lists'["soft"] = r /\ lists'["hard"] = lists["hard"]
        /\ temp' \in [{"hard", "soft"} -> Timer \cup {None}]
        /\ temp'["soft"] = t /\ temp'["hard"] = temp["hard"]
    BY <1>1, <1>2, <1>3
  <1>5. Types'
    BY <1>1, <1>3, <1>4 DEF IInv, Types, TypeOK
  <1>6. LinkedIsActive'
    <2>1. \A u \in Range(lists'["hard"]) : Kind(u) = "hard" /\ u \in active'
      BY <1>1, <1>2, <1>3, <1>4 DEF Kind
    <2>2. \A u \in Range(lists'["soft"]) : Kind(u) = "soft" /\ u \in active'
      BY <1>1, <1>2, <1>3, <1>4 DEF Kind
    <2>3. temp'["hard"] \notin Range(lists'["hard"]) /\ temp'["soft"] \notin Range(lists'["soft"])
      BY <1>2, <1>4 DEF IInv, LinkedIsActive
    <2> QED BY <2>1, <2>2, <2>3, <1>2, <1>4, ListsAre DEF LinkedIsActive
  <1>7. TempSound'
    BY <1>1, <1>2, <1>4 DEF IInv, TempSound
  <1>8. ThreadTimerSound' /\ ThreadSound'
    BY <1>1, <1>2, <1>3, <1>4 DEF IInv, ThreadTimerSound, ThreadSound
  <1>9. DeadlineSound' /\ NoneOverdue'
    BY <1>1, <1>2, <1>4 DEF IInv, DeadlineSound, NoneOverdue
  <1>10. InOrder'
    BY <1>1, <1>2, <1>4, ListsAre DEF InOrder, DueOrder
  <1>11. SleepSound'
    BY <1>1 DEF SleepSound
  <1> QED BY <1>5, <1>6, <1>7, <1>8, <1>9, <1>10, <1>11 DEF IInv

\* The callback of a soft timer ends, and a periodic timer starts again.
LEMMA SoftDoneStep == ASSUME IInv, SoftDone PROVE IInv'
  <1> DEFINE t == temp["soft"]
  <1>1. /\ isr = "none" /\ stat = "READY" /\ pc = "callback" /\ Finish("soft") /\ busy' = FALSE
        /\ pc' = "check" /\ UNCHANGED <<tick, init_tick, periodic, isr, next, stale>>
    BY DEF SoftDone, Runs
  <1>2. SleepSound'
    BY <1>1 DEF SleepSound
  <1>3. CASE t # None /\ t \in periodic \cap active
    <2>1. t \in AppTimer /\ rt_timer_start(t)
      BY <1>1, <1>3, ListsAre DEF Finish
    <2> HIDE DEF t
    <2>2. /\ lists' \in [{"hard", "soft"} -> Seq(Timer)] /\ timeout' \in [Timer -> Tick]
          /\ temp' \in [{"hard", "soft"} -> Timer \cup {None}]
          /\ active' \subseteq Timer /\ stat' \in {"READY", "SUSPEND"}
          /\ due' \in [Timer -> Int]
          /\ LinkedIsActive' /\ DeadlineSound' /\ InOrder' /\ NoneOverdue' /\ ThreadTimerSound'
          /\ ThreadTimer \in active' => ThreadTimer \in Range(lists'["hard"])
          /\ \A k \in {"hard", "soft"} : temp'[k] = IF temp[k] = t THEN None ELSE temp[k]
          /\ stat' = "READY"
      BY <2>1, <1>1, StartKeeps
    <2>3. Types'
      BY <2>2, <1>1 DEF IInv, Types, TypeOK
    <2>4. TempSound'
      BY <2>2, <1>1 DEF IInv, TempSound, t
    <2>5. ThreadSound'
      BY <2>2, <1>1 DEF ThreadSound
    <2> QED BY <2>2, <2>3, <2>4, <2>5, <1>2 DEF IInv
  <1>4. CASE ~(t # None /\ t \in periodic \cap active)
    <2>1. /\ temp' = [temp EXCEPT !["soft"] = None]
          /\ UNCHANGED <<lists, timeout, active, stat, due>>
      BY <1>1, <1>4 DEF Finish
    <2>2. /\ temp \in [{"hard", "soft"} -> Timer \cup {None}]
          /\ None \notin Range(lists["soft"])
      BY ListsAre DEF IInv, Types, TypeOK
    <2>3. /\ temp' \in [{"hard", "soft"} -> Timer \cup {None}]
          /\ temp'["soft"] = None /\ temp'["hard"] = temp["hard"]
      BY <2>1, <2>2
    <2>4. Types'
      BY <2>1, <2>3, <1>1 DEF IInv, Types, TypeOK
    <2>5. LinkedIsActive'
      BY <2>1, <2>2, <2>3 DEF IInv, LinkedIsActive
    <2>6. TempSound'
      BY <2>3, <1>1 DEF IInv, TempSound
    <2>7. ThreadTimerSound' /\ ThreadSound' /\ DeadlineSound' /\ InOrder' /\ NoneOverdue'
      BY <2>1, <1>1 DEF IInv, ThreadTimerSound, ThreadSound, DeadlineSound, InOrder, NoneOverdue
    <2> QED BY <2>4, <2>5, <2>6, <2>7, <1>2 DEF IInv
  <1> QED BY <1>3, <1>4

\* The timers as rt_timer_init and rt_system_timer_thread_init leave them.
LEMMA InitInv == Init => IInv
  <1> SUFFICES ASSUME Init PROVE IInv
    OBVIOUS
  <1>1. lists = [k \in {"hard", "soft"} |-> <<>>]
    BY DEF Init
  <1>2. \A k \in {"hard", "soft"} : lists[k] = <<>> /\ Range(lists[k]) = {}
    BY <1>1 DEF Range
  <1>3. lists \in [{"hard", "soft"} -> Seq(Timer)]
    BY <1>1
  <1>4. 0 \in Tick
    BY HalfIsHalf DEF Tick
  <1>5. Types
    <2>1. /\ init_tick \in [Timer -> 0 .. HALF - 1] /\ \A t \in AppTimer : init_tick[t] \in Delays[t]
          /\ periodic \subseteq Repeating
      BY DEF Init
    <2>2. /\ temp \in [{"hard", "soft"} -> Timer \cup {None}] /\ timeout \in [Timer -> Tick]
          /\ due \in [Timer -> Int]
      BY <1>4 DEF Init
    <2> QED BY <2>1, <2>2, <1>3, <1>4 DEF Init, Types, TypeOK
  <1>6. LinkedIsActive
    BY <1>2 DEF LinkedIsActive, IsInjective
  <1>7. DeadlineSound /\ NoneOverdue
    BY <1>2 DEF DeadlineSound, NoneOverdue
  <1>8. InOrder
    BY <1>2 DEF InOrder
  <1>9. TempSound /\ ThreadTimerSound /\ ThreadSound
    BY DEF Init, TempSound, ThreadTimerSound, ThreadSound
  <1>10. SleepSound
    BY DEF Init, SleepSound
  <1> QED BY <1>5, <1>6, <1>7, <1>8, <1>9, <1>10 DEF IInv

\* Every step keeps the invariant.
LEMMA NextInv == IInv /\ [Next]_vars => IInv'
  <1> SUFFICES ASSUME IInv, [Next]_vars PROVE IInv'
    OBVIOUS
  <1>1. ASSUME NEW t \in AppTimer, Start(t) \/ Stop(t) PROVE IInv'
    BY <1>1, StartStep, StopStep
  <1>2. ASSUME NEW t \in AppTimer, NEW d \in Delays[t], NEW p \in {FALSE, (t \in Repeating)},
               Detach(t, d, p) \/ Control(t, d, p)
        PROVE  IInv'
    BY <1>2, DetachStep, ControlStep
  <1>3. CASE TickIncrease \/ HardExpire \/ HardDone \/ CheckEnd
    BY <1>3, TickIncreaseStep, HardExpireStep, HardDoneStep, CheckEndStep
  <1>4. CASE \/ NextTimeout \/ Suspend \/ GetDelta \/ Delay \/ WakeUp
             \/ CallbackBlocks \/ CallbackWoken \/ SoftCheckEnd
    BY <1>4, NextTimeoutStep, GetDeltaStep, DelayStep, ThreadStep
  <1>5. CASE SoftExpire \/ SoftDone
    BY <1>5, SoftExpireStep, SoftDoneStep
  <1>6. CASE UNCHANGED vars
    <2>1. UNCHANGED <<tick, lists, temp, timeout, init_tick, active, periodic, isr, pc, stat,
                      busy, next, due, stale>>
      BY <1>6 DEF vars, timers, thread
    <2>2. Types' /\ LinkedIsActive' /\ TempSound' /\ ThreadTimerSound' /\ ThreadSound'
      BY <2>1 DEF IInv, Types, TypeOK, LinkedIsActive, TempSound, ThreadTimerSound, ThreadSound
    <2>3. DeadlineSound' /\ InOrder' /\ NoneOverdue'
      BY <2>1 DEF IInv, DeadlineSound, InOrder, NoneOverdue
    <2>4. SleepSound'
      BY <2>1 DEF IInv, SleepSound, Diff
    <2> QED BY <2>2, <2>3, <2>4 DEF IInv
  <1> QED BY <1>1, <1>2, <1>3, <1>4, <1>5, <1>6 DEF Next

\* A step puts into the temporary list a timer that is due, or none.
LEMMA FiresWhenDue ==
    IInv /\ [Next]_vars => [\A k \in {"hard", "soft"} :
        temp'[k] \notin {temp[k], None} => due[temp'[k]] <= 0]_vars
  <1> DEFINE Fires == \A k \in {"hard", "soft"} :
                        temp'[k] \notin {temp[k], None} => due[temp'[k]] <= 0
  <1> SUFFICES ASSUME IInv, [Next]_vars PROVE Fires \/ UNCHANGED vars
    OBVIOUS
  <1>1. temp \in [{"hard", "soft"} -> Timer \cup {None}]
    BY DEF IInv, Types, TypeOK
  <1>2. ASSUME NEW t, temp' = NotTemp(t) PROVE Fires
    BY <1>1, <1>2 DEF NotTemp, Kind
  <1>3. ASSUME NEW t \in AppTimer, Start(t) \/ Stop(t) PROVE Fires
    BY <1>2, <1>3 DEF Start, Stop, rt_timer_start
  <1>4. ASSUME NEW t \in AppTimer, NEW d, NEW p, Detach(t, d, p) \/ Control(t, d, p)
        PROVE  Fires
    BY <1>2, <1>4 DEF Detach, Control
  <1>5. ASSUME NEW k \in {"hard", "soft"}, Finish(k) PROVE Fires
    BY <1>1, <1>2, <1>5 DEF Finish, rt_timer_start
  <1>6. ASSUME NEW k \in {"hard", "soft"}, lists[k] # <<>>, Expired(Head(lists[k])),
               temp' = [temp EXCEPT ![k] = Head(lists[k])]
        PROVE  Fires
    <2>1. due[Head(lists[k])] <= 0
      BY <1>6, FirstTimer
    <2> QED BY <2>1, <1>1, <1>6
  <1>7. CASE HardExpire \/ SoftExpire
    BY <1>6, <1>7 DEF HardExpire, SoftExpire
  <1>8. CASE HardDone \/ SoftDone
    BY <1>5, <1>8 DEF HardDone, SoftDone
  <1>9. CASE \/ TickIncrease \/ CheckEnd \/ NextTimeout \/ Suspend \/ GetDelta \/ Delay
             \/ WakeUp \/ CallbackBlocks \/ CallbackWoken \/ SoftCheckEnd
    <2>1. temp' = temp
      BY <1>9 DEF TickIncrease, CheckEnd, NextTimeout, Suspend, GetDelta, Delay, WakeUp,
                  CallbackBlocks, CallbackWoken, SoftCheckEnd
    <2> QED BY <2>1
  <1> QED BY <1>3, <1>4, <1>7, <1>8, <1>9 DEF Next

-----------------------------------------------------------------------------
(* The theorems.                                                            *)

\* The invariant above is one of the timers.
THEOREM TimerInvariant == Spec => []IInv
  BY InitInv, NextInv, PTL DEF Spec

\* rt_timer_start, rt_timer_stop, rt_timer_detach and the two checks, in any order and
\* from callbacks as well, leave a timer in at most one place, and active if it is in a
\* list.
THEOREM LinkedCorrect == Spec => []LinkedIsActive
  <1>1. IInv => LinkedIsActive
    BY DEF IInv
  <1> QED BY <1>1, TimerInvariant, PTL

\* The lists that rt_timer_start scans stay in the order of the deadlines across any
\* overflow of the tick.
THEOREM OrderCorrect == Spec => []InOrder
  <1>1. IInv => InOrder
    BY DEF IInv
  <1> QED BY <1>1, TimerInvariant, PTL

\* rt_timer_check leaves no hard timer behind that is due.
THEOREM NothingOverdue == Spec => []NoneOverdue
  <1>1. IInv => NoneOverdue
    BY DEF IInv
  <1> QED BY <1>1, TimerInvariant, PTL

\* rt_timer_check and rt_soft_timer_check fire no timer before its time has passed.
THEOREM NothingEarly == Spec => NeverEarly
  <1>1. Spec => []IInv /\ [][Next]_vars
    BY TimerInvariant, PTL DEF Spec
  <1> QED BY <1>1, FiresWhenDue, PTL DEF NeverEarly

\* The timer of the timer thread runs while the thread sleeps on it and only then, and a
\* callback that blocks is not woken by the start of a soft timer.
THEOREM ThreadTimerCorrect == Spec => []ThreadTimerSound
  <1>1. IInv => ThreadTimerSound
    BY DEF IInv
  <1> QED BY <1>1, TimerInvariant, PTL

\* The timer thread sleeps past no soft timer, unless one was started, or the tick moved,
\* between its look at the list and its sleep.
THEOREM SleepCorrect == Spec => []SleepsNoLonger
  <1>1. IInv => SleepsNoLonger
    <2> SUFFICES ASSUME IInv, pc \in {"parked", "asleep"}, stat = "SUSPEND",
                        lists["soft"] # <<>>, ~stale
                 PROVE  pc = "asleep" /\ due[ThreadTimer] <= due[Head(lists["soft"])]
      BY DEF SleepsNoLonger
    <2>1. Head(lists["soft"]) \in Range(lists["soft"])
      BY FirstTimer
    <2> QED BY <2>1 DEF IInv, SleepSound
  <1> QED BY <1>1, TimerInvariant, PTL

=============================================================================
