----------------------------- MODULE ListProofs -----------------------------
(***************************************************************************)
(* What the operations of rtservice.h do to a list of threads or timers, and *)
(* the order of the threads in the list of an IPC object.                    *)
(***************************************************************************)
EXTENDS IpcList, FiniteSetTheorems, WellFoundedInduction, TLAPS

\* A non-empty set of priorities has a least one, the most urgent.
LEMMA MinimumExists ==
    ASSUME NEW S \in SUBSET Nat, S # {}
    PROVE  \E x \in S : \A y \in S : x <= y
  <1> DEFINE R == OpToRel(<, Nat)
  <1>1. IsWellFoundedOn(R, Nat)
    BY NatLessThanWellFounded, Zenon
  <1>2. \A x, y \in Nat : y < x => <<y, x>> \in R
    BY DEF OpToRel
  <1> HIDE DEF R
  <1>3. PICK x \in S : \A y \in S : ~(<<y, x>> \in R)
    BY <1>1, WFMin
  <1>4. \A y \in S : ~(y < x)
    BY <1>2, <1>3
  <1> QED BY <1>4

\* A list is empty (rt_list_isempty) exactly when nothing is linked in it, and
\* the head of another one is linked.
LEMMA ListEmpty ==
    ASSUME NEW S, NEW list \in Seq(S)
    PROVE  /\ Range(list) \subseteq S
           /\ list = <<>> <=> Range(list) = {}
           /\ list # <<>> => Head(list) \in Range(list) /\ Head(list) \in S
  BY DEF Range

\* Range of a list by positions.
LEMMA RangeByIndex ==
    ASSUME NEW S, NEW list \in Seq(S), NEW x
    PROVE  x \in Range(list) <=> \E i \in 1 .. Len(list) : list[i] = x
  BY DEF Range

\* rt_list_insert_after links n and nothing else.
LEMMA InsertAfterLinks ==
    ASSUME NEW S, NEW list \in Seq(S), NEW n \in S
    PROVE  /\ InsertAfter(list, n) \in Seq(S)
           /\ Range(InsertAfter(list, n)) = Range(list) \cup {n}
           /\ IsInjective(list) /\ n \notin Range(list)
                => IsInjective(InsertAfter(list, n))
  <1> DEFINE r == InsertAfter(list, n)
  <1>1. /\ r \in Seq(S)
        /\ Len(r) = Len(list) + 1
        /\ \A i \in 1 .. Len(r) : r[i] = IF i = 1 THEN n ELSE list[i - 1]
    BY DEF InsertAfter
  <1>2. Range(r) = Range(list) \cup {n}
    <2>1. ASSUME NEW x \in Range(r) PROVE x \in Range(list) \cup {n}
      BY <1>1, <2>1 DEF Range
    <2>2. ASSUME NEW x \in Range(list) PROVE x \in Range(r)
      <3>1. PICK i \in 1 .. Len(list) : list[i] = x
        BY <2>2, RangeByIndex
      <3>2. i + 1 \in 1 .. Len(r) /\ r[i + 1] = x
        BY <1>1, <3>1
      <3> QED BY <1>1, <3>2 DEF Range
    <2>3. n \in Range(r)
      BY <1>1 DEF Range
    <2> QED BY <2>1, <2>2, <2>3
  <1>3. ASSUME IsInjective(list), n \notin Range(list) PROVE IsInjective(r)
    <2> SUFFICES ASSUME NEW i \in 1 .. Len(r), NEW j \in 1 .. Len(r), r[i] = r[j]
                 PROVE  i = j
      BY <1>1 DEF IsInjective
    <2>1. \A k \in 1 .. Len(list) : list[k] # n
      BY <1>3 DEF Range
    <2>2. CASE i = 1
      BY <1>1, <2>1, <2>2
    <2>3. CASE j = 1
      BY <1>1, <2>1, <2>3
    <2>4. CASE i # 1 /\ j # 1
      <3>1. list[i - 1] = list[j - 1] /\ i - 1 \in 1 .. Len(list) /\ j - 1 \in 1 .. Len(list)
        BY <1>1, <2>4
      <3>2. i - 1 = j - 1
        BY <3>1, <1>3 DEF IsInjective
      <3> QED BY <3>2
    <2> QED BY <2>2, <2>3, <2>4
  <1> QED BY <1>1, <1>2, <1>3

\* rt_list_insert_before links n and nothing else.
LEMMA InsertBeforeLinks ==
    ASSUME NEW S, NEW list \in Seq(S), NEW n \in S
    PROVE  /\ InsertBefore(list, n) \in Seq(S)
           /\ Range(InsertBefore(list, n)) = Range(list) \cup {n}
           /\ IsInjective(list) /\ n \notin Range(list)
                => IsInjective(InsertBefore(list, n))
  <1> DEFINE r == InsertBefore(list, n)
             m == Len(list) + 1
  <1>1. /\ r \in Seq(S)
        /\ Len(r) = m
        /\ \A i \in 1 .. m : r[i] = IF i = m THEN n ELSE list[i]
    BY DEF InsertBefore
  <1>2. Range(r) = Range(list) \cup {n}
    <2>1. ASSUME NEW x \in Range(r) PROVE x \in Range(list) \cup {n}
      BY <1>1, <2>1 DEF Range
    <2>2. ASSUME NEW x \in Range(list) PROVE x \in Range(r)
      <3>1. PICK i \in 1 .. Len(list) : list[i] = x
        BY <2>2, RangeByIndex
      <3>2. i \in 1 .. Len(r) /\ r[i] = x
        BY <1>1, <3>1
      <3> QED BY <1>1, <3>2 DEF Range
    <2>3. n \in Range(r)
      BY <1>1 DEF Range
    <2> QED BY <2>1, <2>2, <2>3
  <1>3. ASSUME IsInjective(list), n \notin Range(list) PROVE IsInjective(r)
    <2> SUFFICES ASSUME NEW i \in 1 .. m, NEW j \in 1 .. m, r[i] = r[j]
                 PROVE  i = j
      BY <1>1 DEF IsInjective
    <2>1. \A k \in 1 .. Len(list) : list[k] # n
      BY <1>3 DEF Range
    <2>2. CASE i = m \/ j = m
      BY <1>1, <2>1, <2>2
    <2>3. CASE i # m /\ j # m
      BY <1>1, <1>3, <2>3 DEF IsInjective
    <2> QED BY <2>2, <2>3
  <1> QED BY <1>1, <1>2, <1>3

\* rt_list_remove unlinks n and nothing else, and keeps the others in order;
\* nothing happens to a list n is not linked in.
LEMMA UnlinkUnlinks ==
    ASSUME NEW S, NEW list \in Seq(S), NEW n
    PROVE  /\ Unlink(list, n) \in Seq(S)
           /\ Range(Unlink(list, n)) \subseteq Range(list)
           /\ n \notin Range(list) => Unlink(list, n) = list
           /\ IsInjective(list) => /\ Range(Unlink(list, n)) = Range(list) \ {n}
                                  /\ IsInjective(Unlink(list, n))
  <1>1. CASE n \notin Range(list)
    BY <1>1, ListEmpty DEF Unlink
  <1>2. CASE n \in Range(list)
    <2> DEFINE k == IndexOf(list, n)
               r == Unlink(list, n)
    <2>1. k \in 1 .. Len(list) /\ list[k] = n
      BY <1>2 DEF IndexOf, Range
    <2>2. r = [j \in 1 .. Len(list) - 1 |-> IF j < k THEN list[j] ELSE list[j + 1]]
      BY <1>2 DEF Unlink, DropAt
    <2> HIDE DEF k, r
    <2>3. Len(list) \in Nat /\ Len(list) - 1 \in Nat
      BY <2>1
    <2>4. \A j \in 1 .. Len(list) : list[j] \in S
      OBVIOUS
    <2>5. r \in [1 .. Len(list) - 1 -> S]
      BY <2>1, <2>2, <2>3, <2>4
    <2>6. r \in Seq(S) /\ Len(r) = Len(list) - 1
      BY <2>3, <2>5
    <2>7. \A j \in 1 .. Len(r) : r[j] = IF j < k THEN list[j] ELSE list[j + 1]
      BY <2>2, <2>6
    <2>8. Range(r) \subseteq Range(list)
      BY <2>1, <2>3, <2>6, <2>7 DEF Range
    <2>9. ASSUME IsInjective(list) PROVE IsInjective(r) /\ Range(r) = Range(list) \ {n}
      <3>1. \A i, j \in 1 .. Len(list) : list[i] = list[j] => i = j
        BY <2>9 DEF IsInjective
      <3>2. IsInjective(r)
        <4> SUFFICES ASSUME NEW i \in 1 .. Len(r), NEW j \in 1 .. Len(r), r[i] = r[j]
                     PROVE  i = j
          BY <2>6 DEF IsInjective
        <4> DEFINE a == IF i < k THEN i ELSE i + 1
                   b == IF j < k THEN j ELSE j + 1
        <4>1. a \in 1 .. Len(list) /\ b \in 1 .. Len(list) /\ list[a] = list[b]
          BY <2>1, <2>3, <2>6, <2>7
        <4>2. a = b
          BY <3>1, <4>1
        <4> QED BY <4>2, <2>1
      <3>3. n \notin Range(r)
        <4> SUFFICES ASSUME NEW i \in 1 .. Len(r), r[i] = n PROVE FALSE
          BY <2>6, RangeByIndex
        <4> DEFINE a == IF i < k THEN i ELSE i + 1
        <4>1. a \in 1 .. Len(list) /\ list[a] = list[k]
          BY <2>1, <2>3, <2>6, <2>7
        <4>2. a = k
          BY <3>1, <4>1, <2>1
        <4> QED BY <4>2, <2>1
      <3>4. ASSUME NEW x \in Range(list), x # n PROVE x \in Range(r)
        <4>1. PICK i \in 1 .. Len(list) : list[i] = x
          BY <3>4, RangeByIndex
        <4>2. CASE i < k
          <5>1. i \in 1 .. Len(r) /\ r[i] = x
            BY <2>1, <2>3, <2>6, <2>7, <4>1, <4>2
          <5> QED BY <5>1, <2>6, RangeByIndex
        <4>3. CASE i > k
          <5>1. i - 1 \in 1 .. Len(r) /\ r[i - 1] = x
            BY <2>1, <2>3, <2>6, <2>7, <4>1, <4>3
          <5> QED BY <5>1, <2>6, RangeByIndex
        <4>4. i # k
          BY <2>1, <3>4, <4>1
        <4> QED BY <2>1, <4>2, <4>3, <4>4
      <3> QED BY <2>8, <3>2, <3>3, <3>4
    <2> QED BY <1>2, <2>6, <2>8, <2>9 DEF r
  <1> QED BY <1>1, <1>2

\* _ipc_list_resume unlinks the first thread of a list and nothing else.
LEMMA TailLinks ==
    ASSUME NEW S, NEW list \in Seq(S), list # <<>>, IsInjective(list)
    PROVE  /\ Tail(list) \in Seq(S) /\ IsInjective(Tail(list))
           /\ Range(Tail(list)) = Range(list) \ {Head(list)}
  <1> DEFINE r == Tail(list)
  <1>1. /\ r \in Seq(S) /\ Len(r) = Len(list) - 1 /\ Len(list) \in Nat /\ Len(list) >= 1
        /\ \A i \in 1 .. Len(r) : r[i] = list[i + 1]
        /\ Head(list) = list[1]
    OBVIOUS
  <1>2. \A i, j \in 1 .. Len(list) : list[i] = list[j] => i = j
    BY DEF IsInjective
  <1> HIDE DEF r
  <1>3. \A i, j \in 1 .. Len(r) : r[i] = r[j] => i = j
    BY <1>1, <1>2
  <1>4. IsInjective(r)
    BY <1>1, <1>3 DEF IsInjective
  <1>5. ASSUME NEW x \in Range(r) PROVE x \in Range(list) /\ x # Head(list)
    <2>1. PICK i \in 1 .. Len(r) : r[i] = x
      BY <1>1, <1>5, RangeByIndex
    <2>2. i + 1 \in 1 .. Len(list) /\ list[i + 1] = x /\ i + 1 # 1
      BY <1>1, <2>1
    <2>3. x # list[1]
      BY <1>1, <1>2, <2>2
    <2> QED BY <1>1, <2>2, <2>3, RangeByIndex
  <1>6. ASSUME NEW x \in Range(list), x # Head(list) PROVE x \in Range(r)
    <2>1. PICK i \in 1 .. Len(list) : list[i] = x
      BY <1>6, RangeByIndex
    <2>2. i - 1 \in 1 .. Len(r) /\ r[i - 1] = x
      BY <1>1, <1>6, <2>1
    <2> QED BY <1>1, <2>2, RangeByIndex
  <1> QED BY <1>1, <1>4, <1>5, <1>6 DEF r

\* A list without duplicates has as many elements as nodes.
LEMMA NodesCounted ==
    ASSUME NEW S, NEW list \in Seq(S), IsInjective(list)
    PROVE  IsFiniteSet(Range(list)) /\ Cardinality(Range(list)) = Len(list)
  <1>1. Len(list) \in Nat /\ list \in [1 .. Len(list) -> S]
    OBVIOUS
  <1>2. IsFiniteSet(1 .. Len(list)) /\ Cardinality(1 .. Len(list)) = Len(list)
    BY <1>1, FS_Interval
  <1>3. list \in Bijection(1 .. Len(list), Range(list))
    BY <1>1 DEF Bijection, Injection, Surjection, Range
  <1>4. ExistsBijection(1 .. Len(list), Range(list))
    BY <1>3 DEF ExistsBijection
  <1> QED BY <1>2, <1>4, FS_Bijection

-----------------------------------------------------------------------------
(* The lists of ipc.c.                                                      *)

\* Of two threads in the list, the pair in the order of the list is in R.
Ordered(list, R) ==
    \A i, j \in 1 .. Len(list) : i < j => <<list[i], list[j]>> \in R

\* _ipc_list_suspend stops somewhere in the list: what it passed is at least as
\* urgent as t, and it stops at a less urgent thread or at the end.
LEMMA ScanStops ==
    ASSUME NEW S, NEW list \in Seq(S), NEW t \in S, NEW prio \in [S -> Nat]
    PROVE  /\ ScanStop(list, t, prio) \in 1 .. Len(list) + 1
           /\ \A j \in 1 .. Len(list) :
                j < ScanStop(list, t, prio) => prio[list[j]] <= prio[t]
           /\ ScanStop(list, t, prio) <= Len(list)
                => prio[t] < prio[list[ScanStop(list, t, prio)]]
  <1> DEFINE less == {i \in DOMAIN list : prio[t] < prio[list[i]]}
             k == ScanStop(list, t, prio)
  <1>1. less \in SUBSET Nat /\ less \subseteq 1 .. Len(list)
    OBVIOUS
  <1>2. \A j \in 1 .. Len(list) : list[j] \in S /\ prio[list[j]] \in Nat
    OBVIOUS
  <1>3. CASE less = {}
    <2>1. k = Len(list) + 1
      BY <1>3 DEF ScanStop
    <2>2. \A j \in 1 .. Len(list) : prio[list[j]] <= prio[t]
      BY <1>2, <1>3
    <2> HIDE DEF k
    <2>3. Len(list) \in Nat
      OBVIOUS
    <2>4. k \in 1 .. Len(list) + 1 /\ ~(k <= Len(list))
      BY <2>1, <2>3
    <2> QED BY <2>2, <2>4 DEF k
  <1>4. CASE less # {}
    <2>1. \E i \in less : \A j \in less : i <= j
      BY <1>1, <1>4, MinimumExists
    <2>2. k = CHOOSE i \in less : \A j \in less : i <= j
      BY <1>4 DEF ScanStop
    <2> HIDE DEF k, less
    <2>3. k \in less /\ \A j \in less : k <= j
      BY <2>1, <2>2
    <2>4. k \in 1 .. Len(list) /\ prio[t] < prio[list[k]]
      BY <2>3 DEF less
    <2>5. ASSUME NEW j \in 1 .. Len(list), j < k PROVE prio[list[j]] <= prio[t]
      <3>1. j \notin less
        BY <2>3, <2>4, <2>5
      <3> QED BY <1>2, <3>1 DEF less
    <2> QED BY <2>4, <2>5 DEF k
  <1> QED BY <1>3, <1>4

\* A node is linked at a position, and nothing else changes.
LEMMA LinkAtLinks ==
    ASSUME NEW S, NEW list \in Seq(S), NEW n \in S, NEW k \in 1 .. Len(list) + 1
    PROVE  /\ LinkAt(list, k, n) \in Seq(S)
           /\ Len(LinkAt(list, k, n)) = Len(list) + 1
           /\ \A j \in 1 .. Len(list) + 1 : LinkAt(list, k, n)[j] =
                 IF j < k THEN list[j] ELSE IF j = k THEN n ELSE list[j - 1]
           /\ Range(LinkAt(list, k, n)) = Range(list) \cup {n}
           /\ IsInjective(list) /\ n \notin Range(list)
                => IsInjective(LinkAt(list, k, n))
  <1> DEFINE r == LinkAt(list, k, n)
             m == Len(list) + 1
  <1>1. r = [j \in 1 .. m |-> IF j < k THEN list[j] ELSE IF j = k THEN n ELSE list[j - 1]]
    BY DEF LinkAt
  <1>2. m \in Nat /\ Len(list) \in Nat /\ k \in 1 .. m
    OBVIOUS
  <1>3. \A j \in 1 .. Len(list) : list[j] \in S
    OBVIOUS
  <1> HIDE DEF r
  <1>4. r \in [1 .. m -> S]
    BY <1>1, <1>2, <1>3
  <1>5. r \in Seq(S) /\ Len(r) = m
    BY <1>2, <1>4
  <1>6. \A j \in 1 .. m : r[j] = IF j < k THEN list[j] ELSE IF j = k THEN n ELSE list[j - 1]
    BY <1>1
  <1>7. Range(r) = Range(list) \cup {n}
    <2>1. ASSUME NEW x \in Range(r) PROVE x \in Range(list) \cup {n}
      <3>1. PICK j \in 1 .. m : r[j] = x
        BY <1>5, <2>1, RangeByIndex
      <3>2. CASE j = k
        BY <1>6, <3>1, <3>2
      <3>3. CASE j < k
        <4>1. j \in 1 .. Len(list) /\ list[j] = x
          BY <1>2, <1>6, <3>1, <3>3
        <4> QED BY <4>1, RangeByIndex
      <3>4. CASE j > k
        <4>1. j - 1 \in 1 .. Len(list) /\ list[j - 1] = x
          BY <1>2, <1>6, <3>1, <3>4
        <4> QED BY <4>1, RangeByIndex
      <3> QED BY <3>2, <3>3, <3>4
    <2>2. ASSUME NEW x \in Range(list) PROVE x \in Range(r)
      <3>1. PICK i \in 1 .. Len(list) : list[i] = x
        BY <2>2, RangeByIndex
      <3>2. CASE i < k
        <4>1. i \in 1 .. Len(r) /\ r[i] = x
          BY <1>2, <1>5, <1>6, <3>1, <3>2
        <4> QED BY <1>5, <4>1, RangeByIndex
      <3>3. CASE i >= k
        <4>1. i + 1 \in 1 .. Len(r) /\ r[i + 1] = x
          BY <1>2, <1>5, <1>6, <3>1, <3>3
        <4> QED BY <1>5, <4>1, RangeByIndex
      <3> QED BY <3>2, <3>3
    <2>3. n \in Range(r)
      <3>1. k \in 1 .. Len(r) /\ r[k] = n
        BY <1>2, <1>5, <1>6
      <3> QED BY <1>5, <3>1, RangeByIndex
    <2> QED BY <2>1, <2>2, <2>3
  <1>8. ASSUME IsInjective(list), n \notin Range(list) PROVE IsInjective(r)
    <2>1. \A i \in 1 .. Len(list) : list[i] # n
      BY <1>8, RangeByIndex
    <2>2. \A i, j \in 1 .. Len(list) : list[i] = list[j] => i = j
      BY <1>8 DEF IsInjective
    <2> SUFFICES ASSUME NEW i \in 1 .. m, NEW j \in 1 .. m, r[i] = r[j]
                 PROVE  i = j
      BY <1>4, <1>5 DEF IsInjective
    <2> DEFINE a == IF i < k THEN i ELSE i - 1
               b == IF j < k THEN j ELSE j - 1
    <2>3. i # k => a \in 1 .. Len(list) /\ r[i] = list[a]
      BY <1>2, <1>6
    <2>4. j # k => b \in 1 .. Len(list) /\ r[j] = list[b]
      BY <1>2, <1>6
    <2>5. r[k] = n
      BY <1>2, <1>6
    <2>6. CASE i = k \/ j = k
      BY <2>1, <2>3, <2>4, <2>5, <2>6
    <2>7. CASE i # k /\ j # k
      <3>1. a = b
        BY <2>2, <2>3, <2>4, <2>7
      <3> QED BY <2>7, <3>1, <1>2
    <2> QED BY <2>6, <2>7
  <1> QED BY <1>5, <1>6, <1>7, <1>8 DEF r

\* _ipc_list_suspend links the thread that blocks and nothing else.
LEMMA EnqueueLinks ==
    ASSUME NEW S, NEW list \in Seq(S), NEW t \in S, NEW flag, NEW prio \in [S -> Nat],
           IsInjective(list), t \notin Range(list)
    PROVE  /\ Enqueue(list, t, flag, prio) \in Seq(S)
           /\ IsInjective(Enqueue(list, t, flag, prio))
           /\ Range(Enqueue(list, t, flag, prio)) = Range(list) \cup {t}
  <1> DEFINE k == ScanStop(list, t, prio)
  <1>1. k \in 1 .. Len(list) + 1
    BY ScanStops
  <1>2. Enqueue(list, t, flag, prio) =
          IF flag = "FIFO" THEN InsertBefore(list, t) ELSE LinkAt(list, k, t)
    BY DEF Enqueue
  <1> HIDE DEF k
  <1>3. CASE flag = "FIFO"
    BY <1>2, <1>3, InsertBeforeLinks
  <1>4. CASE flag # "FIFO"
    <2>1. /\ LinkAt(list, k, t) \in Seq(S) /\ IsInjective(LinkAt(list, k, t))
          /\ Range(LinkAt(list, k, t)) = Range(list) \cup {t}
      BY <1>1, LinkAtLinks
    <2> QED BY <1>2, <1>4, <2>1
  <1> QED BY <1>3, <1>4

\* Linking a node between the ones that precede it and the ones that follow it
\* keeps the order.
LEMMA LinkAtOrdered ==
    ASSUME NEW S, NEW list \in Seq(S), NEW n \in S, NEW k \in 1 .. Len(list) + 1,
           NEW R, Ordered(list, R),
           \A j \in 1 .. Len(list) : j < k => <<list[j], n>> \in R,
           \A j \in 1 .. Len(list) : k <= j => <<n, list[j]>> \in R
    PROVE  Ordered(LinkAt(list, k, n), R)
  <1> DEFINE r == LinkAt(list, k, n)
  <1>1. /\ Len(r) = Len(list) + 1
        /\ \A j \in 1 .. Len(list) + 1 : r[j] =
              IF j < k THEN list[j] ELSE IF j = k THEN n ELSE list[j - 1]
    BY LinkAtLinks
  <1>2. Len(list) \in Nat /\ k \in 1 .. Len(list) + 1
    OBVIOUS
  <1> HIDE DEF r
  <1>3. ASSUME NEW i \in 1 .. Len(list) + 1, NEW j \in 1 .. Len(list) + 1, i < j
        PROVE  <<r[i], r[j]>> \in R
    <2>1. CASE j < k
      <3>1. r[i] = list[i] /\ r[j] = list[j] /\ i \in 1 .. Len(list) /\ j \in 1 .. Len(list)
        BY <1>1, <1>2, <1>3, <2>1
      <3> QED BY <1>3, <3>1 DEF Ordered
    <2>2. CASE j = k
      <3>1. r[i] = list[i] /\ r[j] = n /\ i \in 1 .. Len(list)
        BY <1>1, <1>2, <1>3, <2>2
      <3> QED BY <1>3, <2>2, <3>1
    <2>3. CASE j > k
      <3>1. r[j] = list[j - 1] /\ j - 1 \in 1 .. Len(list)
        BY <1>1, <1>2, <2>3
      <3>2. CASE i = k
        <4>1. r[i] = n /\ k <= j - 1
          BY <1>1, <1>2, <2>3, <3>2
        <4> QED BY <3>1, <4>1
      <3>3. CASE i < k
        <4>1. r[i] = list[i] /\ i \in 1 .. Len(list) /\ i < j - 1
          BY <1>1, <1>2, <2>3, <3>3
        <4> QED BY <3>1, <4>1 DEF Ordered
      <3>4. CASE i > k
        <4>1. r[i] = list[i - 1] /\ i - 1 \in 1 .. Len(list) /\ i - 1 < j - 1
          BY <1>1, <1>2, <1>3, <3>4
        <4> QED BY <3>1, <4>1 DEF Ordered
      <3> QED BY <3>2, <3>3, <3>4, <1>2
    <2> QED BY <2>1, <2>2, <2>3, <1>2
  <1>4. Ordered(r, R)
    BY <1>1, <1>3 DEF Ordered
  <1> QED BY <1>4 DEF r

\* Linking a node at the end.
LEMMA InsertBeforeOrdered ==
    ASSUME NEW S, NEW list \in Seq(S), NEW n \in S, NEW R, Ordered(list, R),
           \A u \in Range(list) : <<u, n>> \in R
    PROVE  Ordered(InsertBefore(list, n), R)
  <1> DEFINE r == InsertBefore(list, n)
  <1>1. /\ Len(r) = Len(list) + 1 /\ Len(list) \in Nat
        /\ \A i \in 1 .. Len(list) + 1 : r[i] = IF i = Len(list) + 1 THEN n ELSE list[i]
    BY DEF InsertBefore
  <1> HIDE DEF r
  <1>2. \A i \in 1 .. Len(list) : list[i] \in Range(list)
    BY RangeByIndex
  <1>3. ASSUME NEW i \in 1 .. Len(r), NEW j \in 1 .. Len(r), i < j
        PROVE  <<r[i], r[j]>> \in R
    <2>1. i \in 1 .. Len(list) /\ r[i] = list[i]
      BY <1>1, <1>3
    <2>2. CASE j = Len(list) + 1
      BY <1>1, <1>2, <2>1, <2>2
    <2>3. CASE j # Len(list) + 1
      <3>1. j \in 1 .. Len(list) /\ r[j] = list[j]
        BY <1>1, <2>3
      <3> QED BY <1>3, <2>1, <3>1 DEF Ordered
    <2> QED BY <2>2, <2>3
  <1>4. Ordered(r, R)
    BY <1>3 DEF Ordered
  <1> QED BY <1>4 DEF r

\* rt_list_remove keeps the others in order.
LEMMA UnlinkOrdered ==
    ASSUME NEW S, NEW list \in Seq(S), NEW n, NEW R, Ordered(list, R)
    PROVE  Ordered(Unlink(list, n), R)
  <1>1. CASE n \notin Range(list)
    BY <1>1 DEF Unlink
  <1>2. CASE n \in Range(list)
    <2> DEFINE k == IndexOf(list, n)
               r == Unlink(list, n)
    <2>1. k \in 1 .. Len(list)
      BY <1>2 DEF IndexOf, Range
    <2>2. r = [j \in 1 .. Len(list) - 1 |-> IF j < k THEN list[j] ELSE list[j + 1]]
      BY <1>2 DEF Unlink, DropAt
    <2> HIDE DEF k, r
    <2>3. Len(list) \in Nat /\ Len(list) - 1 \in Nat
      BY <2>1
    <2>4. r \in [1 .. Len(list) - 1 -> S]
      BY <2>1, <2>2, <2>3
    <2>5. Len(r) = Len(list) - 1
      BY <2>3, <2>4
    <2>6. ASSUME NEW i \in 1 .. Len(r), NEW j \in 1 .. Len(r), i < j
          PROVE  <<r[i], r[j]>> \in R
      <3> DEFINE a == IF i < k THEN i ELSE i + 1
                 b == IF j < k THEN j ELSE j + 1
      <3>1. a \in 1 .. Len(list) /\ r[i] = list[a]
        BY <2>1, <2>2, <2>3, <2>5
      <3>2. b \in 1 .. Len(list) /\ r[j] = list[b]
        BY <2>1, <2>2, <2>3, <2>5
      <3>3. a < b
        BY <2>1, <2>3, <2>6
      <3> HIDE DEF a, b
      <3> QED BY <3>1, <3>2, <3>3 DEF Ordered
    <2>7. Ordered(r, R)
      BY <2>6 DEF Ordered
    <2> QED BY <2>7 DEF r
  <1> QED BY <1>1, <1>2

\* The order of a list depends on the pairs of its members only.
LEMMA OrderedKept ==
    ASSUME NEW S, NEW list \in Seq(S), NEW R, NEW Q, Ordered(list, R),
           \A u, v \in Range(list) : <<u, v>> \in R => <<u, v>> \in Q
    PROVE  Ordered(list, Q)
  <1>1. \A i \in 1 .. Len(list) : list[i] \in Range(list)
    BY RangeByIndex
  <1> QED BY <1>1 DEF Ordered

\* rt_event_send unlinks the threads it serves and nothing else.
LEMMA UnlinkAllUnlinks ==
    ASSUME NEW T, NEW list \in Seq(T), IsInjective(list), NEW S
    PROVE  /\ UnlinkAll(list, S) \in Seq(T) /\ IsInjective(UnlinkAll(list, S))
           /\ Range(UnlinkAll(list, S)) = Range(list) \ S
  <1> DEFINE kept == {i \in DOMAIN list : list[i] \notin S}
             Upto(i) == {j \in kept : j <= i}
             place == [i \in kept |-> Cardinality(Upto(i))]
             m == Cardinality(kept)
             pick(n) == CHOOSE i \in kept : place[i] = n
             r == UnlinkAll(list, S)
  <1>1. /\ Len(list) \in Nat /\ DOMAIN list = 1 .. Len(list)
        /\ \A i \in 1 .. Len(list) : list[i] \in T
    OBVIOUS
  <1>2. \A i, j \in 1 .. Len(list) : list[i] = list[j] => i = j
    BY <1>1 DEF IsInjective
  <1>3. kept \in SUBSET (1 .. Len(list)) /\ IsFiniteSet(kept) /\ m \in Nat
    <2>1. kept \in SUBSET (1 .. Len(list))
      BY <1>1
    <2>2. IsFiniteSet(1 .. Len(list))
      BY <1>1, FS_Interval
    <2> QED BY <2>1, <2>2, FS_Subset, FS_CardinalityType
  <1>4. r = [n \in 1 .. m |-> list[pick(n)]]
    BY DEF UnlinkAll
  <1> HIDE DEF r
  <1>5. \A i \in 1 .. Len(list) : i \in kept <=> list[i] \notin S
    BY <1>1
  <1> HIDE DEF kept
  <1>6. ASSUME NEW i \in kept PROVE /\ Upto(i) \in SUBSET kept /\ IsFiniteSet(Upto(i))
                                    /\ Cardinality(Upto(i)) \in 1 .. m
    <2>1. Upto(i) \in SUBSET kept /\ i \in Upto(i)
      BY <1>3
    <2>2. IsFiniteSet(Upto(i)) /\ Cardinality(Upto(i)) <= m /\ Cardinality(Upto(i)) \in Nat
      BY <1>3, <2>1, FS_Subset, FS_CardinalityType
    <2>3. Cardinality(Upto(i)) # 0
      BY <2>1, <2>2, FS_EmptySet
    <2> QED BY <1>3, <2>1, <2>2, <2>3
  <1>7. ASSUME NEW i \in kept, NEW j \in kept, i < j PROVE Cardinality(Upto(i)) # Cardinality(Upto(j))
    <2>1. i \in Nat /\ j \in Nat /\ \A k \in kept : k \in Nat
      BY <1>3
    <2>2. Upto(i) \in SUBSET Upto(j) /\ j \in Upto(j) /\ j \notin Upto(i)
      <3>1. \A k \in kept : k <= i => k <= j
        BY <1>7, <2>1
      <3>2. j <= j /\ ~(j <= i)
        BY <1>7, <2>1
      <3> QED BY <3>1, <3>2
    <2>3. Upto(i) # Upto(j)
      BY <2>2
    <2> QED BY <1>6, <2>2, <2>3, FS_Subset
  <1>8. place \in Injection(kept, 1 .. m)
    <2>1. place \in [kept -> 1 .. m]
      BY <1>6
    <2>2. ASSUME NEW i \in kept, NEW j \in kept, place[i] = place[j] PROVE i = j
      <3>1. i \in Nat /\ j \in Nat /\ Cardinality(Upto(i)) = Cardinality(Upto(j))
        BY <1>3, <2>2
      <3> QED BY <1>7, <3>1
    <2> HIDE DEF place
    <2> QED BY <2>1, <2>2 DEF Injection, IsInjective
  <1> HIDE DEF place
  <1>9. place \in Surjection(kept, 1 .. m)
    <2>1. IsFiniteSet(1 .. m) /\ Cardinality(1 .. m) = m
      BY <1>3, FS_Interval
    <2> QED BY <1>8, <2>1, FS_Injection
  <1>10. \A n \in 1 .. m : pick(n) \in kept /\ place[pick(n)] = n
    <2> SUFFICES ASSUME NEW n \in 1 .. m PROVE pick(n) \in kept /\ place[pick(n)] = n
      OBVIOUS
    <2>1. \E i \in kept : place[i] = n
      BY <1>9 DEF Surjection
    <2> QED BY <2>1
  <1> HIDE DEF pick
  <1>11. \A n \in 1 .. m : list[pick(n)] \in T
    BY <1>1, <1>3, <1>10
  <1>12. r \in [1 .. m -> T]
    BY <1>4, <1>11
  <1>13. r \in Seq(T) /\ Len(r) = m
    BY <1>3, <1>12
  <1>14. \A n \in 1 .. m : r[n] = list[pick(n)]
    BY <1>4
  <1>15. IsInjective(r)
    <2>1. ASSUME NEW n \in 1 .. m, NEW k \in 1 .. m, r[n] = r[k] PROVE n = k
      <3>1. list[pick(n)] = list[pick(k)]
        BY <1>14, <2>1
      <3>2. pick(n) = pick(k)
        BY <1>2, <1>3, <1>10, <3>1
      <3> QED BY <1>10, <3>2
    <2> QED BY <1>12, <2>1 DEF IsInjective
  <1>16. ASSUME NEW x \in Range(r) PROVE x \in Range(list) /\ x \notin S
    <2>1. PICK n \in 1 .. m : r[n] = x
      BY <1>13, <1>16, RangeByIndex
    <2>2. pick(n) \in 1 .. Len(list) /\ list[pick(n)] = x /\ x \notin S
      BY <1>3, <1>5, <1>10, <1>14, <2>1
    <2> QED BY <2>2, RangeByIndex
  <1>17. ASSUME NEW x \in Range(list), x \notin S PROVE x \in Range(r)
    <2>1. PICK i \in 1 .. Len(list) : list[i] = x
      BY <1>17, RangeByIndex
    <2>2. i \in kept
      BY <1>5, <1>17, <2>1
    <2>3. place[i] \in 1 .. m
      BY <1>8, <2>2 DEF Injection
    <2>4. pick(place[i]) = i
      BY <1>8, <1>10, <2>2, <2>3 DEF Injection, IsInjective
    <2>5. r[place[i]] = x
      BY <1>14, <2>1, <2>3, <2>4
    <2> QED BY <1>13, <2>3, <2>5, RangeByIndex
  <1> QED BY <1>13, <1>15, <1>16, <1>17 DEF r

=============================================================================
