------------------------------ MODULE Allocator ------------------------------
(***************************************************************************)
(* What a heap promises its callers, whatever it keeps to do so: the regions *)
(* it has handed out lie in the heap and do not overlap, each holds what was *)
(* asked for, and a request is refused only when no stretch of unused bytes  *)
(* could hold it.                                                            *)
(***************************************************************************)
EXTENDS Integers, Functions

CONSTANTS
    SPACE,    \* the bytes of the heap
    ALIGN,    \* regions begin and end at multiples of this
    HEADER,   \* the bytes of a region that its user does not see
    MIN_SIZE, \* a smaller request may be treated as one for this many bytes
    Size,     \* the requests
    NULL      \* the pointer that says no

Address == {a \in 0 .. SPACE : a % ALIGN = 0}

VARIABLES
    region,   \* the regions in use: their length by their address
    asked,    \* the size that the last call asked for
    answer    \* the pointer that it returned

vars == <<region, asked, answer>>

Init == region = <<>> /\ asked = 0 /\ answer = NULL

\* The n bytes from a on are part of no region.
Unused(a, n) ==
    /\ a + n <= SPACE
    /\ \A b \in DOMAIN region : a + n <= b \/ b + region[b] <= a

\* The lengths that hold n bytes for the user.
Length(n) == {l \in Address : l >= HEADER + n}

Refuse(n) ==
    /\ answer' = NULL
    /\ \A a \in Address : \A l \in Length(n) : l >= HEADER + MIN_SIZE => ~Unused(a, l)
    /\ UNCHANGED region

\* A region is handed out; the one at old, if any, is given back afterwards.
Grant(n, old) ==
    \E a \in Address :
      /\ answer' = a
      /\ \E l \in Length(n) :
           /\ Unused(a, l)
           /\ region' = [b \in (DOMAIN region \ {old}) \cup {a} |->
                           IF b = a THEN l ELSE region[b]]

\* The region stays where it is and may become shorter.
Keep(n, a) ==
    /\ answer' = a
    /\ \E l \in Length(n) : l <= region[a] /\ region' = [region EXCEPT ![a] = l]

Release(a) ==
    /\ answer' = NULL
    /\ region' = Restrict(region, DOMAIN region \ {a})

Next ==
    \E n \in Size :
      /\ asked' = n
      /\ \/ n # 0 /\ (Refuse(n) \/ Grant(n, NULL))
         \/ n # 0 /\ \E a \in DOMAIN region : Keep(n, a) \/ Grant(n, a)
         \/ n = 0 /\ \E a \in DOMAIN region : Release(a)
         \/ n = 0 /\ answer' = NULL /\ UNCHANGED region

Spec == Init /\ [][Next]_vars

=============================================================================
