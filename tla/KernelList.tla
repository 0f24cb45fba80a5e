----------------------------- MODULE KernelList -----------------------------
(***************************************************************************)
(* The doubly linked list of rtservice.h as the kernel objects use it.  A   *)
(* list head is a sequence, its first element is head.next and its last     *)
(* head.prev; a node that is linked nowhere is in no sequence.              *)
(***************************************************************************)
EXTENDS Naturals, Sequences, Functions

\* rt_list_insert_after(head, n): n becomes the first element.
InsertAfter(list, n) == <<n>> \o list

\* rt_list_insert_before(head, n): n becomes the last element.
InsertBefore(list, n) == Append(list, n)

\* Where n is linked in the list.
IndexOf(list, n) == CHOOSE i \in DOMAIN list : list[i] = n

\* The list without its i-th element.
DropAt(list, i) ==
    [j \in 1 .. Len(list) - 1 |-> IF j < i THEN list[j] ELSE list[j + 1]]

\* rt_list_remove(n): n is unlinked; a node linked in itself only is left as
\* it is.
Unlink(list, n) ==
    IF n \in Range(list) THEN DropAt(list, IndexOf(list, n)) ELSE list

=============================================================================
