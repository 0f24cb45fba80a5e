------------------------------- MODULE IpcList -------------------------------
(***************************************************************************)
(* The list of threads suspended on an IPC object (ipc.c), ordered by the   *)
(* object's flag.                                                           *)
(***************************************************************************)
EXTENDS KernelList, FiniteSets

Flags == {"FIFO", "PRIO"}

\* Mutant: the scan stops at a thread of the same priority, and goes before it.
ScanStop_BeforePeers(list, t, prio) ==
    LET less == {i \in DOMAIN list : prio[t] <= prio[list[i]]}
    IN  IF less = {} THEN Len(list) + 1
        ELSE CHOOSE i \in less : \A j \in less : i <= j

\* Where _ipc_list_suspend stops its scan: the first thread that is less urgent
\* than t, or the end of the list.
ScanStop(list, t, prio) ==
    LET less == {i \in DOMAIN list : prio[t] < prio[list[i]]}
    IN  IF less = {} THEN Len(list) + 1
        ELSE CHOOSE i \in less : \A j \in less : i <= j

\* The list with t linked as its i-th element.
LinkAt(list, i, t) ==
    [j \in 1 .. Len(list) + 1 |-> IF j < i THEN list[j]
                                  ELSE IF j = i THEN t ELSE list[j - 1]]

\* _ipc_list_suspend: where a blocking thread is linked.
Enqueue(list, t, flag, prio) ==
    IF flag = "FIFO" THEN InsertBefore(list, t)
    ELSE LinkAt(list, ScanStop(list, t, prio), t)

\* The list after each of the nodes in S was unlinked: what is left keeps its order.
UnlinkAll(list, S) ==
    LET kept == {i \in DOMAIN list : list[i] \notin S}
        place == [i \in kept |-> Cardinality({j \in kept : j <= i})]
    IN  [n \in 1 .. Cardinality(kept) |-> list[CHOOSE i \in kept : place[i] = n]]

=============================================================================
