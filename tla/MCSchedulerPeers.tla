-------------------------- MODULE MCSchedulerPeers --------------------------
(* Peers of one priority that compute, yield and sleep, above the idle         *)
(* thread.                                                                    *)
EXTENDS SchedulerInvariants, TLC

CONSTANTS Peer, idle

MCThread == Peer \cup {idle}
MCInitPrio == [t \in MCThread |-> IF t = idle THEN 1 ELSE 0]
MCInitTick == [t \in MCThread |-> IF t = idle THEN 1 ELSE 2]
MCCalls == [t \in MCThread |-> IF t = idle THEN {} ELSE {"yield", "sleep"}]
MCTarget == [t \in MCThread |-> {}]
=============================================================================
