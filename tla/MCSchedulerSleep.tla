-------------------------- MODULE MCSchedulerSleep --------------------------
(* The most urgent thread sleeps and blocks while a less urgent one locks the  *)
(* scheduler, yields and sleeps.                                              *)
EXTENDS SchedulerInvariants, TLC

CONSTANTS high, low, idle

MCThread == {high, low, idle}
MCInitPrio == high :> 0 @@ low :> 1 @@ idle :> 2
MCInitTick == high :> 1 @@ low :> 2 @@ idle :> 1
MCCalls == high :> {"sleep", "wait", "yield"} @@ low :> {"critical", "yield", "sleep"}
        @@ idle :> {}
MCTarget == [t \in MCThread |-> {}]
=============================================================================
