SPECIFICATION Spec
CONSTANTS
    ctl = ctl
    wrk = wrk
    drv = drv
    idle = idle
    Thread <- MCThread
    Idle = idle
    NoThread = NoThread
    Boot <- MCBoot
    PRIORITY_MAX = 3
    InitPrio <- MCInitPrio
    InitTick <- MCInitTick
    MaxSleep = 1
    MaxNest = 2
    Calls <- MCCalls
    Target <- MCTarget
INVARIANT DeletedLeavesQueue
VIEW MCView
