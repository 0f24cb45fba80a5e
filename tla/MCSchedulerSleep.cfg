SPECIFICATION FairSpec
CONSTANTS
    high = high
    low = low
    idle = idle
    Thread <- MCThread
    Idle = idle
    NoThread = NoThread
    Boot <- MCThread
    PRIORITY_MAX = 3
    InitPrio <- MCInitPrio
    InitTick <- MCInitTick
    MaxSleep = 2
    MaxNest = 2
    Calls <- MCCalls
    Target <- MCTarget
PROPERTY SleeperRuns
