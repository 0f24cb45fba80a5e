SPECIFICATION FairSpec
CONSTANTS
    Peer = {p1, p2, p3}
    idle = idle
    Thread <- MCThread
    Idle = idle
    NoThread = NoThread
    Boot <- MCThread
    PRIORITY_MAX = 2
    InitPrio <- MCInitPrio
    InitTick <- MCInitTick
    MaxSleep = 1
    MaxNest = 0
    Calls <- MCCalls
    Target <- MCTarget
PROPERTY EqualPriorityProgress
