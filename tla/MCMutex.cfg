SPECIFICATION Spec
CONSTANTS
    high = high
    mid = mid
    low = low
    m1 = m1
    m2 = m2
    None = None
    Thread <- MCThread
    Mutex <- MCMutexes
    PRIORITIES = {0, 1, 2, 3}
    InitPrio <- MCInitPrio
    PRIO_NONE = 255
    HOLD_MAX = 2
    Ceilings = {0}
    Timed = {mid}
    Detachable = {m2}
    Deletable = {high}
    Resumable = {high}
CHECK_DEADLOCK FALSE
VIEW View
INVARIANTS MutualExclusion WaitersSound QueueInOrder NoInversion MutexPriorityTracks PriorityRestored
