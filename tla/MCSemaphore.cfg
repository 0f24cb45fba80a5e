SPECIFICATION Spec
CONSTANTS
    t1 = t1
    t2 = t2
    t3 = t3
    Thread <- MCThread
    Flag = "PRIO"
    PRIORITIES = {0, 1}
    InitPrio <- MCInitPrio
    InitValue = 1
    VALUE_MAX = 2
    Resets = {0, 4}
    Reprio = FALSE
INVARIANTS TypeOK WaitersSound NoLostWakeup TokensConserved QueueInOrder
