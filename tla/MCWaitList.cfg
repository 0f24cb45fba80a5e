SPECIFICATION MCSpec
CONSTANTS
    Thread = {t1, t2, t3, t4}
    Extra = t4
    Block = {a, b, c}
    Bit = {d, e}
    Flag = "FIFO"
    Prio <- MCPrio
    Timed = {TRUE, FALSE}
SYMMETRY Symmetry
VIEW View
INVARIANTS NoSatisfiedWaiter ReceivedSound BlocksAccounted NoLostWakeup
