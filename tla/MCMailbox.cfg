SPECIFICATION Spec
CONSTANTS
    Thread = {t1, t2, t3}
    Value = {a, b}
    SIZE = 2
    Flag = "FIFO"
    Prio <- MCPrio
    Times = {"zero", "some"}
SYMMETRY Symmetry
VIEW View
INVARIANT NoLostWakeup
PROPERTY ImplementsQueue
