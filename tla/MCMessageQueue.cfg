SPECIFICATION MqSpec
CONSTANTS
    Thread = {t1, t2, t3}
    Value = {a, b}
    SIZE = 2
    Null = Null
    Flag = "FIFO"
    Prio <- MCPrio
    Times = {"zero", "some"}
SYMMETRY Symmetry
VIEW View
INVARIANTS NodesAccounted MqNoLostWakeup
PROPERTY MqImplementsQueue
