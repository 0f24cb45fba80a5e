SPECIFICATION SmemSpec
CONSTANTS
    ALIGN = 4
    HEADER = 12
    MIN_SIZE = 12
    MEM_SIZE = 96
    WORD = 256
    Size = {0, 1, 12, 18, 40, 200, 254}
    NULL = NULL
VIEW View
INVARIANTS HeapSound
PROPERTIES ImplementsAllocator
