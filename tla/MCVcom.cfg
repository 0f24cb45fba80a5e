SPECIFICATION Spec
CONSTANTS
    SIZE = 3
    CHUNK = 3
    PACKET = 2
    MESSAGES = 2
    WRITERS = 1
VIEW View
INVARIANTS RingIsFifo NoStuckOutput TransmitSound
