SPECIFICATION Spec
CONSTANTS
    h1 = h1
    s1 = s1
    s2 = s2

    AppTimer = {h1, s1, s2}
    Soft = {s1, s2}
    ThreadTimer = tt
    None = None
    TICKS = 9
    Delays <- MCDelays
    Repeating = {h1, s1}
    MaxLate = 1
VIEW View
INVARIANTS LinkedIsActive InOrder NoneOverdue ThreadTimerSound SleepsNoLonger
PROPERTY NeverEarly
