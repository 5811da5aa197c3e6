SPECIFICATION Spec
CONSTANTS
    Viewers = {v1, v2}
    Cap = 2
    Ttl = 2
    ChanCap = 2
    MaxEvents = 5
    MaxTime = 3
    MaxBacks = 1
INVARIANTS RingIsTail ShownInOrder NoSendOnClosed
PROPERTIES IsEventLog
SYMMETRY ViewerSymmetry
CHECK_DEADLOCK FALSE
