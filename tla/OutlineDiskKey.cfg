SPECIFICATION Spec
CONSTANTS
    Maint = m
    Callers = {c1, c2}
    Dialers = {}
    StaticKeys = {s1, s2}
    DynamicKeys = {}
    UserKeys = {s1, s2}
    FirstKey = s1
    None = none
    Threshold = 2
    SlotCap = 1
    Probing = TRUE
    Refreshing = TRUE
    MaxCalls = 2
    MayStop = FALSE
    MaxRotations = 1
    FirstNet = "good"
    Settles = {}
    Faults = {}
INVARIANTS
    DiskKeyIsCurrent
