SPECIFICATION Spec
CONSTANTS
    Maint = m
    Callers = {c1}
    Dialers = {d1, d2}
    StaticKeys = {s1}
    DynamicKeys = {}
    UserKeys = {s1}
    FirstKey = s1
    None = none
    Threshold = 2
    SlotCap = 1
    Probing = TRUE
    Refreshing = TRUE
    MaxCalls = 1
    MayStop = FALSE
    MaxRotations = 1
    FirstNet = "flaky"
    Settles = {}
    Faults = {}
INVARIANTS
    ReadyBelowThreshold
