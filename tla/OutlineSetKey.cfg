SPECIFICATION Spec
CONSTANTS
    Maint = m
    Callers = {c1}
    Dialers = {}
    StaticKeys = {s1, s2}
    DynamicKeys = {k1}
    UserKeys = {k1}
    FirstKey = s1
    None = none
    Threshold = 2
    SlotCap = 1
    Probing = TRUE
    Refreshing = TRUE
    MaxCalls = 1
    MayStop = FALSE
    MaxRotations = 0
    FirstNet = "flaky"
    Settles = {}
    Faults = {}
INVARIANTS
    SetKeyInstallsIt
