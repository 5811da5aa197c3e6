SPECIFICATION FairSpec
CONSTANTS
    Maint = m
    Callers = {c1}
    Dialers = {}
    StaticKeys = {s1, s2}
    DynamicKeys = {k1, k2}
    UserKeys = {k2}
    FirstKey = k1
    None = none
    Threshold = 2
    SlotCap = 1
    Probing = FALSE
    Refreshing = TRUE
    MaxCalls = 2
    MayStop = FALSE
    MaxRotations = 1
    FirstNet = "flaky"
    Settles = {"good"}
    Faults = {}
PROPERTIES
    KeyTakesEffect
