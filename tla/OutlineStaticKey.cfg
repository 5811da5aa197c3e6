SPECIFICATION FairSpec
CONSTANTS
    Maint = m
    Callers = {c1}
    Dialers = {}
    StaticKeys = {s1, s2}
    DynamicKeys = {}
    UserKeys = {s2}
    FirstKey = s1
    None = none
    Threshold = 2
    SlotCap = 1
    Probing = FALSE
    Refreshing = TRUE
    MaxCalls = 1
    MayStop = FALSE
    MaxRotations = 1
    FirstNet = "flaky"
    Settles = {"good"}
    Faults = {"newDialer"}
PROPERTIES
    KeyTakesEffect
