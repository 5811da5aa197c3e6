SPECIFICATION FairSpec
CONSTANTS
    Maint = m
    Callers = {}
    Dialers = {d1}
    StaticKeys = {s1}
    DynamicKeys = {k1}
    UserKeys = {}
    FirstKey = k1
    None = none
    Threshold = 2
    SlotCap = 1
    Probing = TRUE
    Refreshing = TRUE
    MaxCalls = 0
    MayStop = TRUE
    MaxRotations = 0
    FirstNet = "flaky"
    Settles = {"good", "dead"}
    Faults = {}
PROPERTIES
    EventuallyReady
    DeadTunnelNoticed
    SupervisorStops
