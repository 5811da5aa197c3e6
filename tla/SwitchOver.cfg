SPECIFICATION FairSpec
CONSTANTS
    Switchers = {s1}
    Restarters = {r1}
    Dialers = {d1}
    Main = main
    None = none
    Faults = {"start", "configure", "handshake", "probe", "disk"}
    DaemonDies = TRUE
    MaxRequests = 3
    MaxCrashes = 1
INVARIANTS ReadyHasInterface CleanWhenDown
PROPERTIES
    IsTunnel
    DialsReturn
CHECK_DEADLOCK FALSE
