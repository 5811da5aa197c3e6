SPECIFICATION Spec
CONSTANTS
    Switchers = {s1}
    Restarters = {}
    Dialers = {}
    Main = main
    None = none
    Faults = {}
    DaemonDies = TRUE
    MaxRequests = 1
    MaxCrashes = 0
INVARIANTS ReadyIsLive
CHECK_DEADLOCK FALSE
