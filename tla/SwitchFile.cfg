SPECIFICATION Spec
CONSTANTS
    Switchers = {s1, s2}
    Restarters = {}
    Dialers = {}
    Main = main
    None = none
    Faults = {}
    DaemonDies = FALSE
    MaxRequests = 3
    MaxCrashes = 0
INVARIANTS FileIsBackend
CHECK_DEADLOCK FALSE
