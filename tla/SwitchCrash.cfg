SPECIFICATION Spec
CONSTANTS
    Switchers = {s1}
    Restarters = {}
    Dialers = {}
    Main = main
    None = none
    Faults = {}
    DaemonDies = FALSE
    MaxRequests = 1
    MaxCrashes = 1
INVARIANTS BootIsClean
CHECK_DEADLOCK FALSE
