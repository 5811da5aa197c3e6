SPECIFICATION Spec
CONSTANTS
    Switchers = {s1, s2}
    Restarters = {}
    Dialers = {}
    Main = main
    None = none
    Faults = {}
    DaemonDies = FALSE
    MaxRequests = 2
    MaxCrashes = 0
INVARIANTS SelectedIsUp
CHECK_DEADLOCK FALSE
