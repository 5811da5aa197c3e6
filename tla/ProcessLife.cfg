SPECIFICATION FairSpec
CONSTANTS
    d1 = d1
    d2 = d2
    s1 = s1
    NListen = 2
    Datagrams = {d1, d2}
    Streams = {s1}
    Sizes <- MCSizes
    MaxEvents = 2
    None = none
    BindFaults = {"unassigned", "other"}
    MayFailInit = TRUE
    Services = {"health", "socks", "doh"}
INVARIANTS OwnAnswer ServedOnBoth
PROPERTIES QueriesEnd ProcessExits CleanStop
CHECK_DEADLOCK FALSE
