SPECIFICATION FairSpec
CONSTANTS
    Callers = {c1, c2}
    Loop = loop
    NetRules = {}
    DomainRules = {h1}
    Addresses = {a1, a2}
    StaticSets = {{"10/8"}, {"10/8", "192.168/16"}}
    None = none
    DnsMayFail = TRUE
    DiskMayFail = TRUE
    MaxEdits = 2
    MaxDns = 1
    MaxCrashes = 1
INVARIANTS
    DiskIsMemory
PROPERTIES
    ResolvedFollowsRules
    EngineFollowsRules
