SPECIFICATION FairSpec
CONSTANTS
    Callers = {c1}
    Loop = loop
    NetRules = {n1}
    DomainRules = {}
    Addresses = {a1, a2}
    StaticSets = {{"10/8"}}
    None = none
    DnsMayFail = FALSE
    DiskMayFail = FALSE
    MaxEdits = 1
    MaxDns = 0
    MaxCrashes = 0
PROPERTIES
    EngineFollowsRules
