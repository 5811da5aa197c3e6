SPECIFICATION Spec
CONSTANTS
    Callers = {c1, c2}
    Loop = loop
    NetRules = {n1}
    DomainRules = {h1}
    Addresses = {a1, a2}
    StaticSets = {{"10/8"}}
    None = none
    DnsMayFail = FALSE
    DiskMayFail = TRUE
    MaxEdits = 2
    MaxDns = 1
    MaxCrashes = 0
INVARIANTS
    MatcherIsCurrent
