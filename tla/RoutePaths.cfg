SPECIFICATION RouteSpec
CONSTANTS
    Modes = {"exclude", "include"}
    Origins = {"lan", "local", "socks"}
    OutputEnable = {TRUE, FALSE}
    MaxHops = 3
INVARIANTS
    LanFollowsPolicy
    SocksFollowsRules
    EntersOnce
CHECK_DEADLOCK FALSE
