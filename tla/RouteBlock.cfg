SPECIFICATION RouteSpec
CONSTANTS
    Modes = {"exclude"}
    Origins = {"local"}
    OutputEnable = {TRUE}
    MaxHops = 3
INVARIANTS BlockedDropped
CHECK_DEADLOCK FALSE
