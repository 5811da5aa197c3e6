SPECIFICATION RouteSpec
CONSTANTS
    Modes = {"exclude"}
    Origins = {"socks"}
    OutputEnable = {FALSE}
    MaxHops = 3
INVARIANTS ServerNeverTunnelled
CHECK_DEADLOCK FALSE
