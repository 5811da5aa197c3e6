SPECIFICATION RouteSpec
CONSTANTS
    Modes = {"exclude"}
    Origins = {"socks"}
    OutputEnable = {TRUE}
    MaxHops = 3
INVARIANTS SocksReliable
CHECK_DEADLOCK FALSE
