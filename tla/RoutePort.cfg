SPECIFICATION RouteSpec
CONSTANTS
    Modes = {"exclude"}
    Origins = {"lan"}
    OutputEnable = {FALSE}
    MaxHops = 3
INVARIANTS LanEveryPort
CHECK_DEADLOCK FALSE
