SPECIFICATION RouteSpec
CONSTANTS
    Modes = {"include"}
    Origins = {"lan"}
    OutputEnable = {TRUE}
    MaxHops = 3
INVARIANTS NoLoop
CHECK_DEADLOCK FALSE
