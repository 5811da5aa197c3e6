SPECIFICATION Spec
CONSTANTS
    Updaters = {u1}
    Restarters = {}
    Applier = applier
    Hup = hup
    Main = main
    None = none
    NftFaults = {}
    MaxFaults = 0
    MaxEdits = 1
    MaxMoves = 0
    MaxReloads = 0
    MaxRestarts = 0
    MaxStops = 1
    MaxEvents = 9
INVARIANTS TornDown
CHECK_DEADLOCK FALSE
