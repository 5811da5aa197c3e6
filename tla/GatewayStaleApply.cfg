SPECIFICATION Spec
CONSTANTS
    Updaters = {}
    Restarters = {r1}
    Applier = applier
    Hup = hup
    Main = main
    None = none
    NftFaults = {"add"}
    MaxFaults = 1
    MaxEdits = 0
    MaxMoves = 0
    MaxReloads = 1
    MaxRestarts = 1
    MaxStops = 0
    MaxEvents = 9
INVARIANTS StaleApplyHarmless
CHECK_DEADLOCK FALSE
