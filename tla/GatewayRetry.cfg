SPECIFICATION FairSpec
CONSTANTS
    Updaters = {u1}
    Restarters = {}
    Applier = applier
    Hup = hup
    Main = main
    None = none
    NftFaults = {"patch", "add"}
    MaxFaults = 1
    MaxEdits = 2
    MaxMoves = 0
    MaxReloads = 0
    MaxRestarts = 0
    MaxStops = 0
    MaxEvents = 9
PROPERTIES ActiveAgain
CHECK_DEADLOCK FALSE
