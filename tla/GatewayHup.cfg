SPECIFICATION FairSpec
CONSTANTS
    Updaters = {}
    Restarters = {}
    Applier = applier
    Hup = hup
    Main = main
    None = none
    NftFaults = {}
    MaxFaults = 0
    MaxEdits = 1
    MaxMoves = 0
    MaxReloads = 1
    MaxRestarts = 0
    MaxStops = 0
    MaxEvents = 9
PROPERTIES TableFollows
CHECK_DEADLOCK FALSE
