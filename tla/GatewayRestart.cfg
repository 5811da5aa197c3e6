SPECIFICATION FairSpec
CONSTANTS
    Updaters = {u1}
    Restarters = {r1}
    Applier = applier
    Hup = hup
    Main = main
    None = none
    NftFaults = {}
    MaxFaults = 0
    MaxEdits = 0
    MaxMoves = 2
    MaxReloads = 0
    MaxRestarts = 1
    MaxStops = 0
    MaxEvents = 9
PROPERTIES ServerExempt
CHECK_DEADLOCK FALSE
