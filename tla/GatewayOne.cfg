SPECIFICATION FairSpec
CONSTANTS
    Updaters = {u1}
    Restarters = {r1}
    Applier = applier
    Hup = hup
    Main = main
    None = none
    NftFaults = {"patch", "delete", "add"}
    MaxFaults = 1
    MaxEdits = 1
    MaxMoves = 1
    MaxReloads = 1
    MaxRestarts = 1
    MaxStops = 1
    MaxEvents = 2
INVARIANTS ActiveMeansTable TableIsEngine
PROPERTIES PushNeverRevives EventuallyApplied PushesSuffice PushReturns
CHECK_DEADLOCK FALSE
