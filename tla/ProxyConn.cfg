SPECIFICATION FairSpec
CONSTANTS
    Conns = {c1}
    Kinds = {"socks", "http", "l3"}
    MaxData = 2
    AcceptMayFail = TRUE
INVARIANTS
    StreamInOrder
    LogIsTrue
    ReturnWaits
PROPERTIES
    HandshakeEnds
    EndReachesServer
    EndReachesClient
CHECK_DEADLOCK FALSE
