SPECIFICATION Spec
CONSTANTS
    Conns = {c1}
    Kinds = {"socks"}
    MaxData = 0
    AcceptMayFail = TRUE
INVARIANTS ServesUntilClosed
CHECK_DEADLOCK FALSE
