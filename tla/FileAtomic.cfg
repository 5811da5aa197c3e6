SPECIFICATION Spec
CONSTANTS
    Keys = {k1, k2}
    Poison = poison
    NoValue = novalue
    Env = env
    Unread = unread
    Off = off
    Empty = empty
    Torn = torn
    None = none
    Writers = {w1, w2}
    Inodes = {i1, i2, i3}
    Overlap = FALSE
    PowerLossOn = TRUE
SYMMETRY Symmetry
INVARIANTS
    CrashSafe
PROPERTIES
    IsAtomic
