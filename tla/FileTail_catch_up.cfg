SPECIFICATION FairSpec
CONSTANTS
    Paths = {a, b}
    Inodes = {i1, i2}
    Nil = Nil
    IsGlob = TRUE
    FingerprintBytes = 1
    Budget = 1
    MaxOpen = 1
    MaxBytes = 1
    MaxEvents = 1
INVARIANT TailTypeOK
PROPERTIES
    CatchesUp
CHECK_DEADLOCK FALSE
