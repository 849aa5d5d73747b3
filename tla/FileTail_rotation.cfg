SPECIFICATION TailSpec
CONSTANTS
    Paths = {a, b}
    Inodes = {i1, i2}
    Nil = Nil
    IsGlob = TRUE
    FingerprintBytes = 2
    Budget = 1
    MaxOpen = 1
    MaxBytes = 2
    MaxEvents = 2
SYMMETRY Symmetry
CONSTRAINT StraysEarly
INVARIANTS OffsetCovered LossOnlyAtClose ShutdownFlushes
CHECK_DEADLOCK FALSE
