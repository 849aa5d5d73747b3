SPECIFICATION Spec
CONSTANTS
    Sources = {s1, s2}
    Checkpoints = {c1, c2}
    None = None
    MaxBatches = 3
    MaxAttempts = 1
INVARIANTS
    TypeOK
    NoStrandedAck
    InFlightUntilApplied
    CleanStopIsComplete
PROPERTY
    CommitsInOrder
CHECK_DEADLOCK FALSE
