SPECIFICATION InOrderSpec
CONSTANTS
    Sources = {s1}
    Checkpoints = {c1, c2}
    None = None
    MaxBatches = 4
    MaxAttempts = 1
PROPERTY
    ImplementsOrderedCommit
CHECK_DEADLOCK FALSE
