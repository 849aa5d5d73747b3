SPECIFICATION FairSpec
CONSTANTS
    Items = {i1, i2, i3}
    None = None
    MaxWorkers = 2
    MaxSpawns = 3
INVARIANTS
    ItemsConserved
    SinksBounded
PROPERTIES
    DrainCompletes
    SubmitReturns
CHECK_DEADLOCK FALSE
