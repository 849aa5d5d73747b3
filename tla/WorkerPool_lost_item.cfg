SPECIFICATION Spec
CONSTANTS
    Items = {i1, i2}
    None = None
    MaxWorkers = 2
    MaxSpawns = 2
INVARIANT
    DrainAnswersAll
CHECK_DEADLOCK FALSE
