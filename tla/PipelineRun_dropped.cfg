SPECIFICATION Spec
CONSTANTS
    Sources = {a}
    Shared = TRUE
    Short = {}
    MaxLength = 2
    Inputs <- MCInputs
    InputOf <- MCInputOf
    Length <- MCLength
    Checkpoints <- MCCheckpoints
    None = None
    MaxBatches = 2
    IoQueueCapacity = 1
    ChannelCapacity = 1
    PoolCapacity = 2
    StageResults = {"Forward"}
    CpuErrors = TRUE
    LastPipeline = FALSE
    MaxCrashes = 0
INVARIANTS
    DroppedIsReread
CHECK_DEADLOCK FALSE
