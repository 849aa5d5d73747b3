SPECIFICATION Spec
CONSTANTS
    Sources = {a}
    Shared = TRUE
    Short = {}
    MaxLength = 2
    Inputs <- MCInputs
    InputOf <- MCInputOf
    Length <- MCLength
    Checkpoints <- MCCheckpoints
    None = None
    MaxBatches = 2
    IoQueueCapacity = 1
    ChannelCapacity = 1
    PoolCapacity = 2
    StageResults = {"Forward"}
    CpuErrors = FALSE
    LastPipeline = TRUE
    MaxCrashes = 0
INVARIANTS
    ReloadFlushesReads
CHECK_DEADLOCK FALSE
