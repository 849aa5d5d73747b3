SPECIFICATION FairSpec
CONSTANTS
    Sources = {a}
    Shared = TRUE
    Short = {}
    MaxLength = 4
    Inputs <- MCInputs
    InputOf <- MCInputOf
    Length <- MCLength
    Checkpoints <- MCCheckpoints
    None = None
    MaxBatches = 4
    IoQueueCapacity = 1
    ChannelCapacity = 1
    PoolCapacity = 1
    StageResults = {"Forward", "ZeroRow"}
    CpuErrors = TRUE
    LastPipeline = FALSE
    MaxCrashes = 0
PROPERTY
    ShutdownCompletes
CHECK_DEADLOCK FALSE
