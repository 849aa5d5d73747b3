SPECIFICATION FairSpec
CONSTANTS
    Sources = {a}
    Shared = TRUE
    Short = {}
    MaxLength = 2
    Inputs <- MCInputs
    InputOf <- MCInputOf
    Length <- MCLength
    Checkpoints <- MCCheckpoints
    None = None
    MaxBatches = 2
    IoQueueCapacity = 1
    ChannelCapacity = 1
    PoolCapacity = 1
    StageResults = {"Forward"}
    CpuErrors = FALSE
    LastPipeline = FALSE
    MaxCrashes = 0
PROPERTY
    ShutdownAlwaysCompletes
CHECK_DEADLOCK FALSE
