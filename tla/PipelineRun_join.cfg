SPECIFICATION Spec
CONSTANTS
    Sources = {a}
    Shared = TRUE
    Short = {}
    MaxLength = 3
    Inputs <- MCInputs
    InputOf <- MCInputOf
    Length <- MCLength
    Checkpoints <- MCCheckpoints
    None = None
    MaxBatches = 3
    IoQueueCapacity = 1
    ChannelCapacity = 1
    PoolCapacity = 2
    StageResults = {"Forward", "ZeroRow", "PermanentError", "Reject", "Hold", "Fatal"}
    CpuErrors = TRUE
    LastPipeline = FALSE
    MaxCrashes = 0
INVARIANTS
    JoinCannotBlock
CHECK_DEADLOCK FALSE
