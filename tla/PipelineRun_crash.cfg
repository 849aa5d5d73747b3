SPECIFICATION Spec
CONSTANTS
    Sources = {a, b}
    Shared = TRUE
    Short = {b}
    MaxLength = 2
    Inputs <- MCInputs
    InputOf <- MCInputOf
    Length <- MCLength
    Checkpoints <- MCCheckpoints
    None = None
    MaxBatches = 3
    IoQueueCapacity = 1
    ChannelCapacity = 1
    PoolCapacity = 2
    StageResults = {"Forward", "ZeroRow", "PermanentError", "Reject", "Hold", "Fatal"}
    CpuErrors = TRUE
    LastPipeline = TRUE
    MaxCrashes = 1
INVARIANTS
    DurableCovered
    TicketsAccountedFor
    CleanStopCoversReads
PROPERTY
    DurableNeverRegresses
CHECK_DEADLOCK FALSE
