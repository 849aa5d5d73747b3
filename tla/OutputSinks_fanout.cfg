SPECIFICATION FairSpec
CONSTANTS
    Children = 3
    FileSinks = {2}
    BulkSinks = {3}
    MaxRows = 3
    MaxBulk = 2
    Large = {3}
    MaxSplitDepth = 2
    MaxBatch = 2
    NumBuffers = 2
    MaxFaults = 2
    None = None
INVARIANTS AcceptedOnce OutcomeSpeaksForAll RowsAccountedFor
PROPERTY BatchSettles
CHECK_DEADLOCK FALSE
