SPECIFICATION Spec
CONSTANTS
    Children = 3
    FileSinks = {2}
    BulkSinks = {3}
    MaxRows = 3
    MaxBulk = 2
    Large = {}
    MaxSplitDepth = 2
    MaxBatch = 3
    NumBuffers = 2
    MaxFaults = 3
    None = None
INVARIANT DeliveredIsWritten
CHECK_DEADLOCK FALSE
