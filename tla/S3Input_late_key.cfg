SPECIFICATION Spec
CONSTANTS
    Keys = {1, 2}
    Modes = {"list", "sqs"}
    Messages = {{}, {1}, {1, 2}}
    Receipts = {r1, r2}
    None = None
    PageSize = 1
    WorkBound = 1
    MaxObjects = 1
    OutBound = 1
    Chunks = 1
    MaxFetchAttempts = 2
    MaxKeyFailures = 2
    KeysInOrder = FALSE
    MaxFaults = 4
INVARIANTS CursorCovers
CHECK_DEADLOCK FALSE
