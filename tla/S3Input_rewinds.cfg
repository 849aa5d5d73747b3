SPECIFICATION Spec
CONSTANTS
    Keys = {1, 2, 3}
    Modes = {"list"}
    Messages = {}
    Receipts = {}
    None = None
    PageSize = 1
    WorkBound = 3
    MaxObjects = 3
    OutBound = 1
    Chunks = 1
    MaxFetchAttempts = 2
    MaxKeyFailures = 2
    KeysInOrder = TRUE
    MaxFaults = 0
PROPERTY CursorAdvances
CHECK_DEADLOCK FALSE
