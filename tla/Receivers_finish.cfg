SPECIFICATION FairSpec
CONSTANTS
    Requests = {r1, r2}
    None = None
    NumWorkers = 1
    MaxOutstanding = 2
    MaxPanics = 1
    Kinds = {"otlp", "arrow_ipc", "http"}
    Capacity = 2
    MaxParts = 2
    MaxConnections = 2
INVARIANTS AnswerTellsOutcome CountersExact NoHandlerStranded
PROPERTIES HandlersFinish
CHECK_DEADLOCK FALSE
