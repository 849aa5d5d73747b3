SPECIFICATION Spec
CONSTANTS
    Requests = {r1, r2, r3}
    None = None
    NumWorkers = 2
    MaxOutstanding = 2
    MaxPanics = 1
    Kinds = {"otlp", "arrow_ipc", "http"}
    Capacity = 2
    MaxParts = 2
    MaxConnections = 2
INVARIANTS AnswerTellsOutcome CountersExact NoHandlerStranded
CHECK_DEADLOCK FALSE
