SPECIFICATION Spec
CONSTANTS
    Requests = {r1, r2}
    None = None
    NumWorkers = 2
    MaxOutstanding = 2
    MaxPanics = 1
    Kinds = {"otlp"}
    Capacity = 2
    MaxParts = 2
    MaxConnections = 2
PROPERTY TerminalIsSticky
CHECK_DEADLOCK FALSE
