SPECIFICATION Spec
CONSTANTS
    Formats = {"Cri"}
    Streams = {stdout}
    None = None
    MaxRemainder = 2
    MaxRead = 2
    MaxLength = 5
    MaxTruncations = 0
    MaxRestarts = 1
INVARIANT
    RestartSkipsNothing
CHECK_DEADLOCK FALSE
