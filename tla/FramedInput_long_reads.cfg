SPECIFICATION Spec
CONSTANTS
    Formats = {"Passthrough"}
    Streams = {stdout}
    None = None
    MaxRemainder = 1
    MaxRead = 3
    MaxLength = 6
    MaxTruncations = 0
    MaxRestarts = 0
INVARIANT
    NoGarbledFragment
CHECK_DEADLOCK FALSE
