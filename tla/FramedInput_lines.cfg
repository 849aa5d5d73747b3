SPECIFICATION Spec
CONSTANTS
    Formats = {"Passthrough", "Cri", "Auto"}
    Streams = {stdout}
    None = None
    MaxRemainder = 2
    MaxRead = 2
    MaxLength = 5
    MaxTruncations = 1
    MaxRestarts = 1
INVARIANTS
    CheckpointAtBoundary
    NoGarbledFragment
    BytesAccountedFor
CHECK_DEADLOCK FALSE
