SPECIFICATION Spec
CONSTANTS
    Configs = {a, b, o, x}
    Broken = {x}
    Other = {o}
    Pushed = {a, b, o, x}
    None = None
    Disk = Disk
    MaxRebuildAttempts = 3
    OpampModes = {TRUE}
    SupervisedModes = {TRUE}
PROPERTIES ReportedWasApplied
CHECK_DEADLOCK FALSE
