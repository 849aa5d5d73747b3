SPECIFICATION FairSpec
CONSTANTS
    Configs = {a, b, x}
    Broken = {x}
    Other = {}
    Pushed = {b}
    None = None
    Disk = Disk
    MaxRebuildAttempts = 3
    OpampModes = {TRUE, FALSE}
    SupervisedModes = {TRUE, FALSE}
INVARIANTS RunsItsConfig LoopIsSound TriggerRereads
PROPERTIES ReloadSettles ChildComesBack TermStops
CHECK_DEADLOCK FALSE
