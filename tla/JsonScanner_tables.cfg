SPECIFICATION Spec
CONSTANTS
    Width = 4
    DedupBits = 1
    Inputs <- MCInputs
    Endings <- MCEndings
    Pads = {0, 1, 3}
    Configs <- MCConfigs
    NoKey <- MCNoKey
    MaxBatches = 2
INVARIANTS MasksMatchBytes ScanKeepsFields
CHECK_DEADLOCK FALSE
