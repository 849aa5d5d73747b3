SPECIFICATION Spec
CONSTANTS
    Width = 4
    DedupBits = 1
    Inputs <- DocumentedInputs
    Endings <- MCEndings
    Pads = {0, 1, 2, 3}
    Configs <- MCConfigs
    NoKey <- MCNoKey
    MaxBatches = 1
INVARIANTS LinesAreIndependent SecondWriteOverwrites
CHECK_DEADLOCK FALSE
