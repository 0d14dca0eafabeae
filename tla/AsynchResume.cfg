SPECIFICATION Spec
CONSTANTS
    PerEpoch = 3
    Epochs = 1
    Configs <- MCConfigs
    Modes = {"latest", "from_path", "none"}
    MaxStarts = 2
    Missing = Missing
    Torn = Torn
CHECK_DEADLOCK FALSE
INVARIANTS
    ResumesExactly
