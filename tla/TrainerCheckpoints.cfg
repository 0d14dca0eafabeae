SPECIFICATION Spec
CONSTANTS
    PerEpoch = 2
    Epochs = 2
    Configs <- MCConfigs
    Modes = {"latest", "from_path", "none"}
    MaxStarts = 3
    Missing = Missing
    Torn = Torn
CHECK_DEADLOCK FALSE
INVARIANTS
    LatestComplete
    RefusedOnlyTorn
    Consecutive
    RefreshedByEpoch
PROPERTIES
    Completes
