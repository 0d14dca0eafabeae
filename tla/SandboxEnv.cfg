SPECIFICATION Spec
CONSTANTS
    CloneTries = 3
    ResetTries = 6
    PatchTries = 2
    MaxUses = 3
    MaxHardResets = 2
CHECK_DEADLOCK FALSE
INVARIANTS
    ReadyWhole
    NothingLeft
PROPERTIES
    Finishes
