SPECIFICATION Spec
CONSTANTS
    Prompts = {p1, p2}
    Batches = 3
    MaxTries = 2
    Fragile = {p1}
    SlotChoices = {1, 3}
CHECK_DEADLOCK FALSE
INVARIANTS
    FreshWeights
    SameAttempt
    NoneLeftOpen
PROPERTIES
    Ends
