SPECIFICATION FairSpec
CONSTANTS
    MaxCalls = 3
    MaxInterrupts = 1
    Retries = 2
INVARIANTS
    InStep
    OwnUnlessWarned
    CodesInOrder
PROPERTY
    CallsEnd
CHECK_DEADLOCK FALSE
