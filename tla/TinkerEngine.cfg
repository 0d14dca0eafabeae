SPECIFICATION Spec
CONSTANTS
    MaxModels = 2
    Names = {c1}
    Kinds <- MCKinds
    Clients <- MCClients
    MaxAdapters = 3
    MaxRequests = 5
    MaxFaults = 1
    None = None
CHECK_DEADLOCK FALSE
INVARIANTS
    GradientsOnce
    StepsInOrder
    SampledAsNamed
    CheckpointsSettle
PROPERTIES
    AllAnswered
