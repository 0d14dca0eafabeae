SPECIFICATION FairSpec
CONSTANTS
    N = 2
    MaxWorkers = 2
    MaxRetries = 2
    MaxRuns = 2
    MaxInterrupts = 1
CHECK_DEADLOCK FALSE
INVARIANTS
    PredFits
    MergedAll
PROPERTIES
    CompletedKept
    RunsEnd
