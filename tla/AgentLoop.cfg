SPECIFICATION Spec
CONSTANTS
    StepLimit = 4
    MaxTimeouts = 3
    MaxRequeries = 3
INVARIANTS
    CallsBounded
    SubmissionClean
    RecordedUnlessCutShort
    SavedAsEnded
PROPERTIES
    Ends
