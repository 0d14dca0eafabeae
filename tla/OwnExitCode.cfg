SPECIFICATION SessionSpec
CONSTANTS
    MaxCalls = 3
    MaxInterrupts = 1
    Retries = 2
INVARIANT
    OwnExitCode
CHECK_DEADLOCK FALSE
