SPECIFICATION Spec
CONSTANTS
    SessionCount = 3
    MaxDraws = 2
    MaxEndpoints = 1
INVARIANT StopCompletesAllPending
CHECK_DEADLOCK FALSE
