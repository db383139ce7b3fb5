SPECIFICATION FairSpec
CONSTANTS
    MaxRuns = 1
    MaxSignals = 3
    ExecutionTimesOut = FALSE
PROPERTIES
    PauseEnds
CHECK_DEADLOCK FALSE
