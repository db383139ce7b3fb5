SPECIFICATION FairSpec
CONSTANTS
    MaxRuns = 2
    MaxSignals = 4
    ExecutionTimesOut = TRUE
INVARIANTS
    TypeOK
    AtMostOneResumeLost
    ReportsTruthful
PROPERTIES
    CancelStopsRun
    PauseHolds
    EndsUnlessPaused
