SPECIFICATION FairSpec
CONSTANTS
    e1 = e1
    e2 = e2
    e3 = e3
    Runs <- ThreeRuns
    Cap = 2
INVARIANTS ExecutorSafe RowsWithinCap
PROPERTY EveryRunEnds
CHECK_DEADLOCK FALSE
