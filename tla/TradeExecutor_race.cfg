SPECIFICATION Spec
CONSTANTS
    e1 = e1
    e2 = e2
    e3 = e3
    Runs <- TwoRuns
    Cap = 1
INVARIANT CapHolds
CHECK_DEADLOCK FALSE
