SPECIFICATION FairSpec
CONSTANTS
    t1 = t1
    t2 = t2
    Tasks <- TwoTasks
    DailyCap = 1
    Budget = 1
    MaxFaults = 2
INVARIANTS DispatchSafe CompletionIsReal SpendBounded
PROPERTIES EveryDispatchEnds
CHECK_DEADLOCK FALSE
