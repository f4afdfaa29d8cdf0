SPECIFICATION FairSpec
CONSTANTS
    p1 = p1
    cron = cron
    ondemand = ondemand
    c1 = c1
    c2 = c2
    Positions <- OnePosition
    Sweepers <- BothSweeps
    Cron = cron
    Closers <- TwoClosers
    AlertTypes <- TakeProfit
    Holds = TRUE
    Faults = TRUE
INVARIANTS BookSafe ClosesAtFinalPrice
PROPERTIES BookLive
CHECK_DEADLOCK FALSE
