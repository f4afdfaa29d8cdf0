SPECIFICATION Spec
CONSTANTS
    p1 = p1
    cron = cron
    ondemand = ondemand
    c1 = c1
    c2 = c2
    Positions <- OnePosition
    Sweepers <- JustCron
    Cron = cron
    Closers <- OneCloser
    AlertTypes <- TakeProfit
    Holds = FALSE
    Faults = FALSE
PROPERTY ExitRecordFinal
CHECK_DEADLOCK FALSE
