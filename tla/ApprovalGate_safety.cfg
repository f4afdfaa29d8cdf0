SPECIFICATION Spec
CONSTANTS
    r1 = r1
    r2 = r2
    Ids <- TwoIds
    Senders <- Anyone
    Window = 2
    MaxRetained = 1
    MaxTaps = 3
    MaxSteps = 1
    Restarts = TRUE
INVARIANTS GateSafe
SYMMETRY Sym
CHECK_DEADLOCK FALSE
