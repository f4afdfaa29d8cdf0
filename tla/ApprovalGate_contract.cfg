SPECIFICATION FairSpec
CONSTANTS
    r1 = r1
    r2 = r2
    Ids <- TwoIds
    Senders <- Owner
    Window = 2
    MaxRetained = 2
    MaxTaps = 1
    MaxSteps = 1
    Restarts = TRUE
INVARIANTS ChatAgrees FullWindow
PROPERTIES KeepsContract GateEnds
CHECK_DEADLOCK FALSE
