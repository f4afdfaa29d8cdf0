SPECIFICATION Spec
CONSTANTS
    m1 = m1
    m2 = m2
    Kelly = 250
    PriceFloor = 10
    HardCeiling = 2500
    Slip <- SlipCents
    Scans <- OneScan
    Job <- OneJob
    Markets = {m1}
    Listings <- SomeListings
    Ladders <- SomeLadders
    Ceilings <- SomeCeilings
    HighEdge = 7
    MaxChanges = 0
INVARIANT UnknownIsNotFailed
CHECK_DEADLOCK FALSE
