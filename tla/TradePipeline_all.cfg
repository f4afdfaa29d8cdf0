SPECIFICATION FairSpec
CONSTANTS
    m1 = m1
    m2 = m2
    Kelly = 250
    PriceFloor = 10
    HardCeiling = 2500
    Slip <- SlipCents
    Scans <- TwoScans
    Job <- TwoJobs
    Markets = {m1}
    Listings <- SomeListings
    Ladders <- SomeLadders
    Ceilings <- SomeCeilings
    HighEdge = 7
    MaxChanges = 1
INVARIANTS PipelineSafe DebitWithinCeiling SummaryIsTrue
PROPERTIES EveryScanEnds
CHECK_DEADLOCK FALSE
