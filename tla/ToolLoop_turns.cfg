SPECIFICATION FairSpec
CONSTANTS
    Turns <- ThreeTurns
    Agents <- TwoAgents
    Agent <- AgentOf
    Tools <- AllTools
    Scope <- ScopeOf
    Asking <- Writes
    Inline <- Flows
    Publishing <- Posts
    Limit = 1
    MaxTries = 2
    MaxCalls = 1
    MaxAsks = 2
INVARIANTS LoopSafe QuotaHeld
PROPERTY EveryTurnEnds
CHECK_DEADLOCK FALSE
