SPECIFICATION Spec
CONSTANTS
    Turns <- TwoTurns
    Agents <- TwoAgents
    Agent <- AgentOfTwo
    Tools <- AllTools
    Scope <- ScopeOfTwo
    Asking <- Writes
    Inline <- Flows
    Publishing <- Posts
    Limit = 1
    MaxTries = 1
    MaxCalls = 1
    MaxAsks = 1
INVARIANT InOwnScope
CHECK_DEADLOCK FALSE
