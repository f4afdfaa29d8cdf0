SPECIFICATION ServicesSpec
CONSTANTS
    Task = {1, 2, 3}
    Runner = {1, 2, 3}
    NoRunner = 0
    NoTask = 0
    MaxRetry = 2
    MaxRecovery = 2
    Beat = {1, 2}
    CostCap = 2
    TurnCost = 1
    Queries = 2
    MaxAsked = 1
    Msg = {1, 2}
    Round = {1, 2}
    MaxTries = 2
    Batch = 1
    Restarts = 1
    Req = {1, 2, 3}
    NoReq = 0
    MaxConfirms = 2
    Item = {"i1"}
    Draft = {"d1"}
    LastDay = 2
    PublishTries = 2
    ItemLimit = 1
    DraftLimit = 1
    MaxLost = 1
    Ip = {"near", "far"}
    Local = {"near"}
    MaxFailures = 2
    RateLimit = 2
    Browser = {1, 2}
    Question = {1}
    Port = 3000
    Proc = {1, 2}
    NoProc = 0
    Key = {10}
    Token = 11
    Attempt = {1, 2}
    CogneeCall = {1}
    Message = {1, 2, 3}
    KeepMessages = 2
    KeepDocs = 2
    Letter = {1}
    MaxLen = 3
    PrefixLen = 2
    MaxEntries = 2
    Name = {1, 2}
    Kind = {"unknown", "person"}
    Relation = {1}
    MaxAnswers = 3
    Caller = {"a1"}
    HistoryLimit = 3
    Budget = 3
    MaxRounds = 1
    MaxHistory = 4
    Entity = {"e1", "e2"}
    None = "none"
    Briefed = {"e2"}
    FromUser = {}
    Replies <- Sayings
    Tools = {"create", "read", "claude_code_dispatch", "delegate_to"}
    Arguments <- Args
    Answers <- SomeAnswers
    MaxRows = 3
    MaxAttempts = 2
    Spoken <- Commands
    Verbs <- VerbSpecs
    Path <- Paths
    Links = {"/l"}
    DenyGlobs <- Globs
    AllowPrefix <- Readable
    OutputCap = 1
    Process = {"agent"}
    Try = {1, 2}
    Nobody = "nobody"
    Client = {1, 2}
    RpcId = {1, 2}
    NoClient = 0
    MaxCalls = 2
    Files <- ShortFiles
    MessageWord = {"crm", "contact", "pay", "flow"}
    Keywords <- SkillWords
    Weak <- WeakWords
    Required <- NeededWords
    Rank <- Alphabet
    HardCap = 2
    Stale = 1
    FirstReminder = 1
    ThenEvery = 2
    DayHours = 2
    Soft = 2
    Hard = 1
    MaxSpend = 1
INVARIANTS ServicesTypeOK OneRecovery OwnerHolds RecordsAreTrue LinksAreRetried NoStrayTunnel
    RunningIsFindable RequestsAreValid RunsWhatWasMeant ResultsAreTrue SkillsLoadRight
    OwnerHears
PROPERTIES OnlyOldCopiesForget ShownIsBacked OutageEnds ApprovedRowsGoOut CallsComeBack ServicesRecover
CHECK_DEADLOCK FALSE
