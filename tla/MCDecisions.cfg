CONSTANTS
    pressing = pressing
    normal = normal
    late = late
    v1 = v1
    v2 = v2
    v3 = v3
    s1 = s1
    s2 = s2
    MaxTimestamp = 3
    MaxShard = 3
    MaxSequence = 1
    Shards = {0, 2, 5}
    ClockValues <- MCClockValues
    MaxIds = 3
    Entities = {v1, v2, v3}
    MaxVersions = 4
    Items = {pressing, normal, late}
    PriorityOf <- MCPriorityOf
    MaxAc = 3
    MaxCost = 3
    MaxIdle = 2
    CheckerIdle = 2
    MaxDepth = 3
    Costs = {0, 2}
    MaxRecords = 3
    Callers = {1, 2}
    Inputs <- MCInputs
    Cooldown = 0
    Bonus = 10
    Penalty = 20
    MaxClock = 1
    MaxRoutes = 3
    Contexts <- MCContexts
    MemorySessions = {s1, s2}
    NoSession = NoSession
    Thresholds = {0, 50}
    Ages = {0, 1}
    Turns = {0, 2}
    Factors <- MCFactors
    MaxPrints = 2
    MaxSeconds = 2
    RunInputs <- MCRunInputs
    MaxTokens = 1000
    MaxCompacts = 1
    Docs = {v1, v2, v3}
    DocTerms <- MCDocTerms
    DepthBounds = {0, 2, 3}
    MaxIndexOps = 5
    Asks <- MCAsks
    Others <- MCOthers
    AllowedTenants = {1}
    LiveCap = 40
    GraphEvents <- MCGraphEvents
    LegacyEvents <- MCLegacyEvents
    V2Events <- MCV2Events
    NotedEvents <- MCNotedEvents
    Snapshots <- MCSnapshots
    MaxConversions = 6
    MaxNotes = 2
SPECIFICATION Spec
INVARIANTS
    IdsGrow
    
    AnswersAreLawful
    ContentIsKept
CHECK_DEADLOCK FALSE
