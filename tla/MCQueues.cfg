CONSTANTS
    t1 = t1
    t2 = t2
    urgent = urgent
    first = first
    second = second
    minor = minor
    onBudget = onBudget
    onRoute = onRoute
    onTime = onTime
    onCycle = onCycle
    onAny = onAny
    c1 = c1
    c2 = c2
    None = None
    Injections = {urgent, first, second, minor}
    Tenants = {t1, t2}
    Callers = {1}
    TenantOf <- MCTenantOf
    PriorityOf <- MCPriorityOf
    RoleRankOf <- MCRoleRankOf
    SubmittedAt <- MCSubmitted
    MaxClarify <- MCMaxClarify
    MaxAborts = 1
    Deferrals = {onBudget, onRoute, onTime, onCycle, onAny}
    TriggerOf <- MCTriggerOf
    ExpiresAt <- MCExpiresAt
    Cycles = {c1, c2}
    Usages = {70, 80}
    MaxTime = 1
    Keys <- MCKeys
    MaxEntries = 3
    TtlSeconds = 2
    EnableLru = TRUE
    MaxClock = 5
SPECIFICATION Spec
INVARIANTS
    InjectionsAreConserved
    MarkedTenantsHaveACycle
    DeferralsEndOnce
    LruMatchesCache
    
PROPERTIES
    EvictsTheStalest
CHECK_DEADLOCK FALSE
