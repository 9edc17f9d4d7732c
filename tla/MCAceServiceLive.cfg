\* A cycle of each of two tenants and an injection into the first, under fair
\* scheduling.
SPECIFICATION FairSpec
CONSTANTS
    c1 = c1
    c2 = c2
    c3 = c3
    t1 = t1
    t2 = t2
    i1 = i1
    i2 = i2
    Tenants = {t1, t2}
    Cycles = {c1, c3}
    TenantOf <- MCTenantOf
    LaneOf <- MCLaneOf
    AllowParallel = TRUE
    MaxPending = 2
    RoundLimit = 3
    QueueThreshold = 4
    Injections = {i1, i2}
    TargetOf <- OneIntoEach
    DbTenant = t1
    MergeMayFail = TRUE
    ForwardMayFail = FALSE
    MaxCrashes = 1
    Nobody = Nobody
    NoCycle = NoCycle
    NoSnapshot = NoSnapshot
INVARIANTS
    TypeOK
PROPERTIES
    MutexIsReleased
    QueuedCyclesAreDriven
