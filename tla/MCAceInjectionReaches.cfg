\* One cycle and one injection, no failure, fair scheduling
SPECIFICATION FairSpec
CONSTANTS
    c1 = c1
    c2 = c2
    c3 = c3
    t1 = t1
    t2 = t2
    i1 = i1
    i2 = i2
    Tenants = {t1}
    Cycles = {c1}
    TenantOf <- MCTenantOf
    LaneOf <- MCLaneOf
    AllowParallel = TRUE
    MaxPending = 2
    RoundLimit = 3
    QueueThreshold = 4
    Injections = {i1}
    TargetOf <- AllIntoFirst
    DbTenant = t1
    MergeMayFail = FALSE
    ForwardMayFail = FALSE
    MaxCrashes = 0
    Nobody = Nobody
    NoCycle = NoCycle
    NoSnapshot = NoSnapshot
PROPERTY
    AcknowledgedInjectionsAreAbsorbed
