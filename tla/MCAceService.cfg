\* Two clarifications of one tenant, two injections into the first, every
\* failure of the merge and of the forwarder.
SPECIFICATION Spec
CONSTANTS
    c1 = c1
    c2 = c2
    c3 = c3
    t1 = t1
    t2 = t2
    i1 = i1
    i2 = i2
    Tenants = {t1}
    Cycles = {c1, c2}
    TenantOf <- MCTenantOf
    LaneOf <- MCLaneOf
    AllowParallel = TRUE
    MaxPending = 2
    RoundLimit = 3
    QueueThreshold = 4
    Injections = {i1, i2}
    TargetOf <- AllIntoFirst
    DbTenant = t1
    MergeMayFail = TRUE
    ForwardMayFail = TRUE
    MaxCrashes = 0
    Nobody = Nobody
    NoCycle = NoCycle
    NoSnapshot = NoSnapshot
SYMMETRY InjectionSymmetry
INVARIANTS
    DriveNeverBlocks
    NothingIsStranded
    RoundsAreOwed
    FinalCyclesHoldNoLane
    ReceiptsFollowTheEnd
    SnapshotsInventNothing
PROPERTIES
    ImplementsContract
