\* Three children of a parent that expects two, one of another, a retried result
SPECIFICATION FairSpec
CONSTANTS
    p1 = p1
    p2 = p2
    c1 = c1
    c2 = c2
    c3 = c3
    c4 = c4
    k1 = k1
    k2 = k2
    k3 = k3
    k4 = k4
    k5 = k5
    NoGroup = NoGroup
    Parents = {p1, p2}
    Children = {c1, c2, c3, c4}
    Calls = {k1, k2, k3, k4, k5}
    ParentOf <- MCParentOf
    RoundsOf <- MCRoundsOf
    ChildOf <- MCChildOf
INVARIANTS
    TypeOK
    AggregationIsAlone
    ResultsInjectedOnce
    InjectionsAreWhole
    RegisteredChildrenAreKept
PROPERTIES
    ReadyBarriersFinish
