\* One child of a parent whose plan says two rounds
SPECIFICATION FairSpec
CONSTANTS
    p1 = p1
    p2 = p2
    c1 = c1
    c2 = c2
    c3 = c3
    c4 = c4
    k1 = k1
    k2 = k2
    k3 = k3
    k4 = k4
    k5 = k5
    NoGroup = NoGroup
    Parents = {p1}
    Children = {c1}
    Calls = {k1}
    ParentOf <- MCParentOf
    RoundsOf <- MCRoundsOf
    ChildOf <- MCChildOf
PROPERTIES
    CompletedChildrenAreInjected
