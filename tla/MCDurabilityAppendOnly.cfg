CONSTANTS
    cycleA = cycleA
    cycleB = cycleB
    m1 = m1
    m2 = m2
    m3 = m3
    posted = posted
    ClientEvents = {posted}
    Idle = Idle
    Nothing = Nothing
    Cycles = {cycleA}
    DriveShapes <- MCOneShape
    MaxDrives = 1
    MaxCrashes = 0
    MaxFailures = 0
    SavedCycles = {cycleA, cycleB}
    Messages = {m1, m2, m3}
    CycleOf <- MCCycleOf
    OldMessages = {m3}
    AskedLimit = 2
    Times = {0, 1}
    MaxSaves = 0
    MaxDbFailures = 0
    MaxRestarts = 0
SPECIFICATION Spec
PROPERTIES
    AwarenessIsAppendOnly
CHECK_DEADLOCK FALSE
