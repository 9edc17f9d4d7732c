CONSTANTS
    cycleA = cycleA
    cycleB = cycleB
    m1 = m1
    m2 = m2
    m3 = m3
    posted = posted
    ClientEvents = {posted}
    Idle = Idle
    Nothing = Nothing
    Cycles = {cycleA}
    DriveShapes <- MCShapes
    MaxDrives = 2
    MaxCrashes = 1
    MaxFailures = 1
    SavedCycles = {cycleA, cycleB}
    Messages = {m1, m2, m3}
    CycleOf <- MCCycleOf
    OldMessages = {m3}
    AskedLimit = 2
    Times = {0, 1}
    MaxSaves = 2
    MaxDbFailures = 1
    MaxRestarts = 1
SPECIFICATION Spec
INVARIANTS
    FinalizedRowIsLast
    FinalCyclesWereForwarded
    MessagesHaveACheckpoint
    StoredMessagesAreListed
CHECK_DEADLOCK FALSE
