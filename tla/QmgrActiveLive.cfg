SPECIFICATION FairSpec
CONSTANTS
    N = 2
    Agent = {a1, a2}
    Daemon = {d1, d2}
    FaultSets <- MCAllFaults
CHECK_DEADLOCK FALSE
PROPERTIES LeavesActive
