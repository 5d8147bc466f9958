SPECIFICATION Spec
CONSTANTS
    N = 3
    Agent = {a1, a2}
    Daemon = {d1, d2}
    FaultSets <- MCFaults
SYMMETRY Symmetry
CHECK_DEADLOCK FALSE
INVARIANTS TypeOK NoMailLost NotForgotten NoParallelDelivery NoFalseAlarm
PROPERTY KeepsPromise
