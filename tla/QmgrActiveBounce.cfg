SPECIFICATION Spec
CONSTANTS
    N = 2
    Agent = {a1, a2}
    Daemon = {d1, d2}
    FaultSets <- MCBounceFails
CHECK_DEADLOCK FALSE
INVARIANTS NoMailLost
