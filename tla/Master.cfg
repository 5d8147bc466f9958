SPECIFICATION Spec
CONSTANTS
    s1 = s1
    s2 = s2
    Service = {s1, s2}
    Stress = {s1}
    Wakeup = {s2}
    Pid = {p1, p2}
    Client = {c1}
    Trigger = Trigger
    NoService = NoService
    Limits <- MCLimits
    MaxUse = 2
    Backlog = 1
    PipeSize = 1
    Budget = 1
SYMMETRY Symmetry
CHECK_DEADLOCK FALSE
INVARIANTS TypeOK TableIsExact BeliefIsTrue SomebodyListens
PROPERTY WithinLimit
