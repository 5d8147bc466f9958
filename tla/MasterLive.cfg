SPECIFICATION FairSpec
CONSTANTS
    s1 = s1
    s2 = s2
    Service = {s1}
    Stress = {}
    Wakeup = {}
    Pid = {p1, p2}
    Client = {c1}
    Trigger = Trigger
    NoService = NoService
    Limits <- MCLimit
    MaxUse = 2
    Backlog = 1
    PipeSize = 2
    Budget = 1
CHECK_DEADLOCK FALSE
PROPERTY ClientServed
