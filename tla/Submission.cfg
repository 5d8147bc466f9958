SPECIFICATION FairSpec
CONSTANTS
    Proc = {p1, p2}
    NoProc = NoProc
    MaxFile = 3
    Msg = {1, 2, 3}
    Mail <- MCMail
    Drop <- MCDrop
    MaxRcpt = 2
    Setups <- MCSetups
INVARIANTS TypeOK NoMailLost QueueIsClean PolicyRespected WellFormedStream
PROPERTIES EveryoneServed
CHECK_DEADLOCK FALSE
