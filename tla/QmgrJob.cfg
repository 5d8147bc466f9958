SPECIFICATION Spec
CONSTANTS
    smtp = smtp
    retry = retry
    a = a
    b = b
    r = r
    m1 = m1
    m2 = m2
    m3 = m3
    NONE = NONE
    Message <- MCMessage
    Transport <- MCTransport
    Queue <- MCQueue
    TransportOf <- MCTransportOf
    RetryQueue = r
    QueueOrder <- MCQueueOrder
    Mail <- MCMail
    Sites = {b}
    Unreliable = {retry}
    RateDelay = {retry}
    InitConc = 1
    MaxConc = 1
    RcptLimit = 3
    MsgRcptLimit = 1
    XportRcptLimit = 2
    StackRcptLimit = 1
    RefillLimit = 2
    SlotCost = 2
    SlotLoan = 1
    SlotLoanFactor = 50
    MinSlots = 1
CHECK_DEADLOCK FALSE
INVARIANTS TypeOK NoPanic NoHiddenWork SlotsConserved ListsAgree DebtBounded
