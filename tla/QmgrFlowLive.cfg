SPECIFICATION FairSpec
CONSTANTS
    smtp = smtp
    retry = retry
    Entry = {e1, e2}
    Site = {s1}
    Transport <- MCTransport
    Retry = retry
    XportOf <- MCXportOf
    DestConcurrencyLimit <- MCLimit
    InitDestConcurrency <- MCInit
    RateDelay <- MCNever
    XportRateDelay <- MCNever
    FailCohortLimit <- MCCohorts
    PosFeedback <- MCPosFeedback
    NegFeedback <- MCNegFeedback
    Scale = 6
    QueueCountLimit = 2
    MaxPrefix = 1
    MaxPend = 2
    Unavailable = Unavailable
    NoDsn = NoDsn
PROPERTIES
    TransportNotStuck
CHECK_DEADLOCK FALSE
