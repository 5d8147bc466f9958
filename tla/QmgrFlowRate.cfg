SPECIFICATION Spec
CONSTANTS
    smtp = smtp
    retry = retry
    Entry = {e1, e2}
    Site = {s1, s2}
    Transport <- MCTransport
    Retry = retry
    XportOf <- MCXportOf
    DestConcurrencyLimit <- MCLimit
    InitDestConcurrency <- MCInit
    RateDelay <- MCSmtpOnly
    XportRateDelay <- MCSmtpOnly
    FailCohortLimit <- MCCohorts
    PosFeedback <- MCPosFeedback
    NegFeedback <- MCNegFeedback
    Scale = 6
    QueueCountLimit = 2
    MaxPrefix = 1
    MaxPend = 2
    Unavailable = Unavailable
    NoDsn = NoDsn
INVARIANTS
    RateLockExclusive
    ListsExact
PROPERTIES
    SuspensionHonoured
CHECK_DEADLOCK FALSE
