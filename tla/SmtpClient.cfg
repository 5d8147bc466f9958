SPECIFICATION FairSpec
CONSTANTS
    r1 = r1
    r2 = r2
    r3 = r3
    a1 = a1
    a2 = a2
    Rcpt = {r1, r2, r3}
    NoRcpt = NoRcpt
    Addr = {a1, a2}
    NoAddr = NoAddr
    Setups <- MCSetups
INVARIANTS TypeOK ExactlyOnce RepliesMatch BounceIsAboutMe
PROPERTY Terminates
CHECK_DEADLOCK FALSE
