\* One request at a time, answers of up to three rows, two attempts, one retry.
CONSTANTS
    p1 = p1
    p2 = p2
    d1 = d1
    Ip <- MCIp
    Permitted <- MCPermitted
    Scope = {1, 2}
    Unreadable = Unreadable
    MaxAttempts = 2
    MaxRows = 3
    MaxRetries = 1
SPECIFICATION FairSpec
INVARIANTS
    TypeOK
    PinHolds
    OneDeniedRefusesAll
    NoSocketLeak
    ExhaustionIsHonest
    RefusalIsFinal
    ToldBeforeDialled
PROPERTIES
    CallEnds
    KeepsThePin
