\* Two requests, one slot, two attempts, answers of up to two rows.
CONSTANTS
    r1 = r1
    r2 = r2
    p1 = p1
    p2 = p2
    d1 = d1
    Task <- MCTask
    Ip <- MCIp
    Permitted <- MCPermitted
    Slots = 1
    MaxAttempts = 2
    MaxRows = 2
SPECIFICATION FairSpec
INVARIANTS
    TypeOK
    LookupsBounded
    NoStreamLeak
PROPERTIES
    StallIsContained
    SlotsComeBack
    EveryRequestKeepsThePin
