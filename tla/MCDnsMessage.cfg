SPECIFICATION FairSpec
CONSTANTS
    Quarter = 4
    Message <- MCMessage
    Asked <- MCAsked
    QType = 1
    Cname = 5
    Internet = 1
    AddressSize = 1
    Dot = 6
    Capital = 2
    Small = 3
    MaxName = 5
    MaxJumps = 2
INVARIANTS
    NamesInPlace
    OnlyReachedRecords
PROPERTY
    DecodingEnds
