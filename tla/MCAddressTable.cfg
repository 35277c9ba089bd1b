\* The address table and the policy over it, every scaled address asked about.
CONSTANTS
    HextetBits = 1
    V4MAPPED <- MCV4MAPPED
    V4COMPAT <- MCV4COMPAT
    NAT64 <- MCNAT64
    SIXTOFOUR <- MCSIXTOFOUR
    TEREDO <- MCTEREDO
    BlockLists <- MCBlockLists
    AllowLists <- MCAllowLists
SPECIFICATION Spec
INVARIANTS
    TypeOK
    LookupIsUnambiguous
    WrapperHidesNothing
    AllowNeverSkipsDecoding
