SPECIFICATION Spec
CONSTANTS
    HostLength = 3
    LongestHostname = 3
    LongestLabel = 2
    Frame = 2
    AllowLists <- MCAllowLists
    Settings <- MCSettings
    Url <- MCUrl
    Origin <- MCOrigin
    Literal <- MCLiteral
INVARIANTS
    OnlyListedOrigins
    DigitsAreAddresses
    RefusedUnread
    SeamsAgree
