\* Two servers, two attempts each, a timeout of three attempt timeouts less one.
CONSTANTS
    aaaa = aaaa
    a = a
    Families <- MCFamilies
    Servers = 2
    Attempts = 2
    Timeout = 5
    AttemptTimeout = 2
    Txid = {1, 2}
    Guess = 0
    MaxChunks = 3
SPECIFICATION FairSpec
INVARIANT RaisesOnlyGaierror
