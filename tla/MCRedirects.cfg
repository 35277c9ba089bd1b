CONSTANTS
    Url <- MCUrl
    Header <- MCHeader
    Policy <- MCPolicy
    EnvProxied <- MCEnvProxied
    MaxSent = 4
    MaxLimit = 3
SPECIFICATION Spec
INVARIANTS
    UnpinnedOnlyByConsent
    EveryHopPermitted
    ChainWithinPolicy
    CredentialsStayHome
