SPECIFICATION FairSpec
CONSTANTS
    Clients = {c1, c2}
    NoClient = NoClient
    S = 1
    MaxMounts = 2
    MaxCrashes = 1
INVARIANT TypeOK
INVARIANT SessionsReachServer
INVARIANT RequestsKept
INVARIANT MountedHasSession
INVARIANT SessionsOwned
PROPERTY MountReturns
CHECK_DEADLOCK FALSE
