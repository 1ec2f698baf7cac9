SPECIFICATION FairSpec
CONSTANTS
    Clients = {c1, c2, c3}
    NoClient = NoClient
    S = 1
    Handle = {0}
    MaxMounts = 1
    MaxCalls = 0
    FailingAccess = FALSE
PROPERTY MountReturns
CHECK_DEADLOCK FALSE
