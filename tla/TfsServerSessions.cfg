SPECIFICATION Spec
CONSTANTS
    Clients = {c1, c2, c3}
    NoClient = NoClient
    S = 2
    Handle = {0}
    MaxMounts = 2
    MaxCalls = 0
    FailingAccess = FALSE
SYMMETRY ClientSymmetry
INVARIANT TypeOK
INVARIANT SessionsKeptApart
INVARIANT SessionsCounted
CHECK_DEADLOCK FALSE
