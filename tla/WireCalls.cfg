SPECIFICATION FairSpec
CONSTANTS
    Clients = {20, 21}
    NoClient = 0
    S = 2
    INT_SIZE = 4
    NAME_SIZE = 3
    SIZE = 100
    Name = {30}
    Flags = {3}
    Handle = {12}
    Texts <- MCTexts
    ReadLens = {1, 12345}
    Stale <- MCStale
    MaxCalls = 4
INVARIANT TypeOK
INVARIANT NoShortReads
PROPERTY ImplementsRemoteCalls
PROPERTY PlainCallsReturn
CHECK_DEADLOCK FALSE
