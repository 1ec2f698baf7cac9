SPECIFICATION FairSpec
CONSTANTS
    Clients = {20}
    NoClient = 0
    S = 2
    INT_SIZE = 4
    NAME_SIZE = 3
    SIZE = 100
    Name = {30}
    Flags = {3}
    Handle = {12}
    Texts <- MCWriteTexts
    ReadLens = {12345}
    Stale <- MCStale
    MaxCalls = 2
PROPERTY WritesReturn
CHECK_DEADLOCK FALSE
