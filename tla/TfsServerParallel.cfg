SPECIFICATION FairSpec
CONSTANTS
    Clients = {c1, c2}
    NoClient = NoClient
    S = 2
    Handle = {0, 1}
    MaxMounts = 1
    MaxCalls = 2
    FailingAccess = TRUE
INVARIANT AnswersMatchCalls
INVARIANT HandlesStayOpen
INVARIANT ExitWithNothingOpen
PROPERTY RequestsStable
PROPERTY CallsAnswered
PROPERTY ShutdownCompletes
CHECK_DEADLOCK FALSE
