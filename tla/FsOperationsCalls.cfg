SPECIFICATION FairSpec
CONSTANTS
    Threads = {t1, t2, t3}
    NoThread = NoThread
    MAX_OPEN_FILES = 2
    MaxCalls = 2
    BadClose = FALSE
INVARIANT TypeOK
INVARIANT MutualExclusion
INVARIANT OpenFilesExact
INVARIANT DestroyAfterAllClosed
INVARIANT NoHandleLeak
PROPERTY DestroyReturns
PROPERTY ImplementsGate
CHECK_DEADLOCK FALSE
