SPECIFICATION Spec
CONSTANTS
    Threads = {t1, t2}
    NoThread = NoThread
    MAX_OPEN_FILES = 2
    MaxCalls = 2
    BadClose = TRUE
INVARIANT DestroyAfterAllClosed
CHECK_DEADLOCK FALSE
