---------------------------- MODULE ShutdownGate ----------------------------
(***************************************************************************)
(* What tfs_open, tfs_close and tfs_destroy_after_all_closed promise to    *)
(* their callers together (fs/operations.h): files are opened and closed   *)
(* until somebody asks for the shutdown; from then on files can only be    *)
(* closed, and the file system goes down when none is open.  FsOperations  *)
(* is shown to implement this specification.                               *)
(***************************************************************************)
CONSTANT Handle

VARIABLES
    open,       \* the handles of the open files
    shutting,   \* the shutdown has been asked for
    down        \* some shutdown call has returned

vars == <<open, shutting, down>>

Init == open = {} /\ shutting = FALSE /\ down = FALSE

Open(h) ==
    /\ ~shutting
    /\ h \notin open
    /\ open' = open \cup {h}
    /\ UNCHANGED <<shutting, down>>

Close(h) ==
    /\ h \in open
    /\ open' = open \ {h}
    /\ UNCHANGED <<shutting, down>>

AskShutdown ==
    /\ shutting' = TRUE
    /\ UNCHANGED <<open, down>>

GoDown ==
    /\ shutting
    /\ open = {}
    /\ down' = TRUE
    /\ UNCHANGED <<open, shutting>>

Next ==
    \/ \E h \in Handle : Open(h) \/ Close(h)
    \/ AskShutdown
    \/ GoDown

Spec == Init /\ [][Next]_vars
=============================================================================
