----------------------------- MODULE TfsServer ------------------------------
(***************************************************************************)
(* fs/tfs_server.c with the clients of client/tecnicofs_client_api.c: the  *)
(* main thread reads the requests of all clients from one pipe and hands   *)
(* each to the worker thread of its session, which performs it on the file *)
(* system and answers on the client's own pipe.                            *)
(*                                                                         *)
(* The file system is the gate that FsOperations is proved to implement.   *)
(* Each call of operations.c is one step here, and so is each critical     *)
(* section of a slave_mutex; global_mutex is modelled by its holder, since *)
(* find_free_pos can return without unlocking it.  Clients follow the      *)
(* library: one call at a time, on a session they have, with handles they  *)
(* have.                                                                   *)
(***************************************************************************)
EXTENDS Integers, Sequences, FiniteSets

CONSTANTS
    Clients,      \* the client processes
    NoClient,     \* an unset name
    S,            \* the session limit
    Handle,       \* handles of the open file table
    MaxMounts,    \* bound: mounts tried by one client
    MaxCalls,     \* bound: other calls made by one client
    FailingAccess \* reads and writes may fail: a handle outside the table, no block left

ASSUME SessionsAssumption == S \in Nat \ {0}
ASSUME ClientsAssumption == NoClient \notin Clients
ASSUME HandleAssumption == Handle \subseteq Nat /\ 0 \in Handle    \* indices of the table
ASSUME BoundsAssumption == MaxMounts \in Nat /\ MaxCalls \in Nat /\ FailingAccess \in BOOLEAN

Slots == 0 .. S - 1
OutsideTable == -2    \* a handle that get_open_file_entry rejects

\* A client makes a new pipe for each mount; an open descriptor stands for one of them.
NoPipe == <<NoClient, 0>>
Pipes  == (Clients \X (0 .. MaxMounts)) \cup {NoPipe}

VARIABLES
    up,             \* the server process runs
    server_pipe,    \* requests written and not yet read
    main,           \* where the main thread is
    name, fcli, slot,   \* main's variables in tfs_handle_mount
    global_mutex,   \* holder of the mutex, or "none"
    open_sessions,
    free_sessions,  \* "FREE_POS" or "TAKEN_POS" for each slot
    fhandler,       \* sessions[i].fhandler: the pipe of the client of slot i
    wake_up,
    request,        \* slaves[i].request
    worker,         \* where each worker is
    ret,            \* the result each worker is about to send
    open, shutting, down,   \* the file system
    cpc,            \* where each client is
    call,           \* the call a client waits for
    session_id,     \* what each client takes for its session
    inbox,          \* replies on each client's pipe
    handles,        \* the handles each client holds
    fd,             \* the handle of the client's current call
    mounts, calls   \* what is left to each client of the bounds

fs       == <<open, shutting, down>>
clientV  == <<cpc, call, session_id, handles, fd, mounts, calls>>
mainV    == <<main, name, fcli, slot>>
sessionV == <<global_mutex, open_sessions, free_sessions, fhandler>>
workerV  == <<wake_up, request, worker, ret>>
vars == <<up, server_pipe, mainV, sessionV, workerV, fs, clientV, inbox>>

FileSystem == INSTANCE ShutdownGate

Ops == {"MOUNT", "UNMOUNT", "OPEN", "CLOSE", "WRITE", "READ", "SHUTDOWN"}

NoMsg == [op |-> "none", name |-> NoClient, session_id |-> -1, fhandle |-> -1]

\* server_init, and clients that have not mounted yet.
Init ==
    /\ up = TRUE /\ server_pipe = <<>>
    /\ main = "read" /\ name = NoClient /\ fcli = NoPipe /\ slot = -1
    /\ global_mutex = "none" /\ open_sessions = 0
    /\ free_sessions = [i \in Slots |-> "FREE_POS"]
    /\ fhandler = [i \in Slots |-> NoPipe]
    /\ wake_up = [i \in Slots |-> FALSE]
    /\ request = [i \in Slots |-> [op |-> "none", fcli |-> NoPipe, fhandler |-> -1]]
    /\ worker = [i \in Slots |-> "wait"]
    /\ ret = [i \in Slots |-> -1]
    /\ FileSystem!Init
    /\ cpc = [c \in Clients |-> "out"]
    /\ call = [c \in Clients |-> "none"]
    /\ session_id = [c \in Clients |-> -1]
    /\ inbox = [c \in Clients |-> <<>>]
    /\ handles = [c \in Clients |-> {}]
    /\ fd = [c \in Clients |-> -1]
    /\ mounts = [c \in Clients |-> MaxMounts]
    /\ calls = [c \in Clients |-> MaxCalls]

(***************************************************************************)
(* Clients.                                                                *)
(***************************************************************************)
Send(m) == server_pipe' = Append(server_pipe, m)

\* tfs_mount: the request is written before the client's own pipe exists.  The open
\* of the server's pipe blocks when there is no server.  A client that tries again after
\* a rejection still has the pipe of its last attempt open, under the same name.
Mount(c) ==
    /\ up
    /\ cpc[c] \in {"out", "rejected"}
    /\ mounts[c] > 0
    /\ mounts' = [mounts EXCEPT ![c] = @ - 1]
    /\ Send([NoMsg EXCEPT !.op = "MOUNT", !.name = c])
    /\ cpc' = [cpc EXCEPT ![c] = IF @ = "rejected" THEN "mkfifo_again" ELSE "mkfifo"]
    /\ call' = [call EXCEPT ![c] = "MOUNT"]
    /\ inbox' = [inbox EXCEPT ![c] = <<>>]
    /\ UNCHANGED <<up, mainV, sessionV, workerV, fs, session_id, handles, fd, calls>>

\* ... unlink, mkfifo, and an open that blocks until the server opens the other end.
MakeFifo(c) ==
    /\ cpc[c] \in {"mkfifo", "mkfifo_again"}
    /\ cpc' = [cpc EXCEPT ![c] = "opening"]
    /\ UNCHANGED <<up, server_pipe, mainV, sessionV, workerV, fs, call, session_id, handles,
                   fd, mounts, calls, inbox>>

\* The calls on a session: write the request, wait for the answer.
Request(c, op, h) ==
    /\ up
    /\ cpc[c] = "in" /\ calls[c] > 0
    /\ calls' = [calls EXCEPT ![c] = @ - 1]
    /\ Send([op |-> op, name |-> NoClient, session_id |-> session_id[c], fhandle |-> h])
    /\ cpc' = [cpc EXCEPT ![c] = "reply"]
    /\ call' = [call EXCEPT ![c] = op]
    /\ fd' = [fd EXCEPT ![c] = h]
    /\ UNCHANGED <<up, mainV, sessionV, workerV, fs, session_id, mounts, inbox>>

OpenFile(c) == Request(c, "OPEN", -1) /\ UNCHANGED handles

\* -1 is what a failed tfs_open returned.
CloseFile(c) ==
    \E h \in handles[c] \cup {-1} :
        /\ Request(c, "CLOSE", h)
        /\ handles' = [handles EXCEPT ![c] = @ \ {h}]

AccessFile(c) ==
    \E op \in {"READ", "WRITE"}, h \in handles[c] \cup {OutsideTable} :
        /\ h = OutsideTable => FailingAccess
        /\ Request(c, op, h)
        /\ UNCHANGED handles

Shutdown(c) == Request(c, "SHUTDOWN", -1) /\ UNCHANGED handles

\* tfs_unmount: the request is written, both pipes are closed, nothing is answered.  A
\* client whose mount was rejected sends -1.
Unmount(c) ==
    /\ up
    /\ cpc[c] \in {"in", "rejected"}
    /\ Send([NoMsg EXCEPT !.op = "UNMOUNT", !.session_id = session_id[c]])
    /\ cpc' = [cpc EXCEPT ![c] = "out"]
    /\ inbox' = [inbox EXCEPT ![c] = <<>>]
    /\ UNCHANGED <<up, mainV, sessionV, workerV, fs, call, session_id, handles, fd, mounts,
                   calls>>

\* A write to the server's pipe when there is no server kills the client (SIGPIPE).
BrokenPipe(c) ==
    /\ ~up
    /\ cpc[c] \in {"in", "rejected"}
    /\ cpc' = [cpc EXCEPT ![c] = "dead"]
    /\ UNCHANGED <<up, server_pipe, mainV, sessionV, workerV, fs, call, session_id, handles, fd,
                   mounts, calls, inbox>>

\* What the library makes of the number val it has read as the answer.
Return(c, val) ==
    /\ cpc' = [cpc EXCEPT ![c] = IF call[c] = "MOUNT" /\ val < 0 THEN "rejected" ELSE "in"]
    /\ session_id' = IF call[c] = "MOUNT" THEN [session_id EXCEPT ![c] = val] ELSE session_id
    /\ handles' = IF call[c] = "OPEN" /\ val >= 0
                  THEN [handles EXCEPT ![c] = @ \cup {val}] ELSE handles
    /\ call' = [call EXCEPT ![c] = "none"]
    /\ fd' = [fd EXCEPT ![c] = -1]

Receive(c) ==
    /\ cpc[c] = "reply"
    /\ inbox[c] # <<>>
    /\ inbox' = [inbox EXCEPT ![c] = Tail(@)]
    /\ Return(c, Head(inbox[c]).val)
    /\ UNCHANGED <<up, server_pipe, mainV, sessionV, workerV, fs, mounts, calls>>

\* The server has exited: read returns 0 bytes, and atoi("") is 0.
EndOfFile(c) ==
    /\ ~up
    /\ cpc[c] = "reply"
    /\ inbox[c] = <<>>
    /\ Return(c, 0)
    /\ UNCHANGED <<up, server_pipe, mainV, sessionV, workerV, fs, mounts, calls, inbox>>

(***************************************************************************)
(* The main thread.                                                        *)
(***************************************************************************)
\* An answer, with the call it answers.  It is lost (EBADF, EPIPE) when the descriptor is
\* unset or the client has closed that pipe.
Reply(pipe, op, val) ==
    inbox' = [c \in Clients |->
                 IF pipe = <<c, mounts[c]>> /\ cpc[c] \in {"opening", "reply", "in", "rejected"}
                 THEN Append(inbox[c], [op |-> op, val |-> val]) ELSE inbox[c]]

\* Mutant: the worker is not woken.
MutantPost(i, r) ==
    /\ request' = [request EXCEPT ![i] = r]
    /\ UNCHANGED <<wake_up, worker, ret>>

\* Under slave_mutex: fill in the request and wake the worker.
Post(i, r) ==
    /\ request' = [request EXCEPT ![i] = r]
    /\ wake_up' = [wake_up EXCEPT ![i] = TRUE]
    /\ UNCHANGED <<worker, ret>>

\* The main loop reads the next request.
Read(op) ==
    /\ up
    /\ main = "read"
    /\ server_pipe # <<>>
    /\ Head(server_pipe).op = op
    /\ server_pipe' = Tail(server_pipe)
    /\ UNCHANGED <<up, fs, clientV>>

HandleMount ==
    /\ Read("MOUNT")
    /\ name' = Head(server_pipe).name
    /\ main' = "slait_open"
    /\ UNCHANGED <<fcli, slot, sessionV, workerV, inbox>>

\* The rest of tfs_handle_mount once the pipe is open.  At the limit the client is told
\* so at once.
MountOpened(pipe) ==
    /\ fcli' = pipe
    /\ IF open_sessions = S
       THEN main' = "read" /\ Reply(pipe, "MOUNT", -1)
       ELSE main' = "find_free_pos" /\ UNCHANGED inbox
    /\ UNCHANGED <<up, server_pipe, name, slot, sessionV, workerV, fs, call, session_id, handles,
                   fd, mounts, calls>>

\* slait_open spins until the client has opened its end ...
MountOpen ==
    /\ up
    /\ main = "slait_open"
    /\ cpc[name] = "opening"
    /\ cpc' = [cpc EXCEPT ![name] = "reply"]
    /\ MountOpened(<<name, mounts[name]>>)

\* ... or, before the client has replaced it, opens the pipe of the client's rejected
\* mount, which the client no longer reads.
MountOpenStale ==
    /\ up
    /\ main = "slait_open"
    /\ cpc[name] = "mkfifo_again"
    /\ MountOpened(<<name, mounts[name] + 1>>)
    /\ UNCHANGED cpc

FreeSlots == {i \in Slots : free_sessions[i] = "FREE_POS"}

\* Mutant: the slot is not marked.
MutantFindFreePos ==
    /\ up
    /\ main = "find_free_pos"
    /\ global_mutex = "none"
    /\ slot' \in FreeSlots
    /\ \A i \in FreeSlots : slot' <= i
    /\ main' = "mount_post"
    /\ UNCHANGED <<up, server_pipe, name, fcli, sessionV, workerV, fs, clientV, inbox>>

FindFreePos ==
    /\ up
    /\ main = "find_free_pos"
    /\ global_mutex = "none"
    /\ slot' \in FreeSlots
    /\ \A i \in FreeSlots : slot' <= i
    /\ free_sessions' = [free_sessions EXCEPT ![slot'] = "TAKEN_POS"]
    /\ main' = "mount_post"
    /\ UNCHANGED <<up, server_pipe, name, fcli, global_mutex, open_sessions, fhandler, workerV, fs,
                   clientV, inbox>>

\* No slot is free: find_free_pos returns without unlocking global_mutex.
FindFreePosFails ==
    /\ up
    /\ main = "find_free_pos"
    /\ global_mutex = "none"
    /\ FreeSlots = {}
    /\ global_mutex' = "main"
    /\ Reply(fcli, "MOUNT", -1)
    /\ main' = "read"
    /\ UNCHANGED <<up, server_pipe, name, fcli, slot, open_sessions, free_sessions, fhandler,
                   workerV, fs, clientV>>

MountPost ==
    /\ up
    /\ main = "mount_post"
    /\ Post(slot, [request[slot] EXCEPT !.op = "MOUNT", !.fcli = fcli])
    /\ main' = "mount_count"
    /\ UNCHANGED <<up, server_pipe, name, fcli, slot, sessionV, fs, clientV, inbox>>

MountCount ==
    /\ up
    /\ main = "mount_count"
    /\ global_mutex = "none"
    /\ open_sessions' = open_sessions + 1
    /\ main' = "read"
    /\ UNCHANGED <<up, server_pipe, name, fcli, slot, global_mutex, free_sessions, fhandler,
                   workerV, fs, clientV, inbox>>

\* Mutant: the test for an unmount without a session is left out.
MutantHandleUnmount ==
    /\ Read("UNMOUNT")
    /\ LET sid == Head(server_pipe).session_id
       IN  IF sid = -1 THEN UNCHANGED workerV
           ELSE Post(sid, [request[sid] EXCEPT !.op = "UNMOUNT"])
    /\ main' = "unmount_count"
    /\ UNCHANGED <<name, fcli, slot, sessionV, inbox>>

HandleUnmount ==
    /\ Read("UNMOUNT")
    /\ LET sid == Head(server_pipe).session_id
       IN  IF open_sessions = 0 \/ sid = -1
           THEN UNCHANGED <<main, workerV>>
           ELSE main' = "unmount_count" /\ Post(sid, [request[sid] EXCEPT !.op = "UNMOUNT"])
    /\ UNCHANGED <<name, fcli, slot, sessionV, inbox>>

UnmountCount ==
    /\ up
    /\ main = "unmount_count"
    /\ global_mutex = "none"
    /\ open_sessions' = open_sessions - 1
    /\ main' = "read"
    /\ UNCHANGED <<up, server_pipe, name, fcli, slot, global_mutex, free_sessions, fhandler,
                   workerV, fs, clientV, inbox>>

\* tfs_handle_open.
HandleOpen ==
    /\ Read("OPEN")
    /\ LET i == Head(server_pipe).session_id
       IN  Post(i, [request[i] EXCEPT !.op = "OPEN"])
    /\ UNCHANGED <<mainV, sessionV, inbox>>

\* Mutant: the handle is not copied into the request.
MutantHandleFileOp(op) ==
    /\ Read(op)
    /\ LET m == Head(server_pipe)
           i == m.session_id
       IN  IF m.fhandle = -1
           THEN Reply(fhandler[i], op, -1) /\ UNCHANGED workerV
           ELSE Post(i, [request[i] EXCEPT !.op = op]) /\ UNCHANGED inbox
    /\ UNCHANGED <<mainV, sessionV>>

\* tfs_handle_close, _read, _write: main itself answers a handle of -1.  Clients make that
\* call with tfs_close only; with the other two main leaves the rest of the message unread.
HandleFileOp(op) ==
    /\ Read(op)
    /\ LET m == Head(server_pipe)
           i == m.session_id
       IN  IF m.fhandle = -1
           THEN Reply(fhandler[i], op, -1) /\ UNCHANGED workerV
           ELSE Post(i, [request[i] EXCEPT !.op = op, !.fhandler = m.fhandle])
                /\ UNCHANGED inbox
    /\ UNCHANGED <<mainV, sessionV>>

HandleShutdown ==
    /\ Read("SHUTDOWN")
    /\ LET i == Head(server_pipe).session_id
       IN  Post(i, [request[i] EXCEPT !.op = "SHUTDOWN"])
    /\ UNCHANGED <<mainV, sessionV, inbox>>

(***************************************************************************)
(* The worker of slot i.                                                   *)
(***************************************************************************)
WorkerGoto(i, from, to) ==
    /\ up
    /\ worker[i] = from
    /\ worker' = [worker EXCEPT ![i] = to]

\* Mutant: wake_up is not cleared.
MutantTake(i) ==
    /\ WorkerGoto(i, "wait", "switch")
    /\ wake_up[i]
    /\ UNCHANGED <<up, server_pipe, mainV, sessionV, wake_up, request, ret, fs, clientV, inbox>>

\* Under slave_mutex: wait for a request, clear wake_up.
Take(i) ==
    /\ WorkerGoto(i, "wait", "switch")
    /\ wake_up[i]
    /\ wake_up' = [wake_up EXCEPT ![i] = FALSE]
    /\ UNCHANGED <<up, server_pipe, mainV, sessionV, request, ret, fs, clientV, inbox>>

\* The request is read after slave_mutex has been given up.
Switch(i) ==
    /\ WorkerGoto(i, "switch", request[i].op)
    /\ UNCHANGED <<up, server_pipe, mainV, sessionV, wake_up, request, ret, fs, clientV, inbox>>

\* The number in ret goes to the client of the session.
ThreadReply(i) ==
    /\ WorkerGoto(i, "answer", "wait")
    /\ Reply(fhandler[i], request[i].op, ret[i])
    /\ UNCHANGED <<up, server_pipe, mainV, sessionV, wake_up, request, ret, fs, clientV>>

\* tfs_thread_mount takes and gives up global_mutex before it fills in the session.
ThreadMount(i) ==
    /\ WorkerGoto(i, "MOUNT", "mount_answer")
    /\ global_mutex = "none"
    /\ fhandler' = [fhandler EXCEPT ![i] = request[i].fcli]
    /\ UNCHANGED <<up, server_pipe, mainV, global_mutex, open_sessions, free_sessions, wake_up,
                   request, ret, fs, clientV, inbox>>

ThreadMountReply(i) ==
    /\ WorkerGoto(i, "mount_answer", "wait")
    /\ Reply(request[i].fcli, "MOUNT", i)
    /\ UNCHANGED <<up, server_pipe, mainV, sessionV, wake_up, request, ret, fs, clientV>>

\* Mutant: the slot is freed before the session is erased.
MutantThreadUnmount(i) ==
    /\ WorkerGoto(i, "UNMOUNT", "free_pos")
    /\ global_mutex = "none"
    /\ free_sessions' = [free_sessions EXCEPT ![i] = "FREE_POS"]
    /\ UNCHANGED <<up, server_pipe, mainV, global_mutex, open_sessions, fhandler, wake_up,
                   request, ret, fs, clientV, inbox>>

\* tfs_thread_unmount erases the session first and frees its slot last.
ThreadUnmount(i) ==
    /\ WorkerGoto(i, "UNMOUNT", "free_pos")
    /\ fhandler' = [fhandler EXCEPT ![i] = NoPipe]
    /\ UNCHANGED <<up, server_pipe, mainV, global_mutex, open_sessions, free_sessions, wake_up,
                   request, ret, fs, clientV, inbox>>

\* Mutant: the slot is not freed.
MutantThreadFreePos(i) ==
    /\ WorkerGoto(i, "free_pos", "wait")
    /\ UNCHANGED <<up, server_pipe, mainV, sessionV, wake_up, request, ret, fs, clientV, inbox>>

ThreadFreePos(i) ==
    /\ WorkerGoto(i, "free_pos", "wait")
    /\ global_mutex = "none"
    /\ free_sessions' = [free_sessions EXCEPT ![i] = "FREE_POS"]
    /\ UNCHANGED <<up, server_pipe, mainV, global_mutex, open_sessions, fhandler, wake_up,
                   request, ret, fs, clientV, inbox>>

\* tfs_open succeeds ...
ThreadOpen(i) ==
    /\ WorkerGoto(i, "OPEN", "answer")
    /\ \E h \in Handle : FileSystem!Open(h) /\ ret' = [ret EXCEPT ![i] = h]
    /\ UNCHANGED <<up, server_pipe, mainV, sessionV, wake_up, request, clientV, inbox>>

\* ... or fails, always once the shutdown has been asked for.
ThreadOpenFails(i) ==
    /\ WorkerGoto(i, "OPEN", "answer")
    /\ ret' = [ret EXCEPT ![i] = -1]
    /\ UNCHANGED <<up, server_pipe, mainV, sessionV, wake_up, request, fs, clientV, inbox>>

ThreadClose(i) ==
    /\ WorkerGoto(i, "CLOSE", "answer")
    /\ FileSystem!Close(request[i].fhandler)
    /\ ret' = [ret EXCEPT ![i] = 0]
    /\ UNCHANGED <<up, server_pipe, mainV, sessionV, wake_up, request, clientV, inbox>>

\* tfs_thread_read, and tfs_thread_write when the write succeeds: a count.
ThreadAccess(i) ==
    /\ \E op \in {"READ", "WRITE"} : WorkerGoto(i, op, "answer")
    /\ request[i].fhandler # OutsideTable
    /\ ret' = [ret EXCEPT ![i] = 1]
    /\ UNCHANGED <<up, server_pipe, mainV, sessionV, wake_up, request, fs, clientV, inbox>>

\* tfs_thread_read when tfs_read fails.
ThreadReadFails(i) ==
    /\ FailingAccess
    /\ WorkerGoto(i, "READ", "answer")
    /\ ret' = [ret EXCEPT ![i] = -1]
    /\ UNCHANGED <<up, server_pipe, mainV, sessionV, wake_up, request, fs, clientV, inbox>>

\* tfs_thread_write when tfs_write fails: the whole server exits.
ThreadWriteFails(i) ==
    /\ FailingAccess
    /\ WorkerGoto(i, "WRITE", "exit")
    /\ up' = FALSE
    /\ UNCHANGED <<server_pipe, mainV, sessionV, wake_up, request, ret, fs, clientV, inbox>>

\* tfs_thread_shutdown_after_all_close: ask, wait until nothing is open, answer twice,
\* exit.
ThreadShutdown(i) ==
    /\ WorkerGoto(i, "SHUTDOWN", "destroying")
    /\ FileSystem!AskShutdown
    /\ UNCHANGED <<up, server_pipe, mainV, sessionV, wake_up, request, ret, clientV, inbox>>

\* Mutant: the shutdown does not wait.
MutantThreadDestroyed(i) ==
    /\ WorkerGoto(i, "destroying", "shutdown_answer")
    /\ UNCHANGED <<up, server_pipe, mainV, sessionV, wake_up, request, ret, fs, clientV, inbox>>

ThreadDestroyed(i) ==
    /\ WorkerGoto(i, "destroying", "shutdown_answer")
    /\ FileSystem!GoDown
    /\ UNCHANGED <<up, server_pipe, mainV, sessionV, wake_up, request, ret, clientV, inbox>>

ThreadShutdownReply(i) ==
    /\ \/ WorkerGoto(i, "shutdown_answer", "shutdown_again")
       \/ WorkerGoto(i, "shutdown_again", "shutdown_exit")
    /\ Reply(fhandler[i], "SHUTDOWN", 0)
    /\ UNCHANGED <<up, server_pipe, mainV, sessionV, wake_up, request, ret, fs, clientV>>

\* Mutant: the worker answers and waits for the next request.
MutantThreadExit(i) ==
    /\ WorkerGoto(i, "shutdown_exit", "wait")
    /\ UNCHANGED <<up, server_pipe, mainV, sessionV, wake_up, request, ret, fs, clientV, inbox>>

ThreadExit(i) ==
    /\ WorkerGoto(i, "shutdown_exit", "exit")
    /\ up' = FALSE
    /\ UNCHANGED <<server_pipe, mainV, sessionV, wake_up, request, ret, fs, clientV, inbox>>

(***************************************************************************)
(* The system.                                                             *)
(***************************************************************************)
MainStep ==
    \/ HandleMount \/ MountOpen \/ MountOpenStale \/ FindFreePos \/ FindFreePosFails
    \/ MountPost \/ MountCount \/ HandleUnmount \/ UnmountCount
    \/ HandleOpen
    \/ \E op \in {"CLOSE", "WRITE", "READ"} : HandleFileOp(op)
    \/ HandleShutdown

WorkerStep(i) ==
    \/ Take(i) \/ Switch(i) \/ ThreadReply(i) \/ ThreadMount(i) \/ ThreadMountReply(i)
    \/ ThreadUnmount(i) \/ ThreadFreePos(i) \/ ThreadOpen(i) \/ ThreadOpenFails(i)
    \/ ThreadClose(i) \/ ThreadAccess(i) \/ ThreadReadFails(i) \/ ThreadWriteFails(i)
    \/ ThreadShutdown(i) \/ ThreadDestroyed(i) \/ ThreadShutdownReply(i) \/ ThreadExit(i)

\* Steps of a library call that has started.
ClientStep(c) == MakeFifo(c) \/ Receive(c) \/ EndOfFile(c)

NewCall(c) ==
    \/ Mount(c) \/ OpenFile(c) \/ CloseFile(c) \/ AccessFile(c) \/ Shutdown(c) \/ Unmount(c)
    \/ BrokenPipe(c)

Next ==
    \/ \E c \in Clients : NewCall(c) \/ ClientStep(c)
    \/ MainStep
    \/ \E i \in Slots : WorkerStep(i)

Spec == Init /\ [][Next]_vars

\* Every thread and every client inside a library call is scheduled; nobody has to make
\* another call.
FairSpec ==
    /\ Spec
    /\ WF_vars(MainStep)
    /\ \A i \in Slots : WF_vars(WorkerStep(i))
    /\ \A c \in Clients : WF_vars(ClientStep(c))

(***************************************************************************)
(* Properties.                                                             *)
(***************************************************************************)
Requests == [op : Ops \cup {"none"}, name : Clients \cup {NoClient},
             session_id : Slots \cup {-1}, fhandle : Handle \cup {-1, OutsideTable}]

TypeOK ==
    /\ up \in BOOLEAN /\ server_pipe \in Seq(Requests)
    /\ main \in {"read", "slait_open", "find_free_pos", "mount_post", "mount_count",
                 "unmount_count"}
    /\ name \in Clients \cup {NoClient} /\ fcli \in Pipes /\ slot \in Slots \cup {-1}
    /\ global_mutex \in {"none", "main"}
    /\ open_sessions \in 0 .. S
    /\ free_sessions \in [Slots -> {"FREE_POS", "TAKEN_POS"}]
    /\ fhandler \in [Slots -> Pipes]
    /\ wake_up \in [Slots -> BOOLEAN]
    /\ request \in [Slots -> [op : Ops \cup {"none"}, fcli : Pipes,
                              fhandler : Handle \cup {-1, OutsideTable}]]
    /\ worker \in [Slots -> Ops \cup {"wait", "switch", "answer", "mount_answer", "free_pos",
                                      "destroying", "shutdown_answer", "shutdown_again",
                                      "shutdown_exit", "exit"}]
    /\ ret \in [Slots -> Handle \cup {-1, 0, 1}]
    /\ open \subseteq Handle /\ shutting \in BOOLEAN /\ down \in BOOLEAN
    /\ cpc \in [Clients -> {"out", "mkfifo", "mkfifo_again", "opening", "reply", "in",
                            "rejected", "dead"}]
    /\ call \in [Clients -> Ops \cup {"none"}]
    /\ session_id \in [Clients -> Slots \cup {-1}]
    /\ inbox \in [Clients -> Seq([op : Ops, val : Int])]
    /\ handles \in [Clients -> SUBSET Handle]
    /\ fd \in [Clients -> Handle \cup {-1, OutsideTable}]
    /\ mounts \in [Clients -> 0 .. MaxMounts] /\ calls \in [Clients -> 0 .. MaxCalls]

\* The worker of slot i has a request it has not finished with.
Busy(i) == wake_up[i] \/ worker[i] # "wait"

\* The client has a session, as far as the library knows.
Mounted(c) == cpc[c] = "in" \/ (cpc[c] = "reply" /\ call[c] # "MOUNT")

\* Two clients never share a session, and the slot of a mounted client is taken and
\* answers on that client's pipe: the slot of a session that is being unmounted is not
\* given away too early, although main stops counting it before the worker frees it.
SessionsKeptApart ==
    up => \A c \in Clients : Mounted(c) =>
        /\ free_sessions[session_id[c]] = "TAKEN_POS"
        /\ fhandler[session_id[c]] = <<c, mounts[c]>>
        /\ \A d \in Clients \ {c} : Mounted(d) => session_id[c] # session_id[d]

\* The shutdown the client asked for is being answered: twice.
EndsServer(c) ==
    \E i \in Slots : /\ fhandler[i] = <<c, mounts[c]>>
                     /\ worker[i] \in {"shutdown_answer", "shutdown_again", "shutdown_exit",
                                       "exit"}

\* A client finds on its pipe one answer, when it waits for one, and the answer is to its
\* own call: workers of other sessions, and main when it answers by itself, never write to
\* it.  Only the client that ends the server may find an answer twice.
AnswersMatchCalls ==
    \A c \in Clients : inbox[c] # <<>> /\ ~EndsServer(c) =>
        cpc[c] = "reply" /\ Len(inbox[c]) = 1 /\ Head(inbox[c]).op = call[c]

\* The worker reads its request after it has unlocked slave_mutex: until the file system
\* is down, main never writes to a request the worker has not finished with.
RequestsStable ==
    [][\A i \in Slots : Busy(i) /\ ~down => request'[i] = request[i]]_vars

\* Slots the main thread has stopped counting and the worker has not freed yet.
Leaving == {i \in Slots : request[i].op = "UNMOUNT" /\ Busy(i)}

\* open_sessions is the number of TAKEN_POS slots, up to the mount or unmount main is in
\* the middle of and the unmounts whose workers are behind.
SessionsCounted ==
    Cardinality(Slots \ FreeSlots) =
        open_sessions + Cardinality(Leaving)
        + (IF main \in {"mount_post", "mount_count"} THEN 1 ELSE 0)
        - (IF main = "unmount_count" THEN 1 ELSE 0)

\* A handle a client holds stays open until that client's own tfs_close, whatever the
\* other sessions do, and no other client holds it.  So the server closes only handles
\* that are open, the condition under which tfs_close is correct (FsOperations without
\* BadClose).
HandlesStayOpen ==
    ~down /\ up =>
        /\ \A c \in Clients : handles[c] \subseteq open
        /\ \A c, d \in Clients : c # d => handles[c] \cap handles[d] = {}
        /\ \A i \in Slots : worker[i] = "CLOSE" => request[i].fhandler \in open

\* "Waits until no file is open": unless it was a failed write that ended it, a server
\* that has exited leaves no file open, whatever the other workers were doing.
ExitWithNothingOpen ==
    ~up /\ (\A i \in Slots : worker[i] = "exit" => request[i].op # "WRITE") => open = {}

\* Every library call but the shutdown's returns while the server runs, and so
\* does tfs_mount.
CallsAnswered ==
    \A c \in Clients :
        (call[c] \notin {"none", "SHUTDOWN"}) ~> (call[c] = "none" \/ ~up)

\* A shutdown completes once the clients have closed their files for good: the server
\* exits.
ShutdownCompletes ==
    <>[](open = {}) => \A c \in Clients : (call[c] = "SHUTDOWN") ~> ~up

\* tecnicofs_client_api.h, of tfs_mount: "Returns 0 if successful, -1 otherwise."
\* A tfs_mount returns, as long as the server runs.
MountReturns ==
    \A c \in Clients : (call[c] = "MOUNT") ~> (call[c] = "none" \/ ~up)
=============================================================================
