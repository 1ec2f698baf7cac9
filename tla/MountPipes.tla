----------------------------- MODULE MountPipes -----------------------------
(***************************************************************************)
(* The named pipes as files: how main opens, closes and reopens the        *)
(* server's pipe (fs/tfs_server.c), how tfs_mount and tfs_unmount of       *)
(* client/tecnicofs_client_api.c open and close both pipes, with clients   *)
(* that die, a server that exits and the handler of SIGINT.                *)
(*                                                                         *)
(* Pipes behave as in Linux.  An open for reading or writing counts from   *)
(* its start and waits for the other side.  A read meets end of file when  *)
(* the pipe is empty and has no writer; a write without a reader kills the *)
(* writer (SIGPIPE).  What a pipe holds is lost when nobody has it open.   *)
(* A session is counted by main, and answered and freed by the worker of   *)
(* its slot, each in a step; TfsServer has the locks between them, but for *)
(* global_mutex, which a failed search for a slot keeps for ever.          *)
(***************************************************************************)
EXTENDS Integers, Sequences, FiniteSets

CONSTANTS
    Clients,      \* the client processes
    NoClient,
    S,            \* the session limit
    MaxMounts,    \* bound: mounts tried by one client
    MaxCrashes    \* bound: clients that die

ASSUME SessionsAssumption == S \in Nat \ {0}
ASSUME ClientsAssumption == IsFiniteSet(Clients) /\ NoClient \notin Clients
ASSUME BoundsAssumption == MaxMounts \in Nat /\ MaxCrashes \in Nat

\* A client makes a new pipe, under the same name, for each mount.
NoPipe == <<NoClient, 0>>
Pipes  == Clients \X (1 .. MaxMounts)

VARIABLES
    up,             \* the server process runs
    sigint,         \* what SIGINT does: "immortal", "asking" in the handler, "ignored"
    main,           \* where the main thread is
    name, fcli,     \* main's variables in tfs_handle_mount
    server_pipe,    \* messages in the server's pipe
    open_sessions,  \* main's count of them
    sessions,       \* the pipes that have a slot, TAKEN in free_sessions ...
    coming,         \* ... those whose worker has a mount to answer ...
    leaving,        \* ... and those whose worker has to free the slot
    global_mutex,   \* "free" between steps, or "kept" by a find_free_pos that failed
    cpc,            \* where each client is
    fserv,          \* how many descriptors of the server's pipe each client has open
    path,           \* which of the client's pipes has its name, 0 before the first
    reading,        \* the pipes the client has open
    reply,          \* the answer in the client's newest pipe: "none", "yes", "no"
    sid,            \* the session a client takes for its own
    mounts,         \* mounts begun, and the number of the newest pipe
    crashes         \* what is left of MaxCrashes

slotV   == <<sessions, coming, leaving, global_mutex>>
serverV == <<up, sigint, main, name, fcli, open_sessions, slotV>>
fileV   == <<fserv, path, reading>>
vars == <<serverV, server_pipe, cpc, fileV, reply, sid, mounts, crashes>>

\* main begins by opening the pipe it has just made.
Init ==
    /\ up = TRUE /\ sigint = "immortal"
    /\ main = "closed" /\ name = NoClient /\ fcli = NoPipe
    /\ server_pipe = <<>> /\ open_sessions = 0
    /\ sessions = {} /\ coming = {} /\ leaving = {} /\ global_mutex = "free"
    /\ cpc = [c \in Clients |-> "out"]
    /\ fserv = [c \in Clients |-> 0]
    /\ path = [c \in Clients |-> 0]
    /\ reading = [c \in Clients |-> {}]
    /\ reply = [c \in Clients |-> "none"]
    /\ sid = [c \in Clients |-> NoPipe]
    /\ mounts = [c \in Clients |-> 0]
    /\ crashes = MaxCrashes

(***************************************************************************)
(* Named pipes.                                                            *)
(***************************************************************************)
HasReader == main \notin {"closed", "gone"}
HasWriter == \E c \in Clients : fserv[c] > 0

\* A pipe nobody has open loses what it holds.
Kept(reader, writer) == IF reader \/ writer THEN server_pipe ELSE <<>>

(***************************************************************************)
(* Clients.                                                                *)
(***************************************************************************)
\* tfs_mount opens the server's pipe, which wakes a main that waits for a writer.  A
\* client that was rejected still has both pipes of its last attempt open.
MountOpen(c) ==
    /\ cpc[c] \in {"out", "rejected"} /\ mounts[c] < MaxMounts
    /\ mounts' = [mounts EXCEPT ![c] = @ + 1]
    /\ reply' = [reply EXCEPT ![c] = "none"]
    /\ fserv' = [fserv EXCEPT ![c] = @ + 1]
    /\ cpc' = [cpc EXCEPT ![c] = IF HasReader THEN "write" ELSE "opening"]
    /\ main' = IF main = "opening" THEN "read" ELSE main
    /\ UNCHANGED <<up, sigint, name, fcli, open_sessions, slotV, server_pipe, path, reading, sid,
                   crashes>>

MountWrite(c) ==
    /\ cpc[c] = "write" /\ HasReader
    /\ server_pipe' = Append(server_pipe, [op |-> "MOUNT", name |-> c, sid |-> NoPipe])
    /\ cpc' = [cpc EXCEPT ![c] = "mkfifo"]
    /\ UNCHANGED <<serverV, fileV, reply, sid, mounts, crashes>>

\* ... unlink, mkfifo, and the open, which blocks until the server opens the other end.
MakeFifo(c) ==
    /\ cpc[c] = "mkfifo"
    /\ path' = [path EXCEPT ![c] = mounts[c]]
    /\ reading' = [reading EXCEPT ![c] = @ \cup {mounts[c]}]
    /\ cpc' = [cpc EXCEPT ![c] = "open"]
    /\ UNCHANGED <<serverV, server_pipe, fserv, reply, sid, mounts, crashes>>

\* Mutant: a negative session is not looked for.
MutantReceive(c) ==
    /\ cpc[c] = "reply" /\ reply[c] # "none"
    /\ cpc' = [cpc EXCEPT ![c] = "in"]
    /\ sid' = [sid EXCEPT ![c] = IF reply[c] = "yes" THEN <<c, mounts[c]>> ELSE NoPipe]
    /\ UNCHANGED <<serverV, server_pipe, fileV, reply, mounts, crashes>>

Receive(c) ==
    /\ cpc[c] = "reply" /\ reply[c] # "none"
    /\ cpc' = [cpc EXCEPT ![c] = IF reply[c] = "yes" THEN "in" ELSE "rejected"]
    /\ sid' = [sid EXCEPT ![c] = IF reply[c] = "yes" THEN <<c, mounts[c]>> ELSE NoPipe]
    /\ UNCHANGED <<serverV, server_pipe, fileV, reply, mounts, crashes>>

\* The server is gone: slait meets end of file, and tfs_mount takes it for session 0.
EndOfFile(c) ==
    /\ cpc[c] = "reply" /\ reply[c] = "none" /\ ~up
    /\ cpc' = [cpc EXCEPT ![c] = "in"]
    /\ UNCHANGED <<serverV, server_pipe, fileV, reply, sid, mounts, crashes>>

\* Mutant: the client still takes itself for mounted.
MutantUnmount(c) ==
    /\ cpc[c] \in {"in", "rejected"} /\ HasReader
    /\ server_pipe' = Append(server_pipe, [op |-> "UNMOUNT", name |-> NoClient, sid |-> sid[c]])
    /\ fserv' = [fserv EXCEPT ![c] = @ - 1]
    /\ reading' = [reading EXCEPT ![c] = @ \ {mounts[c]}]
    /\ UNCHANGED <<serverV, path, cpc, reply, sid, mounts, crashes>>

\* tfs_unmount: nothing is answered.
Unmount(c) ==
    /\ cpc[c] \in {"in", "rejected"} /\ HasReader
    /\ server_pipe' = Append(server_pipe, [op |-> "UNMOUNT", name |-> NoClient, sid |-> sid[c]])
    /\ fserv' = [fserv EXCEPT ![c] = @ - 1]
    /\ reading' = [reading EXCEPT ![c] = @ \ {mounts[c]}]
    /\ cpc' = [cpc EXCEPT ![c] = "out"]
    /\ UNCHANGED <<serverV, path, reply, sid, mounts, crashes>>

\* A process that dies closes what it has open; the name of its pipe stays.
Die(c) ==
    /\ cpc' = [cpc EXCEPT ![c] = "dead"]
    /\ fserv' = [fserv EXCEPT ![c] = 0]
    /\ reading' = [reading EXCEPT ![c] = {}]
    /\ server_pipe' = Kept(HasReader, \E d \in Clients \ {c} : fserv[d] > 0)
    /\ UNCHANGED <<serverV, path, reply, sid, mounts>>

\* A write, of tfs_mount or of a call on the session, when the server has the pipe closed.
BrokenPipe(c) ==
    /\ cpc[c] \in {"write", "in", "rejected"} /\ ~HasReader
    /\ Die(c)
    /\ UNCHANGED crashes

Crash(c) ==
    /\ cpc[c] # "dead" /\ crashes > 0
    /\ crashes' = crashes - 1
    /\ Die(c)

(***************************************************************************)
(* The server.                                                             *)
(***************************************************************************)
\* The handler of SIGINT runs on the main thread, which waits for its answer.
Running == up /\ sigint # "asking"

\* The open blocks until there is a writer, and lets in the clients that wait for a reader.
OpenServerPipe ==
    /\ Running /\ main = "closed"
    /\ main' = IF HasWriter THEN "read" ELSE "opening"
    /\ cpc' = [c \in Clients |-> IF cpc[c] = "opening" THEN "write" ELSE cpc[c]]
    /\ UNCHANGED <<up, sigint, name, fcli, open_sessions, slotV, server_pipe, fileV, reply, sid,
                   mounts, crashes>>

\* The main loop reads a message.
ReadMount ==
    /\ Running /\ main = "read" /\ server_pipe # <<>>
    /\ Head(server_pipe).op = "MOUNT"
    /\ server_pipe' = Tail(server_pipe)
    /\ name' = Head(server_pipe).name
    /\ main' = "slait_open"
    /\ UNCHANGED <<up, sigint, fcli, open_sessions, slotV, cpc, fileV, reply, sid, mounts, crashes>>

\* Mutant: the last session counts for none.
MutantReadUnmount ==
    /\ Running /\ main = "read" /\ server_pipe # <<>>
    /\ Head(server_pipe).op = "UNMOUNT"
    /\ server_pipe' = Tail(server_pipe)
    /\ LET p == Head(server_pipe).sid
       IN  IF open_sessions <= 1 \/ p = NoPipe
           THEN UNCHANGED <<main, leaving>>
           ELSE leaving' = leaving \cup {p} /\ main' = "unmount_count"
    /\ UNCHANGED <<up, sigint, name, fcli, open_sessions, sessions, coming, global_mutex, cpc,
                   fileV, reply, sid, mounts, crashes>>

\* tfs_handle_unmount posts the request, unless there is no session ...
ReadUnmount ==
    /\ Running /\ main = "read" /\ server_pipe # <<>>
    /\ Head(server_pipe).op = "UNMOUNT"
    /\ server_pipe' = Tail(server_pipe)
    /\ LET p == Head(server_pipe).sid
       IN  IF open_sessions = 0 \/ p = NoPipe
           THEN UNCHANGED <<main, leaving>>
           ELSE leaving' = leaving \cup {p} /\ main' = "unmount_count"
    /\ UNCHANGED <<up, sigint, name, fcli, open_sessions, sessions, coming, global_mutex, cpc,
                   fileV, reply, sid, mounts, crashes>>

\* ... and counts it, whether the worker has freed the slot or not.
UnmountCount ==
    /\ Running /\ main = "unmount_count" /\ global_mutex = "free"
    /\ open_sessions' = open_sessions - 1
    /\ main' = "read"
    /\ UNCHANGED <<up, sigint, name, fcli, slotV, server_pipe, cpc, fileV, reply, sid, mounts,
                   crashes>>

\* Mutant: end of file without a look at the writers, as with O_NONBLOCK.
MutantEof ==
    /\ Running /\ main = "read" /\ server_pipe = <<>>
    /\ main' = "eof"
    /\ UNCHANGED <<up, sigint, name, fcli, open_sessions, slotV, server_pipe, cpc, fileV, reply,
                   sid, mounts, crashes>>

\* slait returns 0 ...
Eof ==
    /\ Running /\ main = "read" /\ server_pipe = <<>> /\ ~HasWriter
    /\ main' = "eof"
    /\ UNCHANGED <<up, sigint, name, fcli, open_sessions, slotV, server_pipe, cpc, fileV, reply,
                   sid, mounts, crashes>>

\* Mutant: the pipe's contents go with the descriptor.
MutantCloseServerPipe ==
    /\ Running /\ main = "eof"
    /\ main' = "closed" /\ server_pipe' = <<>>
    /\ UNCHANGED <<up, sigint, name, fcli, open_sessions, slotV, cpc, fileV, reply, sid, mounts,
                   crashes>>

\* ... and main closes the pipe, to open it again.
CloseServerPipe ==
    /\ Running /\ main = "eof"
    /\ main' = "closed" /\ server_pipe' = Kept(FALSE, HasWriter)
    /\ UNCHANGED <<up, sigint, name, fcli, open_sessions, slotV, cpc, fileV, reply, sid, mounts,
                   crashes>>

\* slait_open tries until the pipe of that name has a reader.  It may be the pipe of an
\* attempt that was rejected.
SlaitOpen ==
    /\ Running /\ main = "slait_open" /\ path[name] \in reading[name]
    /\ fcli' = <<name, path[name]>>
    /\ cpc' = IF path[name] = mounts[name] THEN [cpc EXCEPT ![name] = "reply"] ELSE cpc
    /\ main' = "answer"
    /\ UNCHANGED <<up, sigint, name, open_sessions, slotV, server_pipe, fileV, reply, sid, mounts,
                   crashes>>

\* An answer val on pipe p is seen by a client that reads from this pipe.
Answer(p, val) ==
    reply' = [c \in Clients |-> IF p = <<c, mounts[c]>> /\ cpc[c] = "reply" THEN val ELSE reply[c]]

\* Mutant: the client is not told.
MutantReject ==
    /\ Running /\ main = "answer" /\ open_sessions = S
    /\ main' = "read"
    /\ UNCHANGED <<up, sigint, name, fcli, open_sessions, slotV, server_pipe, cpc, fileV, reply,
                   sid, mounts, crashes>>

\* The limit is reached: the client is told so and its pipe closed.
Reject ==
    /\ Running /\ main = "answer" /\ open_sessions = S
    /\ Answer(fcli, "no")
    /\ main' = "read"
    /\ UNCHANGED <<up, sigint, name, fcli, open_sessions, slotV, server_pipe, cpc, fileV, sid,
                   mounts, crashes>>

\* Below it find_free_pos takes global_mutex and looks for a slot.  It takes one, and the
\* mount is posted and counted ...
Accept ==
    /\ Running /\ main = "answer" /\ open_sessions # S
    /\ global_mutex = "free" /\ Cardinality(sessions) < S
    /\ sessions' = sessions \cup {fcli} /\ coming' = coming \cup {fcli}
    /\ open_sessions' = open_sessions + 1
    /\ main' = "read"
    /\ UNCHANGED <<up, sigint, name, fcli, leaving, global_mutex, server_pipe, cpc, fileV, reply,
                   sid, mounts, crashes>>

\* ... or finds none, for the worker of an unmount that has been counted is behind: it
\* returns without an unlock, and the client is told that there is no session.
NoFreePos ==
    /\ Running /\ main = "answer" /\ open_sessions # S
    /\ global_mutex = "free" /\ Cardinality(sessions) >= S
    /\ global_mutex' = "kept"
    /\ Answer(fcli, "no")
    /\ main' = "read"
    /\ UNCHANGED <<up, sigint, name, fcli, open_sessions, sessions, coming, leaving, server_pipe,
                   cpc, fileV, sid, mounts, crashes>>

\* tfs_thread_mount takes global_mutex and answers.
ThreadMount(p) ==
    /\ up /\ p \in coming /\ global_mutex = "free"
    /\ coming' = coming \ {p}
    /\ Answer(p, "yes")
    /\ UNCHANGED <<up, sigint, main, name, fcli, open_sessions, sessions, leaving, global_mutex,
                   server_pipe, cpc, fileV, sid, mounts, crashes>>

\* tfs_thread_unmount takes global_mutex and frees the slot.
ThreadUnmount(p) ==
    /\ up /\ p \in leaving /\ global_mutex = "free"
    /\ leaving' = leaving \ {p} /\ sessions' = sessions \ {p}
    /\ UNCHANGED <<up, sigint, main, name, fcli, open_sessions, coming, global_mutex, server_pipe,
                   cpc, fileV, reply, sid, mounts, crashes>>

\* immortal: SIGINT is ignored from now on, and the user is asked.
Interrupt ==
    /\ up /\ sigint = "immortal"
    /\ sigint' = "asking"
    /\ UNCHANGED <<up, main, name, fcli, open_sessions, slotV, server_pipe, cpc, fileV, reply, sid,
                   mounts, crashes>>

\* The user lets the server go on.  If SIGINT has come upon a read or a second open of the
\* server's pipe that waits, this call fails with EINTR and main ends: Exit.
GoOn ==
    /\ up /\ sigint = "asking"
    /\ sigint' = "ignored"
    /\ UNCHANGED <<up, main, name, fcli, open_sessions, slotV, server_pipe, cpc, fileV, reply, sid,
                   mounts, crashes>>

\* The process ends: the user has said so, main's call was interrupted, or the worker of a
\* session that has been granted ends it (a shutdown, a failed write).
Exit ==
    /\ up
    /\ sigint = "asking" \/ sessions \ coming # {}
    /\ up' = FALSE /\ main' = "gone"
    /\ open_sessions' = 0 /\ sessions' = {} /\ coming' = {} /\ leaving' = {} /\ global_mutex' = "free"
    /\ server_pipe' = Kept(FALSE, HasWriter)
    /\ UNCHANGED <<sigint, name, fcli, cpc, fileV, reply, sid, mounts, crashes>>

(***************************************************************************)
(* The system.                                                             *)
(***************************************************************************)
MainStep ==
    \/ OpenServerPipe \/ ReadMount \/ ReadUnmount \/ UnmountCount \/ Eof \/ CloseServerPipe
    \/ SlaitOpen \/ Reject \/ Accept \/ NoFreePos

WorkerStep(p) == ThreadMount(p) \/ ThreadUnmount(p)

\* Steps of a call that has begun.
ClientStep(c) ==
    \/ MountWrite(c) \/ MakeFifo(c) \/ Receive(c) \/ EndOfFile(c)
    \/ cpc[c] = "write" /\ BrokenPipe(c)

Next ==
    \/ \E c \in Clients : ClientStep(c) \/ MountOpen(c) \/ Unmount(c) \/ BrokenPipe(c) \/ Crash(c)
    \/ \E p \in Pipes : WorkerStep(p)
    \/ MainStep \/ Interrupt \/ GoOn \/ Exit

Spec == Init /\ [][Next]_vars

\* Main, the workers, and clients inside a call, are scheduled.  Nobody has to make another
\* call, to die, to interrupt the server or to answer its question.
FairSpec ==
    /\ Spec
    /\ WF_vars(MainStep)
    /\ \A p \in Pipes : WF_vars(WorkerStep(p))
    /\ \A c \in Clients : WF_vars(ClientStep(c))

(***************************************************************************)
(* Properties.                                                             *)
(***************************************************************************)
Messages == [op : {"MOUNT", "UNMOUNT"}, name : Clients \cup {NoClient}, sid : Pipes \cup {NoPipe}]

TypeOK ==
    /\ up \in BOOLEAN /\ sigint \in {"immortal", "asking", "ignored"}
    /\ main \in {"closed", "opening", "read", "eof", "slait_open", "answer", "unmount_count",
               "gone"}
    /\ name \in Clients \cup {NoClient} /\ fcli \in Pipes \cup {NoPipe}
    /\ server_pipe \in Seq(Messages) /\ open_sessions \in 0 .. S
    /\ sessions \subseteq Pipes /\ coming \subseteq sessions /\ leaving \subseteq sessions
    /\ global_mutex \in {"free", "kept"}
    /\ cpc \in [Clients -> {"out", "opening", "write", "mkfifo", "open", "reply", "in", "rejected",
                            "dead"}]
    /\ fserv \in [Clients -> 0 .. MaxMounts] /\ path \in [Clients -> 0 .. MaxMounts]
    /\ reading \in [Clients -> SUBSET (1 .. MaxMounts)]
    /\ reply \in [Clients -> {"none", "yes", "no"}] /\ sid \in [Clients -> Pipes \cup {NoPipe}]
    /\ mounts \in [Clients -> 0 .. MaxMounts] /\ crashes \in 0 .. MaxCrashes

\* A client with a session, or one that was refused one, keeps the server's pipe open, so
\* main does not meet end of file: while the server runs, no call of theirs falls between
\* main's close and its next open and is killed for it.  Only the write of tfs_mount can.
SessionsReachServer ==
    up => \A c \in Clients :
        cpc[c] \in {"reply", "in", "rejected"}
            => main \in {"read", "slait_open", "answer", "unmount_count"}

\* Messages that are still to be handled.
Pending == (IF main = "slait_open" THEN <<[op |-> "MOUNT", name |-> name, sid |-> NoPipe]>> ELSE <<>>)
           \o server_pipe

\* The client has no pipe of a rejected attempt open.
Fresh(c) == reading[c] \subseteq {mounts[c]}

\* A mount request survives main's close and reopen, also when it is written between end of
\* file and close, and the deaths of other clients: until the server has opened the
\* client's pipe there is exactly one such request.  (After a rejection it may have been
\* spent on the old pipe.)
RequestsKept ==
    \A c \in Clients : up /\ cpc[c] \in {"mkfifo", "open"} /\ Fresh(c) =>
        Cardinality({k \in DOMAIN Pending : Pending[k].op = "MOUNT" /\ Pending[k].name = c}) = 1

\* While the server runs, a client whose tfs_mount has returned 0 has a session there, which
\* no worker is about to end.
MountedHasSession ==
    \A c \in Clients : up /\ cpc[c] = "in" => <<c, mounts[c]>> \in sessions \ leaving

\* The server keeps no session that nobody is about to end and its client cannot end, except
\* those of clients that have died and those given to the pipe of a rejected attempt.
SessionsOwned ==
    \A p \in sessions : LET c == p[1] IN
        \/ p[2] = mounts[c] /\ cpc[c] \in {"reply", "in"}
        \/ \E k \in DOMAIN server_pipe : server_pipe[k].sid = p
        \/ p \in leaving
        \/ cpc[c] = "dead"
        \/ p[2] \in reading[c] \ {mounts[c]}

Mounting(c) == cpc[c] \in {"opening", "write", "mkfifo", "open", "reply"}

\* The request of a client that has died: main tries for ever to open its pipe.
Jammed == \E k \in DOMAIN Pending : Pending[k].op = "MOUNT" /\ cpc[Pending[k].name] = "dead"

\* A mount is over, or its client or the server has ended, or one of two things keeps main
\* for ever: the request of a dead client, and global_mutex, which a find_free_pos has kept
\* that found no slot because the worker of an unmount was behind.
Settled(c) ==
    cpc[c] \in {"in", "rejected", "dead"} \/ ~up \/ Jammed \/ global_mutex = "kept"

\* A tfs_mount with no rejection before it returns, whatever main does with its pipe and
\* whoever comes and goes, but for the exceptions of Settled.
MountReturns ==
    []<>(sigint # "asking") => \A c \in Clients : (Mounting(c) /\ Fresh(c)) ~> Settled(c)
=============================================================================
