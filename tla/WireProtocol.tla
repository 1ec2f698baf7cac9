---------------------------- MODULE WireProtocol ----------------------------
(***************************************************************************)
(* The bytes between client/tecnicofs_client_api.c and fs/tfs_server.c:    *)
(* how the library lays out a request, how main finds its fields in the    *)
(* stream of all clients' requests, and how the library reads an answer.   *)
(*                                                                         *)
(* A write to a pipe of at most PIPE_BUF bytes is one step, and so is each *)
(* read.  Nothing separates two messages: main relies on the lengths.      *)
(* Main posts a request in one step, with the count of the sessions, and   *)
(* its worker performs and answers it in another; TfsServer has the steps  *)
(* in between, and the shutdown.                                           *)
(***************************************************************************)
EXTENDS Integers, Sequences, FiniteSets, FiniteSetsExt

CONSTANTS
    Clients,      \* client processes, each the byte its pipe's name begins with
    NoClient,     \* no client
    S,            \* the session limit
    INT_SIZE,     \* sizeof(int)
    NAME_SIZE,    \* bytes of a name in a message
    SIZE,         \* the server's buffers
    Name,         \* file names, each a byte
    Flags,        \* flags of tfs_open
    Handle,       \* handles the clients use, besides -1
    Texts,        \* what clients write and files hold, sequences of bytes
    ReadLens,     \* lengths of tfs_read
    Stale,        \* what memory holds behind each name
    MaxCalls      \* bound: calls made, tfs_mount included

\* Characters: a digit is itself.
NUL    == 10
MINUS  == 11
Letter == Clients \cup Name
Byte   == 0 .. MINUS \cup Letter

ASSUME LetterAssumption == Clients \cap Name = {} /\ \A b \in Letter : b > MINUS
ASSUME ByteAssumption   == Letter \subseteq Nat /\ NoClient \notin Letter
ASSUME SizeAssumption   == INT_SIZE \in Nat /\ INT_SIZE > 2 /\ NAME_SIZE \in Nat /\ NAME_SIZE > 1
                           /\ SIZE \in Nat /\ S \in 1 .. 10 /\ MaxCalls \in Nat
ASSUME StaleAssumption  == /\ Stale \in [Letter -> Seq(Byte)]
                           /\ \A b \in Letter : Len(Stale[b]) = NAME_SIZE - 2
ASSUME FlagsAssumption  == Flags \subseteq 0 .. 7
\* Handles are indices of the open file table, which has 20 entries.
ASSUME HandleAssumption == Handle \subseteq 0 .. 99
\* Texts are any bytes, those of a request or of a negative number too.  Above SIZE a text
\* does not fit main's buffer.  Below INT_SIZE tfs_write leaves a part of the answer in the
\* pipe: later calls no longer wait for theirs.
ASSUME TextAssumption   == Texts \subseteq Seq(Byte) /\ \A t \in Texts : Len(t) \in INT_SIZE .. SIZE
ASSUME LenAssumption    == ReadLens \subseteq Nat

Slots == 0 .. S - 1

(***************************************************************************)
(* Numbers and names as bytes.                                             *)
(***************************************************************************)
Bytes(n, b) == [k \in 1 .. n |-> b]

Digits[n \in Nat] == IF n < 10 THEN <<n>> ELSE Append(Digits[n \div 10], n % 10)

\* The length of a write, at most SIZE, is followed by a NUL in its field: main's buffer is
\* not zeroed.
ASSUME DigitsAssumption == Len(Digits[SIZE]) < INT_SIZE

\* sprintf of %d or %ld.
Sprintf(n) == IF n < 0 THEN <<MINUS>> \o Digits[-n] ELSE Digits[n]

\* Mutant: the string is not zeroed first.
MutantField(n) == SubSeq(Sprintf(n) \o Bytes(INT_SIZE, 2), 1, INT_SIZE)

\* A number copied into a message: sizeof(int) bytes of the zeroed string, so a longer
\* number is cut.
Field(n) == SubSeq(Sprintf(n) \o Bytes(INT_SIZE, NUL), 1, INT_SIZE)

\* The string in b ends at the first NUL.
CString(b) == SubSeq(b, 1, CHOOSE n \in 0 .. Len(b) :
                             /\ \A k \in 1 .. n : b[k] # NUL
                             /\ n < Len(b) => b[n + 1] = NUL)

\* How many digits s begins with, and the number the first k of them make.
Leading(s) == CHOOSE k \in 0 .. Len(s) : /\ \A j \in 1 .. k : s[j] \in 0 .. 9
                                         /\ k < Len(s) => s[k + 1] \notin 0 .. 9
Number(s, k) ==
    LET sum[j \in Nat] == IF j = 0 THEN 0 ELSE 10 * sum[j - 1] + s[j] IN sum[k]

\* atoi: the number the string begins with; 0 when it begins with none.
Atoi(b) ==
    LET signed == b # <<>> /\ b[1] = MINUS
        s == IF signed THEN Tail(b) ELSE b
        v == Number(s, Leading(s))
    IN  IF signed THEN -v ELSE v

\* The library copies NAME_SIZE bytes whatever the length of the name; what follows the
\* name's NUL is whatever memory holds.
NameField(b) == <<b, NUL>> \o Stale[b]

OpCode == [MOUNT |-> 1, UNMOUNT |-> 2, OPEN |-> 3, CLOSE |-> 4, WRITE |-> 5, READ |-> 6]
Ops    == DOMAIN OpCode
OpOf(n) == IF \E op \in Ops : OpCode[op] = n THEN CHOOSE op \in Ops : OpCode[op] = n ELSE "none"

VARIABLES
    server_pipe,    \* bytes in the server's pipe
    op, fields,     \* what main is handling, and the fields it has read of it
    buffer,         \* bytes of the field that main's slait is reading
    fhandler,       \* sessions[i].fhandler: the client of slot i
    free_sessions,  \* the slots that are FREE_POS
    open_sessions,  \* main's count of the sessions
    global_mutex,   \* "free" between steps, "kept" by a find_free_pos that failed, or then
                    \* "awaited" by main
    request,        \* slaves[i].request, empty unless wake_up is set
    cpc,            \* where each client is
    session_id,
    inbox,          \* bytes in each client's pipe
    got,            \* bytes the library's slait has read
    calls,          \* what is left of MaxCalls
    \* History: the call under way, what was performed and answered for it, what the last
    \* call returned (RemoteCalls), and whether main has left bytes of a message behind.
    call, done, answer, returned, spoilt

mainV    == <<op, fields, buffer>>
tableV   == <<free_sessions, open_sessions, global_mutex>>
clientV  == <<cpc, session_id, got, calls, call, returned>>
historyV == <<done, answer>>
vars == <<server_pipe, mainV, fhandler, tableV, request, clientV, inbox, historyV, spoilt>>

NoRequest == [op |-> "none", fhandle |-> -1, len |-> 0, name |-> <<>>, flags |-> 0, to_write |-> <<>>]

Init ==
    /\ server_pipe = <<>> /\ op = "none" /\ fields = <<>> /\ buffer = <<>>
    /\ fhandler = [i \in Slots |-> NoClient]
    /\ free_sessions = Slots /\ open_sessions = 0 /\ global_mutex = "free"
    /\ request = [i \in Slots |-> <<>>]
    /\ cpc = [c \in Clients |-> "out"]
    /\ session_id = [c \in Clients |-> -1]
    /\ inbox = [c \in Clients |-> <<>>] /\ got = inbox
    /\ calls = MaxCalls
    /\ call = inbox /\ done = inbox /\ answer = inbox /\ returned = inbox
    /\ spoilt = FALSE

(***************************************************************************)
(* The library: each call writes its message and waits.                    *)
(***************************************************************************)
Call(c, r, msg) ==
    /\ calls > 0
    /\ calls' = calls - 1
    /\ server_pipe' = server_pipe \o <<OpCode[r.op]>> \o msg
    /\ cpc' = [cpc EXCEPT ![c] = "answer"]
    /\ call' = [call EXCEPT ![c] = <<r>>]
    /\ returned' = [returned EXCEPT ![c] = <<>>]
    /\ UNCHANGED <<mainV, fhandler, tableV, request, session_id, got, historyV, spoilt>>

\* tfs_mount: the answers come through a new pipe.
Mount(c) ==
    /\ cpc[c] = "out"
    /\ Call(c, [NoRequest EXCEPT !.op = "MOUNT", !.name = <<c>>], NameField(c))
    /\ inbox' = [inbox EXCEPT ![c] = <<>>]

OnSession(c, r, msg) ==
    /\ cpc[c] = "in"
    /\ Call(c, r, Field(session_id[c]) \o msg)
    /\ UNCHANGED inbox

Open(c) ==
    \E n \in Name, f \in Flags :
        OnSession(c, [NoRequest EXCEPT !.op = "OPEN", !.name = <<n>>, !.flags = f],
                  NameField(n) \o <<f>>)

Close(c) ==
    \E h \in Handle \cup {-1} :
        OnSession(c, [NoRequest EXCEPT !.op = "CLOSE", !.fhandle = h], Field(h))

Write(c) ==
    \E h \in Handle \cup {-1}, t \in Texts :
        OnSession(c, [NoRequest EXCEPT !.op = "WRITE", !.fhandle = h, !.len = Len(t), !.to_write = t],
                  Field(h) \o Field(Len(t)) \o t)

Read(c) ==
    \E h \in Handle \cup {-1}, n \in ReadLens :
        OnSession(c, [NoRequest EXCEPT !.op = "READ", !.fhandle = h, !.len = n],
                  Field(h) \o Field(n))

\* tfs_unmount does not wait for anything.
Unmount(c) ==
    /\ cpc[c] = "in"
    /\ server_pipe' = server_pipe \o <<OpCode["UNMOUNT"]>> \o Field(session_id[c])
    /\ cpc' = [cpc EXCEPT ![c] = "out"]
    /\ UNCHANGED <<mainV, fhandler, tableV, request, session_id, got, calls, call, returned, inbox,
                   historyV, spoilt>>

\* Mutant: tfs_read waits for all the bytes it has asked for.
MutantWant(c) ==
    CASE cpc[c] = "data" -> call[c][1].len
      [] cpc[c] = "answer" /\ call[c][1].op = "WRITE" -> call[c][1].len
      [] OTHER -> INT_SIZE

\* The bytes slait asks for: tfs_write asks for as many as it has written, tfs_read for
\* the count and then for as many as the count says.
Want(c) ==
    CASE cpc[c] = "data" -> Atoi(SubSeq(got[c], 1, INT_SIZE))
      [] cpc[c] = "answer" /\ call[c][1].op = "WRITE" -> call[c][1].len
      [] OTHER -> INT_SIZE

\* What slait has read so far of them.
Have(c) == IF cpc[c] = "data" THEN Len(got[c]) - INT_SIZE ELSE Len(got[c])

\* One read() of slait: each asks for the full length again.
Receive(c) ==
    /\ cpc[c] \in {"answer", "data"} /\ Have(c) < Want(c)
    /\ inbox[c] # <<>>
    /\ LET n == Min({Want(c), Len(inbox[c])})
       IN  /\ got' = [got EXCEPT ![c] = @ \o SubSeq(inbox[c], 1, n)]
           /\ inbox' = [inbox EXCEPT ![c] = SubSeq(@, n + 1, Len(@))]
    /\ UNCHANGED <<server_pipe, mainV, fhandler, tableV, request, cpc, session_id, calls, call, returned,
                   historyV, spoilt>>

\* tfs_read has the count and goes on to the data.
ReceiveData(c) ==
    /\ cpc[c] = "answer" /\ call[c][1].op = "READ" /\ Have(c) >= Want(c)
    /\ Atoi(got[c]) >= 0
    /\ cpc' = [cpc EXCEPT ![c] = "data"]
    /\ UNCHANGED <<server_pipe, mainV, fhandler, tableV, request, session_id, got, calls, call, returned,
                   inbox, historyV, spoilt>>

\* A call returns the number it has read, tfs_read with the data.
Return(c) ==
    /\ cpc[c] \in {"answer", "data"} /\ Have(c) >= Want(c)
    /\ cpc[c] = "answer" /\ call[c][1].op = "READ" => Atoi(got[c]) < 0
    /\ LET r    == call[c][1]
           val  == Atoi(IF r.op = "READ" THEN SubSeq(got[c], 1, INT_SIZE) ELSE got[c])
           data == IF r.op = "READ" THEN SubSeq(got[c], INT_SIZE + 1, Len(got[c])) ELSE <<>>
       IN  /\ returned' = [returned EXCEPT ![c] = <<[val |-> val, data |-> data]>>]
           /\ session_id' = IF r.op = "MOUNT" THEN [session_id EXCEPT ![c] = val] ELSE session_id
           /\ cpc' = [cpc EXCEPT ![c] = IF r.op = "MOUNT" /\ val < 0 THEN "out" ELSE "in"]
    /\ call' = [call EXCEPT ![c] = <<>>]
    /\ got' = [got EXCEPT ![c] = <<>>]
    /\ done' = [done EXCEPT ![c] = <<>>]
    /\ answer' = [answer EXCEPT ![c] = <<>>]
    /\ UNCHANGED <<server_pipe, mainV, fhandler, tableV, request, calls, inbox, spoilt>>

(***************************************************************************)
(* The server.                                                             *)
(***************************************************************************)
\* Client c is answered the number val and the bytes data; the history notes what was
\* performed for it.
Answer(c, performed, val, data) ==
    /\ inbox' = [inbox EXCEPT ![c] = @ \o Field(val) \o data]
    /\ done' = [done EXCEPT ![c] = Append(@, performed)]
    /\ answer' = [answer EXCEPT ![c] = Append(@, [val |-> val, data |-> data])]

\* The client of slot i is answered, if there is one: EBADF.
Reply(i, performed, val, data) ==
    IF fhandler[i] = NoClient
    THEN UNCHANGED <<inbox, historyV>>
    ELSE Answer(fhandler[i], performed, val, data)

\* Mutant: the flags of an open are taken for an int.
MutantLayout ==
    CASE op = "MOUNT"   -> <<NAME_SIZE>>
      [] op = "UNMOUNT" -> <<INT_SIZE>>
      [] op = "OPEN"    -> <<INT_SIZE + NAME_SIZE + INT_SIZE>>
      [] op = "CLOSE"   -> <<INT_SIZE, INT_SIZE>>
      [] op = "READ"    -> <<INT_SIZE, INT_SIZE, INT_SIZE>>
      [] op = "WRITE"   -> <<INT_SIZE, INT_SIZE, INT_SIZE>>
                           \o (IF Len(fields) < 3 THEN <<>> ELSE <<Atoi(fields[3])>>)

\* The lengths a handler passes to slait, one after the other.
Layout ==
    CASE op = "MOUNT"   -> <<NAME_SIZE>>
      [] op = "UNMOUNT" -> <<INT_SIZE>>
      [] op = "OPEN"    -> <<INT_SIZE + NAME_SIZE + 1>>
      [] op = "CLOSE"   -> <<INT_SIZE, INT_SIZE>>
      [] op = "READ"    -> <<INT_SIZE, INT_SIZE, INT_SIZE>>
      [] op = "WRITE"   -> <<INT_SIZE, INT_SIZE, INT_SIZE>>
                           \o (IF Len(fields) < 3 THEN <<>> ELSE <<Atoi(fields[3])>>)

\* Mutant: the handle is not looked at.
MutantBadHandle == FALSE

\* The handlers of close, read and write look at the handle before they read on.
BadHandle == op \in {"CLOSE", "READ", "WRITE"} /\ Len(fields) = 2 /\ Atoi(fields[2]) = -1

\* The handler has read all it reads; a text of no bytes is read at once.
Parsed ==
    \/ Len(fields) >= Len(Layout)
    \/ op = "WRITE" /\ Len(fields) = 3 /\ Layout[4] <= 0

\* One read() of slait, in main; a field is complete when slait returns.
MainRead ==
    /\ op # "none" /\ ~BadHandle /\ ~Parsed
    /\ server_pipe # <<>>
    /\ LET want == Layout[Len(fields) + 1]
           n    == Min({want, Len(server_pipe)})
           b    == buffer \o SubSeq(server_pipe, 1, n)
       IN  /\ server_pipe' = SubSeq(server_pipe, n + 1, Len(server_pipe))
           /\ IF Len(b) >= want
              THEN buffer' = <<>> /\ fields' = Append(fields, b)
              ELSE buffer' = b /\ UNCHANGED fields
    /\ UNCHANGED <<op, fhandler, tableV, request, clientV, inbox, historyV, spoilt>>

\* The main loop reads a byte and switches on it; one that is no op code is skipped.
Command ==
    /\ op = "none" /\ global_mutex # "awaited" /\ server_pipe # <<>>
    /\ server_pipe' = Tail(server_pipe)
    /\ op' = OpOf(Atoi(<<Head(server_pipe)>>))
    /\ UNCHANGED <<fields, buffer, fhandler, tableV, request, clientV, inbox, historyV, spoilt>>

\* The handler of o returns to the main loop.
Handled(o) ==
    /\ op = o
    /\ op' = "none" /\ fields' = <<>> /\ UNCHANGED <<server_pipe, buffer, clientV>>

\* The fields an operation has no use for stay as they were; its worker does not read them.
Post(i, r) == i \in Slots /\ request' = [request EXCEPT ![i] = <<r>>]

MountOf(c) == [NoRequest EXCEPT !.op = "MOUNT", !.name = <<c>>]

\* tfs_handle_mount opens the client's pipe; a name nobody has made a pipe of keeps main in
\* slait_open.  At the limit the client is refused.  Below it find_free_pos takes
\* global_mutex and the first free slot, whose worker gets the pipe; or, when an unmount
\* has been counted and its slot is not free yet, it returns without an unlock.
HandleMount ==
    /\ Handled("MOUNT") /\ Parsed
    /\ \E c \in Clients :
          /\ CString(fields[1]) = <<c>> /\ cpc[c] = "answer" /\ call[c][1].op = "MOUNT"
          /\ \/ /\ open_sessions = S
                /\ Answer(c, MountOf(c), -1, <<>>)
                /\ UNCHANGED <<request, tableV>>
             \/ /\ open_sessions # S /\ global_mutex = "free" /\ free_sessions = {}
                /\ Answer(c, MountOf(c), -1, <<>>)
                /\ global_mutex' = "kept"
                /\ UNCHANGED <<request, free_sessions, open_sessions>>
             \/ /\ open_sessions # S /\ global_mutex = "free" /\ free_sessions # {}
                /\ Post(Min(free_sessions), MountOf(c))
                /\ free_sessions' = free_sessions \ {Min(free_sessions)}
                /\ open_sessions' = open_sessions + 1
                /\ UNCHANGED <<global_mutex, inbox, historyV>>
    /\ UNCHANGED <<fhandler, spoilt>>

\* tfs_handle_unmount posts the request and counts it, for which it takes global_mutex.
HandleUnmount ==
    /\ Handled("UNMOUNT") /\ Parsed
    /\ LET i == Atoi(fields[1])
       IN  IF open_sessions = 0 \/ i = -1
           THEN UNCHANGED <<request, tableV>>
           ELSE /\ Post(i, [NoRequest EXCEPT !.op = "UNMOUNT"])
                /\ IF global_mutex = "free"
                   THEN open_sessions' = open_sessions - 1 /\ UNCHANGED global_mutex
                   ELSE global_mutex' = "awaited" /\ UNCHANGED open_sessions
                /\ UNCHANGED free_sessions
    /\ UNCHANGED <<fhandler, inbox, historyV, spoilt>>

HandleOpen ==
    /\ Handled("OPEN") /\ Parsed
    /\ LET m == fields[1]
           i == Atoi(SubSeq(m, 1, INT_SIZE))
       IN  Post(i, [NoRequest EXCEPT !.op = "OPEN",
                    !.name = CString(SubSeq(m, INT_SIZE + 1, INT_SIZE + NAME_SIZE)),
                    !.flags = Atoi(SubSeq(m, INT_SIZE + NAME_SIZE + 1, Len(m)))])
    /\ UNCHANGED <<fhandler, tableV, inbox, historyV, spoilt>>

HandleClose ==
    /\ Handled("CLOSE") /\ Parsed /\ ~BadHandle
    /\ LET i == Atoi(fields[1])
       IN  Post(i, [NoRequest EXCEPT !.op = "CLOSE", !.fhandle = Atoi(fields[2])])
    /\ UNCHANGED <<fhandler, tableV, inbox, historyV, spoilt>>

HandleRead ==
    /\ Handled("READ") /\ Parsed
    /\ LET i == Atoi(fields[1])
           n == Atoi(fields[3])
       IN  /\ n >= 0    \* the worker ends at an array of (size_t) n bytes
           /\ Post(i, [NoRequest EXCEPT !.op = "READ", !.fhandle = Atoi(fields[2]), !.len = n])
    /\ UNCHANGED <<fhandler, tableV, inbox, historyV, spoilt>>

HandleWrite ==
    /\ Handled("WRITE") /\ Parsed
    /\ LET i == Atoi(fields[1])
           n == Atoi(fields[3])
       IN  /\ n >= 0
           /\ Post(i, [NoRequest EXCEPT !.op = "WRITE", !.fhandle = Atoi(fields[2]), !.len = n,
                       !.to_write = IF n = 0 THEN <<>> ELSE SubSeq(fields[4], 1, n)])
    /\ UNCHANGED <<fhandler, tableV, inbox, historyV, spoilt>>

\* main answers a handle of -1 itself and returns.  For a read or a write the rest of the
\* message is still in the pipe.
HandleBadHandle ==
    /\ BadHandle
    /\ Handled(op)
    /\ LET i == Atoi(fields[1])
       IN  i \in Slots /\ Reply(i, [NoRequest EXCEPT !.op = op], Atoi(fields[2]), <<>>)
    /\ spoilt' = (spoilt \/ op # "CLOSE")
    /\ UNCHANGED <<fhandler, tableV, request>>

\* The worker of slot i performs its request, with the result val and data, and answers.
Solve(i, o, val, data) ==
    /\ request[i] # <<>> /\ request[i][1].op = o
    /\ request' = [request EXCEPT ![i] = <<>>]
    /\ Reply(i, request[i][1], val, data)
    /\ UNCHANGED <<server_pipe, mainV, fhandler, tableV, clientV, spoilt>>

ThreadOpen(i)  == \E h \in Handle \cup {-1} : Solve(i, "OPEN", h, <<>>)
ThreadClose(i) == \E v \in {0, -1} : Solve(i, "CLOSE", v, <<>>)

\* A write may be cut at the end of the block; one that fails ends the server (TfsServer).
ThreadWrite(i) ==
    request[i] # <<>> /\ \E n \in 0 .. request[i][1].len : Solve(i, "WRITE", n, <<>>)

ThreadRead(i) ==
    /\ request[i] # <<>>
    /\ \/ Solve(i, "READ", -1, <<>>)
       \/ \E t \in Texts \cup {<<>>} :
              LET n == Min({request[i][1].len, Len(t)}) IN Solve(i, "READ", n, SubSeq(t, 1, n))

\* tfs_thread_mount takes global_mutex, gives the session its client, and answers.
ThreadMount(i) ==
    /\ global_mutex = "free"
    /\ request[i] # <<>> /\ request[i][1].op = "MOUNT"
    /\ \E c \in Clients :
          /\ request[i][1].name = <<c>>
          /\ fhandler' = [fhandler EXCEPT ![i] = c]
          /\ Answer(c, request[i][1], i, <<>>)
    /\ request' = [request EXCEPT ![i] = <<>>]
    /\ UNCHANGED <<server_pipe, mainV, tableV, clientV, spoilt>>

\* tfs_thread_unmount closes the client's pipe, or ends the server if there is none.  Then
\* it takes global_mutex, if it gets it, and frees the slot.
ThreadUnmount(i) ==
    /\ request[i] # <<>> /\ request[i][1].op = "UNMOUNT"
    /\ fhandler[i] # NoClient
    /\ fhandler' = [fhandler EXCEPT ![i] = NoClient]
    /\ IF global_mutex = "free"
       THEN /\ free_sessions' = free_sessions \cup {i}
            /\ request' = [request EXCEPT ![i] = <<>>]
       ELSE UNCHANGED <<free_sessions, request>>
    /\ UNCHANGED <<server_pipe, mainV, open_sessions, global_mutex, clientV, inbox, historyV, spoilt>>

(***************************************************************************)
(* The system.                                                             *)
(***************************************************************************)
MainStep ==
    \/ MainRead \/ Command \/ HandleMount \/ HandleUnmount \/ HandleOpen \/ HandleClose
    \/ HandleRead \/ HandleWrite \/ HandleBadHandle

WorkerStep(i) ==
    \/ ThreadMount(i) \/ ThreadUnmount(i) \/ ThreadOpen(i) \/ ThreadClose(i) \/ ThreadWrite(i)
    \/ ThreadRead(i)

ClientStep(c) == Receive(c) \/ ReceiveData(c) \/ Return(c)

NewCall(c) == Mount(c) \/ Open(c) \/ Close(c) \/ Write(c) \/ Read(c) \/ Unmount(c)

Next ==
    \/ \E c \in Clients : NewCall(c) \/ ClientStep(c)
    \/ MainStep
    \/ \E i \in Slots : WorkerStep(i)

Spec == Init /\ [][Next]_vars

\* Threads, and clients inside a call, are scheduled; nobody has to make another call.
FairSpec ==
    /\ Spec
    /\ WF_vars(MainStep)
    /\ \A i \in Slots : WF_vars(WorkerStep(i))
    /\ \A c \in Clients : WF_vars(ClientStep(c))

(***************************************************************************)
(* Properties.                                                             *)
(***************************************************************************)
RequestType(r) ==
    /\ DOMAIN r = DOMAIN NoRequest
    /\ r.op \in Ops /\ r.fhandle \in Int /\ (r.op \in {"CLOSE", "READ", "WRITE"} => r.fhandle # -1)
    /\ r.len \in Nat /\ r.name \in Seq(Byte) /\ r.flags \in Int /\ r.to_write \in Seq(Byte)

\* A worker is not given the handle -1, whatever main takes for a message: the workers' own
\* tests of it, after which they send an uninitialized buffer, are never needed.
TypeOK ==
    /\ server_pipe \in Seq(Byte)
    /\ op \in Ops \cup {"none"} /\ fields \in Seq(Seq(Byte)) /\ buffer \in Seq(Byte)
    /\ fhandler \in [Slots -> Clients \cup {NoClient}]
    /\ free_sessions \subseteq Slots /\ open_sessions \in 0 .. S
    /\ global_mutex \in {"free", "kept", "awaited"}
    /\ \A i \in Slots : request[i] = <<>> \/ RequestType(request[i][1])
    /\ cpc \in [Clients -> {"out", "in", "answer", "data"}]
    /\ session_id \in [Clients -> Int]
    /\ inbox \in [Clients -> Seq(Byte)] /\ got \in [Clients -> Seq(Byte)]
    /\ calls \in 0 .. MaxCalls /\ spoilt \in BOOLEAN

Contract == INSTANCE RemoteCalls WITH Access <- {"READ", "WRITE"}, void <- spoilt

\* The requests of all clients share one stream without separators, and text, names and
\* what follows them may look like op codes.  Still the server performs each call once and
\* with its own arguments, and the call returns the server's answer to it, until a client
\* reads or writes through -1 and main leaves a part of that message in the stream.
ImplementsRemoteCalls == Contract!Spec

\* A tfs_write that waits for more bytes than an answer has.
LongWrite(c) == call[c] # <<>> /\ call[c][1].op = "WRITE" /\ call[c][1].len > INT_SIZE

\* slait asks for the full length again after a short read, and would then take bytes of
\* the next message.  Neither side ever meets a short read: main never waits in the middle
\* of a message, and a client finds its whole answer, unless its tfs_write waits for more.
NoShortReads ==
    ~spoilt =>
        /\ buffer = <<>>
        /\ op # "none" => Parsed \/ BadHandle \/ server_pipe # <<>>
        /\ \A c \in Clients :
              /\ cpc[c] \in {"answer", "data"} /\ Have(c) \notin {0, Want(c)} => LongWrite(c)
              /\ cpc[c] = "data" /\ Have(c) < Want(c) => inbox[c] # <<>>

\* A client whose tfs_write waits for ever holds up nobody else: every other call returns,
\* unless a mount has overtaken the worker of an unmount, and find_free_pos has returned
\* without an unlock of global_mutex.
PlainCallsReturn ==
    \A c \in Clients :
        (call[c] # <<>> /\ ~LongWrite(c)) ~> (call[c] = <<>> \/ spoilt \/ global_mutex # "free")

\* tecnicofs_client_api.h, of tfs_write: "Returns the number of bytes that were written".
\* Every tfs_write returns.
WritesReturn ==
    \A c \in Clients : (call[c] # <<>> /\ call[c][1].op = "WRITE") ~> (call[c] = <<>> \/ spoilt)
=============================================================================
