# TecnicoFS server and clients: TLA+ models, checks and proofs

TecnicoFS is a small in-memory file system (`fs/operations.c`, `fs/state.c`) behind a server
process (`fs/tfs_server.c`) that client processes reach through named pipes with a library
(`client/tecnicofs_client_api.c`). All paths below are under `src/tecnicofs_ex2/`.

## The system

| Part | State | Operations | Talks to |
|---|---|---|---|
| State (`fs/state.c` and the unsynchronized bodies in `fs/operations.c`) | i-node table, blocks, root directory, open file table | open, close, write, read on the tables | called under `single_global_lock` |
| Operations (`fs/operations.c`) | two mutexes, a condition variable, `called_destroy`, `open_files` | `tfs_open`, `tfs_close`, `tfs_read`, `tfs_write`, `tfs_lookup`, `tfs_destroy_after_all_closed` | called by the worker threads |
| Server main thread (`main`, `tfs_handle_*`) | `open_sessions`, `free_sessions`, the request pipe | reads a message, answers it or posts it to the worker of the session | one `slave_mutex`, `wake_up` and request for each worker |
| Server workers (`solve_request`, `tfs_thread_*`) | `sessions[i]`, their request | perform the request, answer on the client's pipe | the file system, `global_mutex` |
| Client library | `session_id`, two descriptors | mount, unmount, open, close, read, write, shutdown | the server's pipe and a pipe of its own |
| SIGINT handler (`immortal`) | the disposition of SIGINT | asks on the terminal, ends the server or lets it go on | suspends the main thread |
| Counter thread, `erase_client`, `handle_error` | a statistic; dead code | | nothing depends on them |

What is hard here: workers run file system calls in parallel while one of them waits in a shutdown;
`open_files` decides about that shutdown; sessions are counted by main and freed by workers; a
request is read outside the lock it was posted under; the server exits while clients wait; a client
retries a mount it has been refused, or dies; main closes and reopens the pipe all clients write to;
the bytes of their requests follow each other without separators; tables run full in the middle of a
call; names are cut; unsigned lengths wrap around. `PROJECT.json` lists each of these hazards at its
line.

What makes each part correct:

* State: blocks are neither leaked nor shared, entries and i-nodes match, a name goes on leading
  to its file, offsets stay inside files, and together they behave like plain files.
* Operations: a shutdown returns exactly when nothing is open, the counter is exact, no lock or
  handle leaks, nobody deadlocks.
* Server: sessions are kept apart, requests and answers are not mixed up, a handle stays with
  its owner, every call is answered, the server exits only with nothing open.
* Client: the server performs each call once, as it was made, and the call returns the server's
  answer to it; a client with a session can reach the server.

## Modules

```
ShutdownGate   <--refined by--  FsOperations      FsOperationsProofs, MCFsOperations
     ^--- instantiated by ----  TfsServer         TfsServerProofs, MCTfsServer
FileStore      <--refined by--  FsState           FsStateProofs, FileStoreProofs, MCFsState
RemoteCalls    <--refined by--  WireProtocol      WireFieldLemmas, WireProtocolProofs, MCWireProtocol
                                MountPipes        MountPipesProofs, MCMountPipes
```

PipeLemmas has the facts about queues that the proofs of TfsServer and MountPipes share,
WireFieldLemmas those about numbers and names in messages that WireProtocol's proofs use.

**FsOperations** (`fs/operations.c`). One step for each lock, unlock, load and store; a label in
`pc` for each place between them. `held` and `destroyed` are history variables. The bodies that
work on the tables show only as success (`OpenTable`) or failure (`OpenFail`). A mutex of the
default kind does not check who unlocks it, so `Release` frees it whoever holds it: that is what
makes the failing path of `tfs_close` (`CloseNotOpen` and after) visible. `BadClose` says whether
callers may close handles that are not open; the server forwards whatever a client sends, so
both values matter. Failures of the pthread calls are left out.

**ShutdownGate** is what the three calls promise together: files open and close until a shutdown
is asked for, then they only close, and the file system goes down when none is open.

**TfsServer** (`fs/tfs_server.c` and the client library). `server_pipe` is the queue of requests;
`main`, `worker` and `cpc` are the places of the main thread, the workers and the clients. A
critical section of a `slave_mutex` is one step (`Post`, `Take`); the request is read in a step
of its own (`Switch`) because the code reads it after the unlock. `global_mutex` has a holder
because `find_free_pos` can return without unlocking it. The pipe a client makes for a mount is
`<<client, mounts left>>`, so that an answer on the pipe of an earlier mount is told apart. The
file system is an instance of ShutdownGate: each call is one step, which `GateRefined` below
justifies. Clients are sequential, use sessions and handles they were given, and close -1 when an
open failed. A file they leave open at unmount stays open, as in the code.

TfsServer, WireProtocol and MountPipes are three views of the same two programs. TfsServer has the
threads and their locks, and takes messages as whole and pipes as always open. WireProtocol has
the bytes, MountPipes the pipes' descriptors and processes that end. Both let a worker take its
request, perform and answer it in one step, which `RequestsStable` and `AnswersMatchCalls` of
TfsServer justify, but for an unmount that has to wait for `global_mutex`. What main counts
(`open_sessions`) and what the workers free (`free_sessions`, `sessions`) are two variables changed
at different times in all three, so a mount can overtake the worker of an unmount and
`find_free_pos` can return with `global_mutex` locked.

**WireProtocol** (the messages of `tecnicofs_client_api.c` and `tfs_handle_*`, `tfs_thread_*`).
`server_pipe` and `inbox` are sequences of bytes: digits, NUL, '-' and letters. `free_sessions`,
`open_sessions` and `global_mutex` are the code's; a mount or an unmount is posted and counted by
main (`HandleMount`, `HandleUnmount`), answered or freed by the worker (`ThreadMount`,
`ThreadUnmount`). `Field` is what a number becomes in a message (sprintf, cut to `sizeof(int)`
bytes), `Atoi` what it becomes again. `Layout` gives the lengths a handler passes to `slait`;
`Receive` and `MainRead` are single `read()` calls, which ask for the full length again each time,
as `slait` does. Names carry what follows them in memory. A text is any sequence of bytes; in the
runs one consists of bytes that would do as op codes, so a reader that loses its place is sure to go
wrong; another text closes the handle -5 on session 0. `call`, `done`, `answer`, `returned` record
what the contract is about. Byte 7, the shutdown's op code, does not occur (TfsServer has the
shutdown). For a read or a write through -1 main answers early and leaves the rest of the message in
the pipe; `spoilt` notes this, and from there on steps that would index a table out of its bounds or
end the server (a read of a negative length, from which a worker makes an array) are left out. After
a failed `tfs_open` the handle is -1, so a client gets there easily, and what it has left behind may
reach a worker as a call on any other negative handle, which the file system does not accept. A
write may return less than its length, as at the end of a block.

**RemoteCalls** is the contract: a call is made, performed once with its own arguments (a read of
10000 bytes or more may be cut, its length having four characters in the message), and returns
the answer that was given to it, until somebody reads or writes through -1.

**MountPipes** (`main`, `slait_open`, `tfs_handle_mount`, `immortal`; `tfs_mount`, `tfs_unmount`).
The two kinds of named pipes as the system has them: an open waits for the other side, a read of an
empty pipe without writers meets end of file, a write without readers kills a client, a pipe nobody
has open loses its contents, and `mkfifo` gives the name to a new pipe while the old one lives on.
`sessions` are the pipes with a slot, `coming` and `leaving` those whose worker has a mount or an
unmount; `Accept`, `Reject` and `NoFreePos` are the three outcomes of a mount: a slot, the limit,
and no slot below the limit, after which `global_mutex` stays locked (`"kept"`). `fserv[c]` counts
the client's descriptors of the server's pipe, which a refused mount leaves open; `reading[c]` are
the client's own pipes, one for each mount. Clients die at any point; the server exits when the user
says so or a worker ends it. The handler of SIGINT holds up main until the user answers. The program
is built with `-std=c11 -D_POSIX_C_SOURCE`, where `signal` does not restart a call: SIGINT in a
blocked read or reopen of the pipe ends main with EINTR even if the user lets the server go on.
`Exit` covers that end, `GoOn` the other places.

**FsState** (`fs/state.c`, the `_unsynchronized` functions). A call is one step since
`single_global_lock` is held throughout (`MutualExclusion`). Every scan takes the first entry
(`First`); a successful and each failing way through a call is an action. The directory's block is
held as `d_inumber` and `d_name`. Lengths are computed modulo `SIZE_T` where the code subtracts
unsigned. Reads and writes that would leave the block, and handles that were never opened, are
left out. `SharedTruncate` and `StaleHandles` say what callers may do. Names in `LongName` are
stored as `CutName` and never found: names of `MAX_FILE_NAME` characters or more, and paths that
do not begin with '/', whose first character the code drops unseen.

**FileStore** is the abstract file system: files are sequences of bytes, handles are positions.
The refinement mapping reads a file's contents through directory, i-node and block, and covers
the return values of all calls.

## Runs

| Run | Instance | Result |
|---|---|---|
| fsops_calls | 3 threads, 2 calls each, 2 table entries, fair | mutual exclusion, exact counter, shutdown only when all is closed, no handle leak, no lost wake-up; refines ShutdownGate |
| fsops_bad_close | 2 threads, 2 calls, `BadClose` | no lock leak and no deadlock even on the double unlock |
| server_sessions | 3 clients, 2 sessions, 2 mounts each | sessions kept apart and counted, with rejections, retries and late workers |
| server_parallel | 2 clients, 2 sessions, 2 calls each, failing reads and writes, fair | answers match calls, handles stay open, requests are not overwritten, calls are answered, shutdown completes, and only with nothing open |
| fsstate_tables | 3 names, one of them cut to another, 3 blocks, 5 i-nodes, 3 entries, 2 handles, any callers | blocks owned once, directory consistent, names lead to the same files for ever |
| fsstate_files | 2 names, 2 byte values, blocks of 2 bytes | offsets in files; refines FileStore |
| wire_calls | 2 clients, 2 sessions, 4 calls in all, `sizeof(int)` = 4, names of 3 bytes, writes of 4 and 9 bytes, reads of 1 and 12345, fair | no side meets a short read or loses its place; refines RemoteCalls; every call but a long write returns, unless `global_mutex` stays locked |
| pipes_mounts | 2 clients, 1 session, 2 mounts each, 1 death, fair | sessions reach the server, no mount request is lost, a mounted client has a session, a session that nobody can end is a dead client's or an old pipe's, mounts return but for a dead client's request and a locked `global_mutex` |

The bounds let every table run full (blocks, directory and handles in fsstate_tables, i-nodes in
fsstate_files, sessions in the runs of the server), let a third actor come between any two, let a
client be refused and try again, and let a file be extended, cut at the block's end, truncated and
written again. The code has more blocks than i-nodes, so they cannot run out there; in the model
they can. Three threads are needed for two waiters and a closer, three clients for a rejection with
two sessions. Four calls are two mounts and a call of each client, or a mount and three calls:
enough for a message that follows a misread one. `NAME_SIZE` is the only length scaled down; the
layouts depend on it only through sums. Two clients and one session give a rejection, a retry over
the old pipe and a death on either side of it, and an unmount whose worker is behind when the other
client mounts. Clients and threads are interchangeable, hence the symmetry in the runs without
liveness. The runs of FsOperations, TfsServer, WireProtocol and MountPipes end when calls and mounts
are used up, so they do not check for deadlock; what must not block is stated by `CallsReturn`,
`DestroyReturns`, `CallsAnswered`, `ShutdownCompletes`, `PlainCallsReturn` and `MountReturns`.

Fairness is weak fairness of the steps of calls that have begun, of main and of each worker: the
scheduler runs every runnable thread, and no thread is required to make another call. A mutex
passes on in these instances because calls are finite. `DestroyReturns` and `ShutdownCompletes`
assume that the files are closed for good, which is up to the clients. `CallsAnswered` is checked
below the session limit; above it see server_mount_returns. In MountPipes nobody has to answer the
handler's question: `MountReturns` assumes that main is not held up for ever. It excepts a client
that was killed by its own write (between main's close and reopen), a server that has exited,
the request of a client that died before its pipe was opened, which keeps main in `slait_open`'s
loop and the whole server with it, and a `global_mutex` that `find_free_pos` has left locked, on
which main and the workers of mounts and unmounts wait for ever. `PlainCallsReturn` excepts the
last of these and a reader that has lost its place.

### Disagreements with what the code's comments and tests say

Each is a run that TLC refutes.

| Run | What happens |
|---|---|
| fsops_bad_close_destroy | `tfs_close` of a handle that is not open decrements `open_files` all the same (`operations.c:211-230`), so a shutdown returns with a file open. |
| server_mount_returns | An unmount is counted by main before its worker frees the slot. A mount in between passes the limit test, finds no slot, and `find_free_pos` returns with `global_mutex` locked (`tfs_server.c:209`). The next mount hangs main. |
| fsstate_shared_truncate | A file is truncated through a second open; the first handle's `i_size - of_offset` wraps around and `tfs_read` returns bytes of the old block. |
| wire_write_length | `tfs_write` waits for as many bytes as it has written (`tecnicofs_client_api.c:271`) of an answer that has 4: a longer write is performed and never returns. |

More of them are steps of the models above, which the properties except by name, or are left out:

* A refused client that retries writes its request before it replaces its pipe, and the server may
  open the old pipe, which the client has left open (`SlaitOpen`, TfsServer's `MountOpenStale`).
  The client waits for ever and the session is lost; `shutdown_after_too_many_sessions_error_test.c`
  retries and expects 0. The properties of MountPipes say `Fresh` for clients without an old pipe.
* When the server exits before it answers a mount, the end of file is read as session 0 and
  `tfs_mount` returns 0 (`EndOfFile`).
* After a shutdown the server is gone, and the same client's `tfs_unmount`, which that test expects
  to return 0, is killed by SIGPIPE (`BrokenPipe`).
* `tfs_write` of fewer than 4 bytes leaves a part of its answer behind (`LenAssumption`).
* `tfs_unmount` leaves the client's pipe in the file system and keeps `session_id`, where the header
  says it deletes the one and resets the other.

## Proofs

TLC checks the instances above; TLAPS checks these theorems for every value of the constants that
meets the modules' assumptions. Each is an invariance proof: `Init` implies the invariant, one lemma
for each action shows that the action preserves it, and the properties follow from it.

**FsOperationsProofs**, for any set of threads, table size and number of calls. `TypeCorrect` and
`LocksReturned` (`NoLockLeak`) hold whatever handles callers close. They rest on `HolderInv`:
whoever has a mutex is at a label between the lock and the unlock. A double unlock takes the mutex
from its holder but gives it to nobody, so that half survives it. `Exclusion`, `CounterExact`,
`ShutdownSafe`, `HandlesKept` and the refinement `GateRefined` assume that only open handles are
closed (`~BadClose`; without it `ShutdownSafe` is false, as the run shows). Their invariant says of
every thread which mutexes it holds at each label, that `open_files` is the number of taken entries
corrected by the one thread between its change of the table and its store, that a loaded value is
still current when it is stored, and that every handle is in exactly one place (with a caller, or in
the one call about to return or close it: `NoHandleLeak`). Then a shutdown that has seen 0 under the
mutex has seen an empty table, and an open that holds the mutex has tested `called_destroy` under
it.

**TfsServerProofs**, for any set of clients and handles and any number of sessions, mounts and calls:
`TypeCorrect`, `SessionsApart`, `Counted`, `Answers`, `Handles`, `Exit` and the action property `Stable`
(`RequestsStable`), that is, all its safety properties. The invariant follows a session around, and
each part is there because a step of the next one needs it:

| Part | Says | Needed because |
|---|---|---|
| `PipeInv` | a pipe in the server's hands is not one its client is yet to make | a retry makes a new pipe while the server may hold the old one |
| `ClientInv`, `WorkerInv`, `MessageInv` | places, requests and messages fit each other | `Switch` reads the request after the unlock |
| `SlotInv` | a slot that is `FREE_POS`, or that main has just taken, has no request, no pipe and no message | `find_free_pos` gives out the slot before anything is posted |
| `RequestInv` | a slot has one request, in the pipe or with its worker | main's `Post` would overwrite a second one: `RequestsStable` |
| `UnmountInv` | an unmount is the last message of its session, and nobody is mounted there | main counts it before the worker frees the slot: `SessionsCounted` |
| `MountInv`, `GrantInv` | a mount under way belongs to one client, which waits; the slot it is told of is ready | the client takes the slot when it reads the answer, later than the server gave it |
| `OwnerInv`, `ServedInv` | a slot's pipe and request are those of the client that has the slot | `SessionsKeptApart`, `AnswersMatchCalls` |
| `AnswerInv` | one answer at most waits for a client, to the call it is in | except in a shutdown, which answers twice |
| `HandleInv` | a handle is open and in one place: with a client, in its answer or in its close | `HandlesStayOpen` |
| `ShutdownInv` | a worker leaves its loop only with the file system down and nothing open | `ExitWithNothingOpen` |

A worker that has shut the file system down never goes back to its loop, but main still posts to
it; the parts about requests say so. Two things came out of the proof rather than out of the runs.
`HandleAssumption` has 0 among the handles: the second answer of a shutdown is 0, and a client whose
next call is an open takes it for a handle. And `GrantInv` holds only while the client is in
`tfs_mount`: that client may also be in another call when it reads an answer left by a shutdown.

**MountPipesProofs**, for any finite set of clients and any number of sessions, mounts and deaths:
`TypeCorrect`, `SessionsReach`, `SessionsHeld`, `SessionsHaveOwners` and `RequestsSurvive`, again
all its invariants. The argument: from its mount's open to its unmount a client has a descriptor of
the server's pipe (`PipesHeld`), so as long as one is left main does not meet end of file, close the
pipe and lose what is in it (`SessionsReachServer`, `UnmountsConsistent`). Main's count is that of
the sessions no unmount has been read for (`SessionsCounted`), and a worker frees only the slots of
clients that have left and answers only those that wait (`SlotsConsistent`). A client has one
request under way, in the pipe or with main, until its pipe is opened (`RequestsSingle`,
`RequestUnderWay`: the latter only for clients without an old pipe; `RequestSpent` says that a
session on the pipe of a rejected attempt has cost the client its request, so it never mounts beside
it). `AnswersConsistent`, `AnswerExpected` and `SessionsKnown` relate what the client knows to what
main has decided, for each of its pipes apart.

**FsStateProofs**, for tables of any size: `TypeCorrect`, `BlocksSafe`, `DirectorySafe` and
`LookupsStable` with no assumption on the callers, and `OffsetsSafe` when no open file is truncated
(`~SharedTruncate`; again a run shows why). The invariant adds to the properties that the root's i-node
stays taken and full size, and that no open handle leads to it and every entry of the table leads to a
taken i-node. `LookupsStable` needs `EntriesFilled`: the entries in use are the first ones, so a new
entry, which only a creation makes (`DirectoryStep`), comes after every entry a name leads to.
`FirstLeast` (a scan of a nonempty set of numbers stops at its least member) comes from the
well-foundedness of `<`; `ReadLength` is the arithmetic of `size_t`.

**FileStoreProofs**: `StoreRefined`, the refinement of FileStore, for the callers it is meant for
(`ProperCallers`: open handles only, no truncation of an open file, names that are stored as they
are; fsstate_shared_truncate shows what happens otherwise). Names and taken i-nodes correspond one
to one (`EntryFound`, `LookupNamed`, `NamedLookup`) and keep doing so (`NameKept`, from
`LookupsStable`'s lemma), so the mapping gives every handle its file; `ContentsSeq` says that a
file's bytes are in its block. `IsOpen` to `IsRead` restate FileStore's calls over the mapped files
and handles, and one lemma for each way through a call shows that it is one of them.
`BlocksOwnedOnce` keeps a write out of other files, `OffsetsInFile` makes the `size_t` subtraction
exact, and the two together make `ReadNoBlock` impossible.

**WireFieldLemmas** and **WireProtocolProofs**, for any sets of clients, names, handles and lengths
that meet the assumptions, any texts of `INT_SIZE .. SIZE` bytes and any number of calls:
`TypeCorrect`, `ShortReads` (`NoShortReads`) and `ImplementsContract` (the refinement of
RemoteCalls), that is, all safety properties of WireProtocol.

*Conversions.* `Digits` and `Number` are recursive functions, and what they compute takes induction.
The theorems of the library that do induction take the statement as a parameter, which the provers
cannot instantiate; here each induction takes the least number at which the statement would fail
(`LeastElement`, from the well-foundedness of `<`) and shows that it would fail at a smaller one.
That gives the recursive equations themselves (`DigitsDef`, `NumberDef`), that `Number` undoes
`Digits` (`NumberDigits`), and so `AtoiField`: `atoi` finds the number `sprintf` wrote if its digits
fit the field, and a smaller one otherwise. By `FieldFits` what was read from a field, and all that
is less, fits one again: the answer to a read, at most the length that main found, comes through
whatever the file's length is.

*Framing.* Unless `spoilt`, the server's pipe is the concatenation of whole messages behind what
main has read of the first (`Stream`, `Reading`): there is a queue of messages of which the bytes
are the text. A client appends a message (`ReadingSent`), `MainRead` takes exactly one part
(`ReadingMain`: what is asked for is always there), and a handler finds the fields of the first
message and drops it (`Taken`). A message without fields left to read is complete, since a write has
a length above 0 (`WriteLength`).

*Calls.* `Settled` says where each call is: its message is in the queue (`Queued`), or its request
is with the worker (`Posted`), or it is answered, and then what the client has read and what is in
its pipe are together the answer (`AnsweredWith`). A client has one message at most, but for an
unmount, which is not answered, followed by the next mount (`Ordered`). Without it the mount could
be handled first and the unmount would then end the new session. A slot is a client's from its
worker's mount to its worker's unmount (`Serves`), not from main's count, and a free slot has
neither (`Free`); two workers never have calls of one client (`Single`), so a mount that overtakes
the worker of an unmount, whether it gets another slot or none, leaves every answer with its call.

`TypeCorrect` holds for spoilt streams as well, where main takes any bytes for messages: bytes,
fields and requests keep their types, and no worker is given the handle -1, since main tests the
handle it has read and not the message it was sent. Other negative handles may reach a worker
there.

The assumptions come from the code's constants: `sizeof(int)` is above 2, sessions are one digit
(`S` is 10), handles at most two (`MAX_OPEN_FILES` is 20), and the digits of `SIZE` (100) leave room
for a NUL in the field. The length of a write is restricted to `INT_SIZE .. SIZE`, for the reasons
given in the last section. Nothing is assumed of the lengths of reads and files.

Only model-checked is liveness (`CallsReturn`, `DestroyReturns`, `CallsAnswered`, `ShutdownCompletes`,
`MountReturns`, `PlainCallsReturn`): fairness and ENABLED are outside the prover's reach.

## Not modelled, and what is next

* Writes of fewer bytes than an answer has, and of more than the `SIZE` bytes of main's buffer.
  After the first kind a client no longer waits for its answers, so main overwrites a request its
  worker is reading and a text may be freed twice; the second kind overruns the buffer. What
  happens then is not defined by the program, and both are left out by an assumption on the
  lengths in WireProtocol, as are reads and writes outside a block in FsState.
* The shutdown's message as bytes (it has the layout of the unmount's) and failing system calls
  other than the missing reader and the end of file. Full pipes: a client has one request under way.
* Left out for good: the counter thread (terminal output only), dead code (`erase_client`,
  `handle_error`), the simulated delays of `state.c`.
* TfsServer, WireProtocol and MountPipes are not composed into one module: each assumes of the others
  what their theorems say, but no theorem states the composition. The same holds for TfsServer and
  the calls of FsOperations, of which it uses the gate that `GateRefined` establishes.
