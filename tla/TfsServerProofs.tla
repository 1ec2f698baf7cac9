-------------------------- MODULE TfsServerProofs ---------------------------
(***************************************************************************)
(* Sessions, requests, answers and handles stay with their clients, for    *)
(* every number of clients, sessions and handles and any number of mounts  *)
(* and calls.                                                              *)
(*                                                                         *)
(* The invariant follows a session around: the mount request in main's     *)
(* hands and in the worker's, the answer on the client's pipe, the calls   *)
(* of the mounted client (at most one under way), and the unmount, which   *)
(* is the last message of its session.  A worker that has shut the file    *)
(* system down never goes back to its loop, but main still posts to it:    *)
(* the parts about requests leave it out.                                  *)
(***************************************************************************)
EXTENDS TfsServer, PipeLemmas

USE SessionsAssumption, ClientsAssumption, HandleAssumption, BoundsAssumption

(***************************************************************************)
(* The inductive invariant.                                                *)
(***************************************************************************)
\* The client's newest pipe, and whether the client has it open.
Pipe(c) == <<c, mounts[c]>>
HasPipe(c) == cpc[c] \in {"opening", "reply", "in", "rejected"}

\* The worker has shut the file system down.
Ending(i) == worker[i] \in {"shutdown_answer", "shutdown_again", "shutdown_exit", "exit"}

\* The message at k is for slot i, and some message is.
For(k, i) == server_pipe[k].session_id = i
Pending(i) == \E k \in DOMAIN server_pipe : For(k, i)

\* The worker of slot i has a mount to finish.
MountIn(i) == Busy(i) /\ ~Ending(i) /\ request[i].op = "MOUNT"

\* The one answer on the client's pipe.
Answer(c, op, val) == inbox[c] = <<[op |-> op, val |-> val]>>

\* Files are closed before a worker leaves its loop, and the server exits through a worker.
ShutdownInv ==
    /\ down => shutting /\ open = {}
    /\ up => \A i \in Slots : worker[i] # "exit" /\ (Ending(i) => down)
    /\ ~up => \E i \in Slots : worker[i] = "exit" /\ (request[i].op = "WRITE" \/ open = {})

\* What a worker does is what its request says.
WorkerInv ==
    \A i \in Slots : ~Ending(i) =>
        /\ wake_up[i] => worker[i] = "wait"
        /\ Busy(i) => request[i].op \in Ops
        /\ worker[i] \in Ops => request[i].op = worker[i]
        /\ worker[i] = "answer" => request[i].op \in {"OPEN", "CLOSE", "READ", "WRITE"}
        /\ worker[i] = "answer" /\ request[i].op = "OPEN" => ret[i] \in Handle \cup {-1}
        /\ worker[i] = "mount_answer" => request[i].op = "MOUNT"
        /\ worker[i] = "free_pos" => request[i].op = "UNMOUNT" /\ fhandler[i] = NoPipe
        /\ worker[i] = "destroying" => request[i].op = "SHUTDOWN"

\* A mount names its client, every other call of a mounted client its slot, and what is
\* closed has been opened.
MessageInv ==
    /\ \A k \in DOMAIN server_pipe :
          /\ server_pipe[k].op \in Ops
          /\ server_pipe[k].op = "MOUNT" =>
                server_pipe[k].name \in Clients /\ server_pipe[k].session_id = -1
          /\ server_pipe[k].op \notin {"MOUNT", "UNMOUNT"} => server_pipe[k].session_id \in Slots
          /\ server_pipe[k].op = "CLOSE" => server_pipe[k].fhandle # OutsideTable
    /\ main = "slait_open" => name \in Clients

\* A pipe in the server's hands is not one the client is yet to make.
Made(p) ==
    p # NoPipe =>
        /\ p[2] >= mounts[p[1]]
        /\ cpc[p[1]] \in {"mkfifo", "mkfifo_again", "opening"} => p[2] > mounts[p[1]]
PipeInv == Made(fcli) /\ \A i \in Slots : Made(fhandler[i]) /\ Made(request[i].fcli)

\* Where a client is and the call it is in.
ClientInv ==
    \A c \in Clients :
        /\ cpc[c] \in {"mkfifo", "mkfifo_again"} => mounts[c] < MaxMounts
        /\ cpc[c] \in {"mkfifo", "mkfifo_again", "opening"} => call[c] = "MOUNT"
        /\ cpc[c] = "reply" => call[c] \in Ops \ {"UNMOUNT"}
        /\ up /\ cpc[c] = "rejected" => session_id[c] = -1

\* A slot that is FREE_POS has nothing left of a session; neither has the one main has
\* taken for a mount.
Unused(i) == ~Busy(i) /\ fhandler[i] = NoPipe /\ ~Pending(i)
SlotInv ==
    /\ \A i \in Slots : free_sessions[i] = "FREE_POS" => Unused(i)
    /\ main = "mount_post" => slot \in Slots /\ free_sessions[slot] = "TAKEN_POS" /\ Unused(slot)

\* A slot has one request at a time, in the pipe or with its worker.
RequestInv ==
    up => \A i \in Slots : ~Ending(i) => \A k \in DOMAIN server_pipe :
        For(k, i) => ~Busy(i) /\ \A l \in DOMAIN server_pipe : For(l, i) => l = k

\* An unmount is the last message of its session.
NoClientOf(i) == \A c \in Clients : Mounted(c) => session_id[c] # i
UnmountInv ==
    up => \A i \in Slots :
        /\ i \in Leaving => ~Pending(i) /\ NoClientOf(i)
        /\ \A k \in DOMAIN server_pipe : For(k, i) /\ server_pipe[k].op = "UNMOUNT" =>
              NoClientOf(i) /\ \A l \in DOMAIN server_pipe : For(l, i) => l <= k

\* A mount under way is that of one client, which waits for the answer.
Awaits(c) == cpc[c] = "reply" /\ call[c] = "MOUNT" /\ inbox[c] = <<>>
MountInv ==
    up =>
        /\ \A i \in Slots : MountIn(i) =>
              fhandler[i] = IF worker[i] = "mount_answer" THEN request[i].fcli ELSE NoPipe
        /\ \A c \in Clients : main \in {"find_free_pos", "mount_post"} /\ fcli = Pipe(c) =>
              Awaits(c) /\ \A i \in Slots : MountIn(i) => request[i].fcli # Pipe(c)
        /\ \A c \in Clients, i \in Slots : MountIn(i) /\ request[i].fcli = Pipe(c) =>
              Awaits(c) /\ \A j \in Slots : MountIn(j) /\ request[j].fcli = Pipe(c) => i = j

\* The session a client is told of is ready for it.
GrantInv ==
    up => \A c \in Clients, i \in Slots : call[c] = "MOUNT" /\ Answer(c, "MOUNT", i) =>
        /\ free_sessions[i] = "TAKEN_POS" /\ fhandler[i] = Pipe(c)
        /\ ~Busy(i) /\ ~Pending(i)

\* A slot answers on a client's pipe only when the client has that slot or is being told.
OwnerInv ==
    up => \A c \in Clients, i \in Slots : fhandler[i] = Pipe(c) /\ HasPipe(c) =>
        \/ Mounted(c) /\ session_id[c] = i
        \/ cpc[c] = "reply" /\ call[c] = "MOUNT" /\ (worker[i] = "mount_answer" \/ Answer(c, "MOUNT", i))

\* The slot of a mounted client works for it, on nothing but the call it waits for.
InCall(c, op) == cpc[c] = "reply" /\ call[c] = op /\ inbox[c] = <<>>
Served(c, i) ==
    /\ free_sessions[i] = "TAKEN_POS" /\ fhandler[i] = Pipe(c)
    /\ ~Ending(i) => /\ \A k \in DOMAIN server_pipe : For(k, i) => InCall(c, server_pipe[k].op)
                     /\ Busy(i) => InCall(c, request[i].op)
ServedInv ==
    up => \A c \in Clients : Mounted(c) => session_id[c] \in Slots /\ Served(c, session_id[c])

\* One answer, to the call the client is in, or those of a shutdown.
AnswerInv ==
    \A c \in Clients :
        /\ inbox[c] # <<>> /\ ~EndsServer(c) =>
              cpc[c] = "reply" /\ \E val \in Int : Answer(c, call[c], val)
        /\ EndsServer(c) => \A k \in DOMAIN inbox[c] : inbox[c][k].val \in {0, -1}
        /\ \A k \in DOMAIN inbox[c] :
              /\ inbox[c][k].op = "MOUNT" => inbox[c][k].val \in Slots \cup {-1}
              /\ inbox[c][k].op = "OPEN" => inbox[c][k].val \in Handle \cup {-1}

\* A handle is with one client, or on its way from or to one.
Holds(c, h) == h \in handles[c] \/ (h >= 0 /\ Answer(c, "OPEN", h))
Carries(i, h) ==
    \/ h >= 0 /\ \E k \in DOMAIN server_pipe :
          For(k, i) /\ server_pipe[k].op = "CLOSE" /\ server_pipe[k].fhandle = h
    \/ (wake_up[i] \/ worker[i] \in {"switch", "CLOSE"}) /\ request[i].op = "CLOSE" /\ request[i].fhandler = h
    \/ h >= 0 /\ worker[i] = "answer" /\ request[i].op = "OPEN" /\ ret[i] = h
HandleInv ==
    up /\ ~down => \A h \in Handle \cup {-1, OutsideTable} :
        /\ \A c \in Clients : Holds(c, h) => h \in open
        /\ \A i \in Slots : Carries(i, h) => h \in open
        /\ \A c, d \in Clients : Holds(c, h) /\ Holds(d, h) => c = d
        /\ \A i, j \in Slots : Carries(i, h) /\ Carries(j, h) => i = j
        /\ \A c \in Clients, i \in Slots : ~(Holds(c, h) /\ Carries(i, h))

SessionInv ==
    /\ MessageInv /\ PipeInv /\ ClientInv /\ SlotInv /\ RequestInv /\ UnmountInv /\ MountInv
    /\ GrantInv /\ OwnerInv /\ ServedInv /\ AnswerInv /\ SessionsCounted

IInv == TypeOK /\ ShutdownInv /\ WorkerInv /\ SessionInv /\ HandleInv

(***************************************************************************)
(* What the definitions say.                                               *)
(***************************************************************************)
LEMMA SlotFacts == Slots \subseteq Nat /\ -1 \notin Slots /\ 0 \in Slots
BY DEF Slots

\* Handles are numbers from 0 on.
LEMMA HandleFacts == Handle \cup {-1, 0, 1} \subseteq Int /\ -1 \notin Handle /\ \A h \in Handle : h >= 0
BY HandleAssumption

\* Different clients have different pipes.
LEMMA PipeFacts ==
    ASSUME TypeOK
    PROVE  /\ \A p \in Pipes : p # NoPipe => p[1] \in Clients /\ p[2] \in Nat /\ p = <<p[1], p[2]>>
           /\ \A c \in Clients : Pipe(c) \in Pipes /\ Pipe(c) # NoPipe
           /\ \A c, d \in Clients : Pipe(c) = Pipe(d) => c = d
           /\ \A c \in Clients : mounts[c] \in 0 .. MaxMounts /\ Pipe(c)[1] = c /\ Pipe(c)[2] = mounts[c]
<1>1. \A c \in Clients : mounts[c] \in 0 .. MaxMounts
    BY DEF TypeOK
<1> QED
    BY <1>1 DEF Pipes, NoPipe, Pipe

\* A client's new pipe is in nobody's hands before main opens it.
LEMMA NewPipe ==
    ASSUME TypeOK, PipeInv, NEW c \in Clients, cpc[c] \in {"mkfifo", "mkfifo_again", "opening"}
    PROVE  /\ fcli # Pipe(c)
           /\ \A i \in Slots : fhandler[i] # Pipe(c) /\ request[i].fcli # Pipe(c)
<1>1. \A p : Made(p) => p # Pipe(c)
    BY PipeFacts DEF Made
<1> QED
    BY <1>1 DEF PipeInv

\* The answers on a client's pipe, by position.
LEMMA InboxFacts ==
    ASSUME TypeOK, NEW c \in Clients
    PROVE  /\ inbox[c] \in Seq([op : Ops, val : Int])
           /\ inbox[c] # <<>> <=> DOMAIN inbox[c] # {}
           /\ \A op, val : Answer(c, op, val) =>
                 /\ inbox[c] # <<>> /\ DOMAIN inbox[c] = {1}
                 /\ inbox[c][1].op = op /\ inbox[c][1].val = val
                 /\ Head(inbox[c]).op = op /\ Head(inbox[c]).val = val /\ Tail(inbox[c]) = <<>>
                 /\ Len(inbox[c]) = 1
<1>1. inbox[c] \in Seq([op : Ops, val : Int])
    BY DEF TypeOK
<1>2. inbox[c] # <<>> <=> DOMAIN inbox[c] # {}
    BY <1>1, PipePositions
<1>3. ASSUME NEW op, NEW val, Answer(c, op, val)
      PROVE  /\ inbox[c] # <<>> /\ DOMAIN inbox[c] = {1}
             /\ inbox[c][1].op = op /\ inbox[c][1].val = val
             /\ Head(inbox[c]).op = op /\ Head(inbox[c]).val = val /\ Tail(inbox[c]) = <<>>
             /\ Len(inbox[c]) = 1
    BY <1>3 DEF Answer
<1> QED
    BY <1>1, <1>2, <1>3

\* One sequence of answers is one answer.
LEMMA AnswerUnique ==
    ASSUME TypeOK, NEW c \in Clients, NEW op1, NEW val1, NEW op2, NEW val2,
           Answer(c, op1, val1), Answer(c, op2, val2)
    PROVE  op1 = op2 /\ val1 = val2
BY InboxFacts

\* What Reply does to each client's pipe.
LEMMA ReplyEffect ==
    ASSUME TypeOK, NEW p, NEW op \in Ops, NEW val \in Int, Reply(p, op, val)
    PROVE  /\ inbox' \in [Clients -> Seq([op : Ops, val : Int])]
           /\ \A c \in Clients :
                 /\ p # Pipe(c) \/ ~HasPipe(c) => inbox'[c] = inbox[c]
                 /\ p = Pipe(c) /\ HasPipe(c) =>
                       /\ inbox'[c] # <<>>
                       /\ inbox[c] = <<>> => Answer(c, op, val)'
                       /\ \A k \in DOMAIN inbox'[c] :
                             \/ k \in DOMAIN inbox[c] /\ inbox'[c][k] = inbox[c][k]
                             \/ inbox'[c][k].op = op /\ inbox'[c][k].val = val
                       /\ \A o, v : Answer(c, o, v)' => o = op /\ v = val
<1> DEFINE m == [op |-> op, val |-> val]
           T == [op : Ops, val : Int]
<1>1. \A c \in Clients : inbox[c] \in Seq(T)
    BY InboxFacts
<1>2. \A c \in Clients : inbox'[c] = IF p = Pipe(c) /\ HasPipe(c) THEN Append(inbox[c], m) ELSE inbox[c]
    BY DEF Reply, Pipe, HasPipe
<1>3. m \in T /\ m.op = op /\ m.val = val
    OBVIOUS
<1>4. \A c \in Clients : Append(inbox[c], m) \in Seq(T)
    BY <1>1, <1>3, AppendProperties
<1>5. inbox' \in [Clients -> Seq(T)]
    BY <1>1, <1>2, <1>4 DEF Reply
<1>6. ASSUME NEW c \in Clients, NEW s, s = Append(inbox[c], m)
      PROVE  /\ s # <<>>
             /\ inbox[c] = <<>> => s = <<m>>
             /\ \A k \in DOMAIN s : (k \in DOMAIN inbox[c] /\ s[k] = inbox[c][k]) \/ s[k] = m
             /\ \A o, v : s = <<[op |-> o, val |-> v]>> => o = op /\ v = val
  <2>1. s # <<>>
    BY <1>1, <1>3, <1>6, AppendProperties
  <2>2. inbox[c] = <<>> => s = <<m>>
    BY <1>6
  <2>3. \A k \in DOMAIN s : (k \in DOMAIN inbox[c] /\ s[k] = inbox[c][k]) \/ s[k] = m
    BY <1>1, <1>3, <1>6, Written
  <2>4. ASSUME NEW o, NEW v, s = <<[op |-> o, val |-> v]>>
        PROVE  o = op /\ v = val
    <3>1. Len(s) = Len(inbox[c]) + 1 /\ s[Len(inbox[c]) + 1] = m /\ Len(inbox[c]) \in Nat
      BY <1>1, <1>3, <1>6, AppendProperties, LenProperties
    <3>2. Len(s) = 1 /\ s[1].op = o /\ s[1].val = v
      BY <2>4
    <3>3. s[1] = m
      BY <3>1, <3>2
    <3> QED
      BY <1>3, <3>2, <3>3
  <2> QED
    BY <2>1, <2>2, <2>3, <2>4
<1> HIDE DEF m, T
<1>7. ASSUME NEW c \in Clients, p # Pipe(c) \/ ~HasPipe(c)
      PROVE  inbox'[c] = inbox[c]
    BY <1>2, <1>7
<1>8. ASSUME NEW c \in Clients, p = Pipe(c), HasPipe(c)
      PROVE  /\ inbox'[c] # <<>>
             /\ inbox[c] = <<>> => Answer(c, op, val)'
             /\ \A k \in DOMAIN inbox'[c] :
                   \/ k \in DOMAIN inbox[c] /\ inbox'[c][k] = inbox[c][k]
                   \/ inbox'[c][k].op = op /\ inbox'[c][k].val = val
             /\ \A o, v : Answer(c, o, v)' => o = op /\ v = val
  <2>1. inbox'[c] = Append(inbox[c], m)
    BY <1>2, <1>8
  <2>2. /\ inbox'[c] # <<>>
        /\ \A k \in DOMAIN inbox'[c] : (k \in DOMAIN inbox[c] /\ inbox'[c][k] = inbox[c][k]) \/ inbox'[c][k] = m
    BY <1>6, <2>1
  <2>3. (\A o, v : Answer(c, o, v)' => o = op /\ v = val) /\ (inbox[c] = <<>> => Answer(c, op, val)')
    BY <1>6, <2>1 DEF Answer, m
  <2> QED
    BY <1>3, <2>2, <2>3
<1> QED
    BY <1>5, <1>7, <1>8 DEF m, T

\* The same for the client the answer is for.
LEMMA ReplyAnswer ==
    ASSUME TypeOK, NEW c \in Clients, HasPipe(c), NEW op \in Ops, NEW val \in Int,
           Reply(Pipe(c), op, val)
    PROVE  /\ inbox'[c] # <<>>
           /\ inbox[c] = <<>> => Answer(c, op, val)'
           /\ \A k \in DOMAIN inbox'[c] :
                 \/ k \in DOMAIN inbox[c] /\ inbox'[c][k] = inbox[c][k]
                 \/ inbox'[c][k].op = op /\ inbox'[c][k].val = val
           /\ \A o, v : Answer(c, o, v)' => o = op /\ v = val
BY ReplyEffect

\* Who can have two answers: only the client of a slot whose worker ends the server.
LEMMA EndsOwnServer ==
    ASSUME IInv, up, NEW c \in Clients, HasPipe(c), EndsServer(c)
    PROVE  Mounted(c) /\ Ending(session_id[c])
<1>1. PICK i \in Slots : fhandler[i] = Pipe(c) /\ Ending(i)
    BY DEF EndsServer, Pipe, Ending
<1>2. Busy(i) /\ worker[i] # "mount_answer"
    BY <1>1 DEF Ending, Busy
<1>3. ~(call[c] = "MOUNT" /\ Answer(c, "MOUNT", i))
    BY <1>2 DEF IInv, SessionInv, GrantInv
<1>4. Mounted(c) /\ session_id[c] = i
    BY <1>1, <1>2, <1>3 DEF IInv, SessionInv, OwnerInv
<1> QED
    BY <1>1, <1>4

\* A client that waits for nothing has no answer on its pipe.
LEMMA NoAnswer ==
    ASSUME IInv, up, NEW c \in Clients, cpc[c] # "reply", HasPipe(c),
           Mounted(c) => ~Ending(session_id[c])
    PROVE  inbox[c] = <<>>
BY EndsOwnServer DEF IInv, SessionInv, AnswerInv

(***************************************************************************)
(* Workers.                                                                *)
(***************************************************************************)
\* A step of a worker in the middle of its request leaves the sessions alone.
LEMMA QuietStep ==
    ASSUME IInv, UNCHANGED <<up, server_pipe, mainV, sessionV, request, clientV, inbox>>,
           \A j \in Slots : /\ Busy(j)' <=> Busy(j)
                            /\ Ending(j)' <=> Ending(j)
                            /\ worker'[j] = "mount_answer" <=> worker[j] = "mount_answer"
    PROVE  SessionInv'
<1> USE DEF mainV, sessionV, clientV
<1>1. \A c \in Clients : /\ Pipe(c)' = Pipe(c) /\ (HasPipe(c)' <=> HasPipe(c))
                         /\ (Mounted(c)' <=> Mounted(c)) /\ (Awaits(c)' <=> Awaits(c))
                         /\ \A op, val : Answer(c, op, val)' <=> Answer(c, op, val)
                         /\ \A op : InCall(c, op)' <=> InCall(c, op)
    BY DEF Pipe, HasPipe, Mounted, Awaits, Answer, InCall
<1>2. \A j \in Slots : (MountIn(j)' <=> MountIn(j)) /\ (Pending(j)' <=> Pending(j))
                       /\ (Unused(j)' <=> Unused(j)) /\ (NoClientOf(j)' <=> NoClientOf(j))
    BY <1>1 DEF MountIn, Pending, For, Unused, NoClientOf
<1>3. Leaving' = Leaving
    BY DEF Leaving
<1>4. \A c \in Clients : EndsServer(c)' <=> EndsServer(c)
    BY <1>1 DEF EndsServer, Ending, Pipe
<1>5. MessageInv' /\ ClientInv'
    BY DEF IInv, SessionInv, MessageInv, ClientInv
<1>6. PipeInv'
    BY DEF IInv, SessionInv, PipeInv, Made
<1>7. SlotInv' /\ RequestInv'
    BY <1>2 DEF IInv, SessionInv, SlotInv, RequestInv, For
<1>8. UnmountInv'
    BY <1>2, <1>3 DEF IInv, SessionInv, UnmountInv, For
<1>9. MountInv' /\ GrantInv' /\ OwnerInv'
    BY <1>1, <1>2 DEF IInv, SessionInv, MountInv, GrantInv, OwnerInv
<1>10. ServedInv'
    BY <1>1 DEF IInv, SessionInv, ServedInv, Served, For
<1>11. AnswerInv'
    BY <1>1, <1>4 DEF IInv, SessionInv, AnswerInv
<1>12. SessionsCounted'
    BY <1>3 DEF IInv, SessionInv, SessionsCounted, FreeSlots
<1> QED
    BY <1>5, <1>6, <1>7, <1>8, <1>9, <1>10, <1>11, <1>12 DEF SessionInv

\* ... and, with the file system as it is, the handles as well, unless it is an open or a
\* close that has been performed.
LEMMA QuietHandles ==
    ASSUME IInv, UNCHANGED <<up, server_pipe, request, open, down, clientV, inbox>>,
           \A j \in Slots, h \in Handle \cup {-1, OutsideTable} : Carries(j, h)' => Carries(j, h)
    PROVE  HandleInv'
<1>1. \A c \in Clients, h \in Handle \cup {-1, OutsideTable} : Holds(c, h)' <=> Holds(c, h)
    BY DEF Holds, Answer, clientV
<1> QED
    BY <1>1 DEF IInv, HandleInv

\* WorkerGoto moves one worker.
LEMMA GotoFacts ==
    ASSUME TypeOK, NEW i \in Slots, NEW from, NEW to, WorkerGoto(i, from, to)
    PROVE  up /\ worker[i] = from /\ worker'[i] = to /\ \A j \in Slots : j # i => worker'[j] = worker[j]
BY DEF TypeOK, WorkerGoto

\* The worker takes its request.
LEMMA TakeStep ==
    ASSUME IInv, NEW i \in Slots, Take(i)
    PROVE  IInv'
<1> USE DEF Take
<1>1. up /\ worker[i] = "wait" /\ worker'[i] = "switch" /\ \A j \in Slots : j # i => worker'[j] = worker[j]
    BY GotoFacts DEF IInv
<1>2. \A j \in Slots : /\ Busy(j)' <=> Busy(j)
                       /\ Ending(j)' <=> Ending(j)
                       /\ worker'[j] = "mount_answer" <=> worker[j] = "mount_answer"
    BY <1>1 DEF IInv, TypeOK, Busy, Ending
<1>3. SessionInv'
    BY <1>2, QuietStep DEF FileSystem!Open, FileSystem!Close, FileSystem!AskShutdown
<1>4. TypeOK'
    BY DEF IInv, TypeOK, WorkerGoto, mainV, sessionV, clientV, fs
<1>5. ShutdownInv'
    BY <1>1, <1>2 DEF IInv, ShutdownInv, fs
<1>6. WorkerInv'
    BY <1>1, <1>2 DEF IInv, TypeOK, WorkerInv, sessionV, Ops
<1>7. HandleInv'
  <2>1. \A j \in Slots, h \in Handle \cup {-1, OutsideTable} : Carries(j, h)' => Carries(j, h)
    BY <1>1 DEF Carries, For, IInv, TypeOK
  <2> QED
    BY <2>1, QuietHandles DEF fs
<1> QED
    BY <1>3, <1>4, <1>5, <1>6, <1>7 DEF IInv

\* The worker looks at its request.
LEMMA SwitchStep ==
    ASSUME IInv, NEW i \in Slots, Switch(i)
    PROVE  IInv'
<1> USE DEF Switch
<1>1. up /\ worker[i] = "switch" /\ worker'[i] = request[i].op /\ \A j \in Slots : j # i => worker'[j] = worker[j]
    BY GotoFacts DEF IInv
<1>2. \A j \in Slots : /\ Busy(j)' <=> Busy(j)
                       /\ Ending(j)' <=> Ending(j)
                       /\ worker'[j] = "mount_answer" <=> worker[j] = "mount_answer"
    BY <1>1 DEF IInv, WorkerInv, Busy, Ending, Ops
<1>3. SessionInv'
    BY <1>2, QuietStep DEF FileSystem!Open, FileSystem!Close, FileSystem!AskShutdown
<1>4. TypeOK'
  <2>1. request[i].op \in Ops
    BY <1>1 DEF IInv, WorkerInv, Ending, Busy
  <2> QED
    BY <2>1 DEF IInv, TypeOK, WorkerGoto, mainV, sessionV, clientV, fs
<1>5. ShutdownInv'
  <2>1. worker'[i] # "exit"
    BY <1>1 DEF IInv, WorkerInv, Ending, Busy, Ops
  <2> QED
    BY <1>1, <1>2, <2>1 DEF IInv, ShutdownInv, fs
<1>6. WorkerInv'
    BY <1>1, <1>2 DEF IInv, WorkerInv, Ending, Busy, sessionV, Ops
<1>7. HandleInv'
  <2>1. \A j \in Slots, h \in Handle \cup {-1, OutsideTable} : Carries(j, h)' => Carries(j, h)
    BY <1>1 DEF Carries, For
  <2> QED
    BY <2>1, QuietHandles DEF fs
<1> QED
    BY <1>3, <1>4, <1>5, <1>6, <1>7 DEF IInv

\* tfs_open fails.
LEMMA ThreadOpenFailsStep ==
    ASSUME IInv, NEW i \in Slots, ThreadOpenFails(i)
    PROVE  IInv'
<1> USE DEF ThreadOpenFails
<1>1. up /\ worker[i] = "OPEN" /\ worker'[i] = "answer" /\ \A j \in Slots : j # i => worker'[j] = worker[j]
    BY GotoFacts DEF IInv
<1>2. \A j \in Slots : /\ Busy(j)' <=> Busy(j)
                       /\ Ending(j)' <=> Ending(j)
                       /\ worker'[j] = "mount_answer" <=> worker[j] = "mount_answer"
    BY <1>1 DEF Busy, Ending
<1>3. SessionInv'
    BY <1>2, QuietStep DEF FileSystem!Open, FileSystem!Close, FileSystem!AskShutdown
<1>4. TypeOK'
    BY DEF IInv, TypeOK, WorkerGoto, mainV, sessionV, clientV, fs
<1>5. ShutdownInv'
    BY <1>1, <1>2 DEF IInv, ShutdownInv, fs
<1>6. WorkerInv'
    BY <1>1, <1>2 DEF IInv, TypeOK, WorkerInv, Busy, Ending, sessionV, Ops
<1>7. HandleInv'
  <2>1. request[i].op = "OPEN" /\ ret'[i] = -1 /\ \A j \in Slots : j # i => ret'[j] = ret[j]
    BY <1>1, ZenonT(60) DEF IInv, TypeOK, WorkerInv, Ending, Ops
  <2>2. \A j \in Slots, h \in Handle \cup {-1, OutsideTable} : Carries(j, h)' => Carries(j, h)
    BY <1>1, <2>1 DEF Carries, For
  <2> QED
    BY <2>2, QuietHandles DEF fs
<1> QED
    BY <1>3, <1>4, <1>5, <1>6, <1>7 DEF IInv

\* tfs_read fails.
LEMMA ThreadReadFailsStep ==
    ASSUME IInv, NEW i \in Slots, ThreadReadFails(i)
    PROVE  IInv'
<1> USE DEF ThreadReadFails
<1>1. up /\ worker[i] = "READ" /\ worker'[i] = "answer" /\ \A j \in Slots : j # i => worker'[j] = worker[j]
    BY GotoFacts DEF IInv
<1>2. \A j \in Slots : /\ Busy(j)' <=> Busy(j)
                       /\ Ending(j)' <=> Ending(j)
                       /\ worker'[j] = "mount_answer" <=> worker[j] = "mount_answer"
    BY <1>1 DEF Busy, Ending
<1>3. SessionInv'
    BY <1>2, QuietStep DEF FileSystem!Open, FileSystem!Close, FileSystem!AskShutdown
<1>4. TypeOK'
    BY DEF IInv, TypeOK, WorkerGoto, mainV, sessionV, clientV, fs
<1>5. ShutdownInv'
    BY <1>1, <1>2 DEF IInv, ShutdownInv, fs
<1>6. WorkerInv'
    BY <1>1, <1>2 DEF IInv, WorkerInv, Ending, sessionV, Ops
<1>7. HandleInv'
  <2>1. request[i].op = "READ" /\ ret'[i] = -1 /\ \A j \in Slots : j # i => ret'[j] = ret[j]
    BY <1>1, ZenonT(60) DEF IInv, TypeOK, WorkerInv, Ending, Ops
  <2>2. \A j \in Slots, h \in Handle \cup {-1, OutsideTable} : Carries(j, h)' => Carries(j, h)
    BY <1>1, <2>1 DEF Carries, For
  <2> QED
    BY <2>2, QuietHandles DEF fs
<1> QED
    BY <1>3, <1>4, <1>5, <1>6, <1>7 DEF IInv

\* A read or a write succeeds.
LEMMA ThreadAccessStep ==
    ASSUME IInv, NEW i \in Slots, ThreadAccess(i)
    PROVE  IInv'
<1> USE DEF ThreadAccess
<1>1. up /\ worker[i] \in {"READ", "WRITE"} /\ worker'[i] = "answer"
      /\ \A j \in Slots : j # i => worker'[j] = worker[j]
    BY GotoFacts DEF IInv
<1>2. \A j \in Slots : /\ Busy(j)' <=> Busy(j)
                       /\ Ending(j)' <=> Ending(j)
                       /\ worker'[j] = "mount_answer" <=> worker[j] = "mount_answer"
    BY <1>1 DEF Busy, Ending
<1>3. SessionInv'
    BY <1>2, QuietStep DEF FileSystem!Open, FileSystem!Close, FileSystem!AskShutdown
<1>4. TypeOK'
    BY DEF IInv, TypeOK, WorkerGoto, mainV, sessionV, clientV, fs
<1>5. ShutdownInv'
    BY <1>1, <1>2 DEF IInv, ShutdownInv, fs
<1>6. WorkerInv'
    BY <1>1, <1>2 DEF IInv, WorkerInv, Ending, sessionV, Ops
<1>7. HandleInv'
  <2>1. request[i].op = worker[i] /\ \A j \in Slots : j # i => ret'[j] = ret[j]
    BY <1>1 DEF IInv, TypeOK, WorkerInv, Ending, Ops
  <2>2. \A j \in Slots, h \in Handle \cup {-1, OutsideTable} : Carries(j, h)' => Carries(j, h)
    BY <1>1, <2>1 DEF Carries, For
  <2> QED
    BY <2>2, QuietHandles DEF fs
<1> QED
    BY <1>3, <1>4, <1>5, <1>6, <1>7 DEF IInv

\* The shutdown is asked for: nothing is opened any more.
LEMMA ThreadShutdownStep ==
    ASSUME IInv, NEW i \in Slots, ThreadShutdown(i)
    PROVE  IInv'
<1> USE DEF ThreadShutdown
<1>1. up /\ worker[i] = "SHUTDOWN" /\ worker'[i] = "destroying" /\ \A j \in Slots : j # i => worker'[j] = worker[j]
    BY GotoFacts DEF IInv
<1>2. \A j \in Slots : /\ Busy(j)' <=> Busy(j)
                       /\ Ending(j)' <=> Ending(j)
                       /\ worker'[j] = "mount_answer" <=> worker[j] = "mount_answer"
    BY <1>1 DEF Busy, Ending
<1>3. SessionInv'
    BY <1>2, QuietStep DEF FileSystem!Open, FileSystem!Close, FileSystem!AskShutdown
<1>4. TypeOK'
    BY DEF IInv, TypeOK, WorkerGoto, FileSystem!AskShutdown, mainV, sessionV, clientV
<1>5. ShutdownInv'
    BY <1>1, <1>2 DEF IInv, ShutdownInv, FileSystem!AskShutdown
<1>6. WorkerInv'
    BY <1>1, <1>2 DEF IInv, WorkerInv, sessionV, Ops
<1>7. HandleInv'
  <2>1. \A j \in Slots, h \in Handle \cup {-1, OutsideTable} : Carries(j, h)' => Carries(j, h)
    BY <1>1 DEF Carries, For
  <2> QED
    BY <2>1, QuietHandles DEF FileSystem!AskShutdown
<1> QED
    BY <1>3, <1>4, <1>5, <1>6, <1>7 DEF IInv

\* The handle that tfs_open returns was not open: nobody else has it.
LEMMA ThreadOpenStep ==
    ASSUME IInv, NEW i \in Slots, ThreadOpen(i)
    PROVE  IInv'
<1> USE DEF ThreadOpen
<1>1. up /\ worker[i] = "OPEN" /\ worker'[i] = "answer" /\ \A j \in Slots : j # i => worker'[j] = worker[j]
    BY GotoFacts DEF IInv
<1>2. \A j \in Slots : /\ Busy(j)' <=> Busy(j)
                       /\ Ending(j)' <=> Ending(j)
                       /\ worker'[j] = "mount_answer" <=> worker[j] = "mount_answer"
    BY <1>1 DEF Busy, Ending
<1>3. SessionInv'
    BY <1>2, QuietStep DEF FileSystem!Open, FileSystem!Close, FileSystem!AskShutdown
<1>4. TypeOK'
  <2>1. open' \subseteq Handle /\ ret' \in [Slots -> Handle \cup {-1, 0, 1}]
    BY DEF IInv, TypeOK, FileSystem!Open
  <2> QED
    BY <2>1 DEF IInv, TypeOK, WorkerGoto, FileSystem!Open, mainV, sessionV, clientV
<1>5. ShutdownInv'
    BY <1>1, <1>2 DEF IInv, ShutdownInv, FileSystem!Open
<1>6. WorkerInv'
    BY <1>1, <1>2 DEF IInv, TypeOK, WorkerInv, Busy, Ending, sessionV, Ops
<1>7. HandleInv'
  <2>1. PICK n \in Handle : n \notin open /\ open' = open \cup {n} /\ down' = down
                          /\ ret' = [ret EXCEPT ![i] = n]
    BY DEF FileSystem!Open
  <2>2. request[i].op = "OPEN" /\ ret'[i] = n /\ \A j \in Slots : j # i => ret'[j] = ret[j]
    BY <1>1, <2>1, ZenonT(60) DEF IInv, TypeOK, WorkerInv, Ending, Ops
  <2>3. ASSUME NEW j \in Slots, NEW h \in Handle \cup {-1, OutsideTable}, Carries(j, h)'
        PROVE  Carries(j, h) \/ (j = i /\ h = n)
    BY <1>1, <2>2, <2>3 DEF Carries, For
  <2>4. \A c \in Clients, h \in Handle \cup {-1, OutsideTable} : Holds(c, h)' <=> Holds(c, h)
    BY DEF Holds, Answer, clientV
  <2>5. ASSUME up, ~down
        PROVE  (\A c \in Clients : ~Holds(c, n)) /\ \A j \in Slots : ~Carries(j, n)
    BY <2>1, <2>5 DEF IInv, HandleInv
  <2>6. SUFFICES ASSUME up, ~down, NEW h \in Handle \cup {-1, OutsideTable}
        PROVE  /\ \A c \in Clients : Holds(c, h)' => h \in open'
               /\ \A j \in Slots : Carries(j, h)' => h \in open'
               /\ \A c, d \in Clients : Holds(c, h)' /\ Holds(d, h)' => c = d
               /\ \A j, k \in Slots : Carries(j, h)' /\ Carries(k, h)' => j = k
               /\ \A c \in Clients, j \in Slots : ~(Holds(c, h)' /\ Carries(j, h)')
    BY <2>1 DEF HandleInv
  <2>7. /\ \A c \in Clients : Holds(c, h) => h \in open
        /\ \A j \in Slots : Carries(j, h) => h \in open
        /\ \A c, d \in Clients : Holds(c, h) /\ Holds(d, h) => c = d
        /\ \A j, k \in Slots : Carries(j, h) /\ Carries(k, h) => j = k
        /\ \A c \in Clients, j \in Slots : ~(Holds(c, h) /\ Carries(j, h))
    BY <2>6 DEF IInv, HandleInv
  <2>8. h = n => /\ \A c \in Clients : ~Holds(c, h)
                 /\ \A j \in Slots : ~Carries(j, h)
    BY <2>5, <2>6
  <2> QED
    BY <2>1, <2>3, <2>4, <2>7, <2>8
<1> QED
    BY <1>3, <1>4, <1>5, <1>6, <1>7 DEF IInv

\* tfs_close frees the handle, which only this request had.
LEMMA ThreadCloseStep ==
    ASSUME IInv, NEW i \in Slots, ThreadClose(i)
    PROVE  IInv'
<1> USE DEF ThreadClose
<1>1. up /\ worker[i] = "CLOSE" /\ worker'[i] = "answer" /\ \A j \in Slots : j # i => worker'[j] = worker[j]
    BY GotoFacts DEF IInv
<1>2. \A j \in Slots : /\ Busy(j)' <=> Busy(j)
                       /\ Ending(j)' <=> Ending(j)
                       /\ worker'[j] = "mount_answer" <=> worker[j] = "mount_answer"
    BY <1>1 DEF Busy, Ending
<1>3. SessionInv'
    BY <1>2, QuietStep DEF FileSystem!Open, FileSystem!Close, FileSystem!AskShutdown
<1>4. TypeOK'
    BY DEF IInv, TypeOK, WorkerGoto, FileSystem!Close, mainV, sessionV, clientV
<1>5. ShutdownInv'
    BY <1>1, <1>2 DEF IInv, ShutdownInv, FileSystem!Close
<1>6. WorkerInv'
    BY <1>1, <1>2 DEF IInv, WorkerInv, Ending, sessionV, Ops
<1>7. HandleInv'
  <2>1. request[i].op = "CLOSE" /\ ~wake_up[i] /\ \A j \in Slots : j # i => ret'[j] = ret[j]
    BY <1>1 DEF IInv, TypeOK, WorkerInv, Ending, Ops
  <2>2. Carries(i, request[i].fhandler) /\ request[i].fhandler \in Handle \cup {-1, OutsideTable}
    BY <1>1, <2>1 DEF IInv, TypeOK, Carries
  <2>3. ~Pending(i) \/ ~up
    BY <1>1 DEF IInv, SessionInv, RequestInv, Pending, Busy, Ending
  <2>4. ASSUME NEW j \in Slots, NEW h \in Handle \cup {-1, OutsideTable}, Carries(j, h)'
        PROVE  Carries(j, h) /\ j # i
    BY <1>1, <2>1, <2>3, <2>4 DEF Carries, For, Pending
  <2>5. \A c \in Clients, h \in Handle \cup {-1, OutsideTable} : Holds(c, h)' <=> Holds(c, h)
    BY DEF Holds, Answer, clientV
  <2>6. open' = open \ {request[i].fhandler} /\ down' = down /\ up' = up
    BY DEF FileSystem!Close
  <2> QED
    BY <1>1, <2>2, <2>4, <2>5, <2>6 DEF IInv, HandleInv
<1> QED
    BY <1>3, <1>4, <1>5, <1>6, <1>7 DEF IInv

\* What does not change with the clients' variables.
LEMMA SameClients ==
    ASSUME UNCHANGED clientV
    PROVE  /\ \A c \in Clients :
                 /\ Pipe(c)' = Pipe(c) /\ (HasPipe(c)' <=> HasPipe(c)) /\ (Mounted(c)' <=> Mounted(c))
                 /\ inbox'[c] = inbox[c] =>
                       /\ Awaits(c)' <=> Awaits(c)
                       /\ \A op, val : Answer(c, op, val)' <=> Answer(c, op, val)
                       /\ \A op : InCall(c, op)' <=> InCall(c, op)
           /\ \A i \in Slots : NoClientOf(i)' <=> NoClientOf(i)
           /\ \A p : Made(p)' <=> Made(p)
<1>1. \A c \in Clients :
          /\ Pipe(c)' = Pipe(c) /\ (HasPipe(c)' <=> HasPipe(c)) /\ (Mounted(c)' <=> Mounted(c))
          /\ inbox'[c] = inbox[c] =>
                /\ Awaits(c)' <=> Awaits(c)
                /\ \A op, val : Answer(c, op, val)' <=> Answer(c, op, val)
                /\ \A op : InCall(c, op)' <=> InCall(c, op)
    BY DEF clientV, Pipe, HasPipe, Mounted, Awaits, Answer, InCall
<1>2. \A i \in Slots : NoClientOf(i)' <=> NoClientOf(i)
    BY <1>1 DEF clientV, NoClientOf
<1>3. \A p : Made(p)' <=> Made(p)
    BY DEF clientV, Made
<1> QED
    BY <1>1, <1>2, <1>3

\* The members of a sequence of one answer.
LEMMA OneAnswer ==
    ASSUME NEW s, NEW op, NEW val, s = <<[op |-> op, val |-> val]>>
    PROVE  \A k \in DOMAIN s : k = 1 /\ s[k].op = op /\ s[k].val = val
OBVIOUS

\* An answer of a slot that is not at a mount goes to the client of the slot.
LEMMA OwnAnswer ==
    ASSUME IInv, up, NEW i \in Slots, NEW op \in Ops \ {"MOUNT"}, NEW val \in Int,
           Reply(fhandler[i], op, val), Busy(i) \/ Pending(i), worker[i] # "mount_answer",
           NEW c \in Clients, inbox'[c] # inbox[c]
    PROVE  /\ Mounted(c) /\ session_id[c] = i /\ fhandler[i] = Pipe(c)
           /\ inbox[c] = <<>> => Answer(c, op, val)'
           /\ \A k \in DOMAIN inbox'[c] :
                 \/ k \in DOMAIN inbox[c] /\ inbox'[c][k] = inbox[c][k]
                 \/ inbox'[c][k].op = op /\ inbox'[c][k].val = val
           /\ \A o, v : Answer(c, o, v)' => o = op /\ v = val
<1>1. TypeOK
    BY DEF IInv
<1>2. fhandler[i] = Pipe(c) /\ HasPipe(c)
    BY <1>1, ReplyEffect
<1>3. ~(call[c] = "MOUNT" /\ Answer(c, "MOUNT", i))
    BY DEF IInv, SessionInv, GrantInv
<1>4. Mounted(c) /\ session_id[c] = i
    BY <1>2, <1>3 DEF IInv, SessionInv, OwnerInv
<1>5. /\ inbox[c] = <<>> => Answer(c, op, val)'
      /\ \A k \in DOMAIN inbox'[c] :
            \/ k \in DOMAIN inbox[c] /\ inbox'[c][k] = inbox[c][k]
            \/ inbox'[c][k].op = op /\ inbox'[c][k].val = val
      /\ \A o, v : Answer(c, o, v)' => o = op /\ v = val
    BY <1>1, <1>2, ReplyAnswer
<1> QED
    BY <1>2, <1>4, <1>5

\* The answer goes to the client that waits for it.
LEMMA ThreadReplyStep ==
    ASSUME IInv, NEW i \in Slots, ThreadReply(i)
    PROVE  IInv'
<1>0. PICK op, val : op = request[i].op /\ val = ret[i]
    OBVIOUS
<1>1. up /\ worker[i] = "answer" /\ worker'[i] = "wait" /\ \A j \in Slots : j # i => worker'[j] = worker[j]
    BY GotoFacts DEF IInv, ThreadReply
<1>2. /\ ~Ending(i) /\ Busy(i) /\ ~wake_up[i]
      /\ op \in {"OPEN", "CLOSE", "READ", "WRITE"} /\ (op = "OPEN" => val \in Handle \cup {-1})
      /\ val \in Int
  <2>1. ret[i] \in Handle \cup {-1, 0, 1}
    BY DEF IInv, TypeOK
  <2>2. val \in Int
    BY <1>0, <2>1, HandleFacts
  <2> QED
    BY <1>0, <1>1, <2>2 DEF IInv, WorkerInv, Ending, Busy
<1>3. ~Pending(i)
    BY <1>1, <1>2 DEF IInv, SessionInv, RequestInv, Pending
<1>4. Reply(fhandler[i], op, val) /\ op \in Ops \ {"MOUNT"} /\ inbox' \in [Clients -> Seq([op : Ops, val : Int])]
  <2>1. Reply(fhandler[i], op, val) /\ op \in Ops \ {"MOUNT"}
    BY <1>0, <1>2 DEF ThreadReply, Ops
  <2> QED
    BY <1>2, <2>1, ReplyEffect DEF IInv
<1>5. ASSUME NEW c \in Clients, inbox'[c] # inbox[c]
      PROVE  /\ Mounted(c) /\ session_id[c] = i /\ fhandler[i] = Pipe(c) /\ InCall(c, op) /\ Answer(c, op, val)'
             /\ \A o, v : Answer(c, o, v)' => o = op /\ v = val
  <2>1. /\ Mounted(c) /\ session_id[c] = i /\ fhandler[i] = Pipe(c)
        /\ inbox[c] = <<>> => Answer(c, op, val)'
        /\ \A o, v : Answer(c, o, v)' => o = op /\ v = val
    BY <1>1, <1>2, <1>4, <1>5, OwnAnswer
  <2>2. InCall(c, op)
    BY <1>0, <1>1, <1>2, <2>1 DEF IInv, SessionInv, ServedInv, Served
  <2> QED
    BY <2>1, <2>2 DEF InCall
<1>6. UNCHANGED <<up, server_pipe, mainV, sessionV, wake_up, request, ret, fs, clientV>>
    BY DEF ThreadReply
<1>7. \A j \in Slots : /\ Busy(j)' <=> (Busy(j) /\ j # i)
                       /\ Ending(j)' <=> Ending(j)
                       /\ worker'[j] = "mount_answer" <=> worker[j] = "mount_answer"
    BY <1>1, <1>2, <1>6 DEF Busy, Ending
<1>8. \A j \in Slots : (MountIn(j)' <=> MountIn(j)) /\ (Pending(j)' <=> Pending(j))
    BY <1>0, <1>2, <1>6, <1>7 DEF MountIn, Pending, For
<1>9. Leaving' = Leaving
    BY <1>0, <1>2, <1>6, <1>7 DEF Leaving
<1>10. \A c \in Clients : /\ Awaits(c)' <=> Awaits(c)
                          /\ \A j : Answer(c, "MOUNT", j)' <=> Answer(c, "MOUNT", j)
                          /\ EndsServer(c)' <=> EndsServer(c)
  <2>1. ASSUME NEW c \in Clients
        PROVE  (Awaits(c)' <=> Awaits(c)) /\ \A j : Answer(c, "MOUNT", j)' <=> Answer(c, "MOUNT", j)
    <3>1. CASE inbox'[c] = inbox[c]
      BY <1>6, <3>1, SameClients
    <3>2. CASE inbox'[c] # inbox[c]
      <4>1. InCall(c, op) /\ Answer(c, op, val)' /\ \A o, v : Answer(c, o, v)' => o = op
        BY <1>5, <3>2
      <4>2. ~Awaits(c) /\ ~Awaits(c)' /\ (\A j : ~Answer(c, "MOUNT", j)) /\ \A j : ~Answer(c, "MOUNT", j)'
        BY <1>2, <1>6, <4>1 DEF Awaits, InCall, Answer, clientV
      <4> QED
        BY <4>2
    <3> QED
      BY <3>1, <3>2
  <2>2. \A c \in Clients : EndsServer(c)' <=> EndsServer(c)
    BY <1>6, <1>7 DEF EndsServer, Ending, sessionV, clientV
  <2> QED
    BY <2>1, <2>2
<1>11. TypeOK'
    BY <1>4, <1>6, ZenonT(60) DEF IInv, TypeOK, ThreadReply, WorkerGoto, mainV, sessionV, clientV, fs
<1>12. ShutdownInv'
    BY <1>1, <1>6, <1>7 DEF IInv, ShutdownInv, fs
<1>13. WorkerInv'
    BY <1>1, <1>2, <1>6, <1>7 DEF IInv, WorkerInv, sessionV, Ops
<1>14. MessageInv' /\ ClientInv' /\ PipeInv'
    BY <1>6, SameClients DEF IInv, SessionInv, MessageInv, ClientInv, PipeInv, mainV, sessionV, clientV
<1>15. SlotInv' /\ RequestInv'
    BY <1>6, <1>7, <1>8 DEF IInv, SessionInv, SlotInv, Unused, RequestInv, For, mainV, sessionV
<1>16. UnmountInv'
    BY <1>6, <1>8, <1>9, SameClients DEF IInv, SessionInv, UnmountInv, For
<1>17. MountInv'
    BY <1>6, <1>7, <1>8, <1>10, SameClients DEF IInv, SessionInv, MountInv, mainV, sessionV
<1>18. GrantInv' /\ OwnerInv'
    BY <1>6, <1>7, <1>8, <1>10, SameClients DEF IInv, SessionInv, GrantInv, OwnerInv, sessionV, clientV
<1>19. ServedInv'
  <2>1. SUFFICES ASSUME NEW c \in Clients, Mounted(c)
        PROVE  session_id[c] \in Slots /\ Served(c, session_id[c])'
    BY <1>6, SameClients DEF ServedInv, clientV
  <2>2. session_id[c] \in Slots /\ Served(c, session_id[c])
    BY <1>1, <2>1 DEF IInv, SessionInv, ServedInv
  <2>3. free_sessions' = free_sessions /\ fhandler' = fhandler /\ Pipe(c)' = Pipe(c) /\ session_id' = session_id
        /\ server_pipe' = server_pipe /\ request' = request
    BY <1>6, SameClients DEF sessionV, clientV
  <2>4. CASE session_id[c] = i
    BY <1>3, <1>7, <2>2, <2>3, <2>4 DEF Served, Pending, For
  <2>5. CASE session_id[c] # i
    <3>1. \A o : InCall(c, o)' <=> InCall(c, o)
      BY <1>5, <1>6, <2>5, SameClients
    <3> QED
      BY <1>7, <2>2, <2>3, <3>1 DEF Served, For
  <2> QED
    BY <2>2, <2>3, <2>4, <2>5
<1>20. AnswerInv'
  <2>1. SUFFICES ASSUME NEW c \in Clients
        PROVE  /\ inbox'[c] # <<>> /\ ~EndsServer(c) =>
                     cpc[c] = "reply" /\ \E v \in Int : Answer(c, call[c], v)'
               /\ EndsServer(c) => \A k \in DOMAIN inbox'[c] : inbox'[c][k].val \in {0, -1}
               /\ \A k \in DOMAIN inbox'[c] :
                     /\ inbox'[c][k].op = "MOUNT" => inbox'[c][k].val \in Slots \cup {-1}
                     /\ inbox'[c][k].op = "OPEN" => inbox'[c][k].val \in Handle \cup {-1}
    BY <1>6, <1>10 DEF AnswerInv, clientV
  <2>2. CASE inbox'[c] = inbox[c]
    <3>1. \A v : Answer(c, call[c], v)' <=> Answer(c, call[c], v)
      BY <1>6, <2>2, SameClients DEF clientV
    <3> QED
      BY <2>2, <3>1 DEF IInv, SessionInv, AnswerInv
  <2>3. CASE inbox'[c] # inbox[c]
    <3>1. Mounted(c) /\ session_id[c] = i /\ InCall(c, op) /\ Answer(c, op, val)'
      BY <1>5, <2>3
    <3>2. HasPipe(c) /\ cpc[c] = "reply" /\ call[c] = op
      BY <3>1 DEF InCall, HasPipe
    <3>3. ~EndsServer(c)
      BY <1>1, <1>2, <3>1, <3>2, EndsOwnServer
    <3>4. \A k \in DOMAIN inbox'[c] : inbox'[c][k].op = op /\ inbox'[c][k].val = val
      BY <3>1, OneAnswer DEF Answer
    <3> QED
      BY <1>2, <3>1, <3>2, <3>3, <3>4, <1>6 DEF clientV
  <2> QED
    BY <2>2, <2>3
<1>21. SessionsCounted'
    BY <1>6, <1>9 DEF IInv, SessionInv, SessionsCounted, FreeSlots, mainV, sessionV
<1>22. HandleInv'
  <2>1. SUFFICES ASSUME ~down, NEW h \in Handle \cup {-1, OutsideTable}
        PROVE  /\ \A c \in Clients : Holds(c, h)' => h \in open
               /\ \A j \in Slots : Carries(j, h)' => h \in open
               /\ \A c, d \in Clients : Holds(c, h)' /\ Holds(d, h)' => c = d
               /\ \A j, k \in Slots : Carries(j, h)' /\ Carries(k, h)' => j = k
               /\ \A c \in Clients, j \in Slots : ~(Holds(c, h)' /\ Carries(j, h)')
    BY <1>6 DEF HandleInv, fs
  <2>2. /\ \A c \in Clients : Holds(c, h) => h \in open
        /\ \A j \in Slots : Carries(j, h) => h \in open
        /\ \A c, d \in Clients : Holds(c, h) /\ Holds(d, h) => c = d
        /\ \A j, k \in Slots : Carries(j, h) /\ Carries(k, h) => j = k
        /\ \A c \in Clients, j \in Slots : ~(Holds(c, h) /\ Carries(j, h))
    BY <1>1, <2>1 DEF IInv, HandleInv
  <2>3. \A j \in Slots : Carries(j, h)' => Carries(j, h) /\ j # i
    BY <1>1, <1>2, <1>3, <1>6 DEF Carries, Pending, For
  <2>4. ASSUME NEW c \in Clients, Holds(c, h)'
        PROVE  Holds(c, h) \/ (fhandler[i] = Pipe(c) /\ Carries(i, h))
    BY <1>0, <1>1, <1>5, <1>6, <2>4, SameClients DEF Holds, Carries, clientV
  <2>5. \A c, d \in Clients : fhandler[i] = Pipe(c) /\ fhandler[i] = Pipe(d) => c = d
    BY PipeFacts DEF IInv
  <2> QED
    BY <2>2, <2>3, <2>4, <2>5
<1>23. SessionInv'
    BY <1>14, <1>15, <1>16, <1>17, <1>18, <1>19, <1>20, <1>21 DEF SessionInv
<1> QED
    BY <1>11, <1>12, <1>13, <1>22, <1>23 DEF IInv

\* What does not change when the clients and their pipes stay as they are.
LEMMA SameAnswers ==
    ASSUME UNCHANGED <<clientV, inbox>>
    PROVE  /\ \A c \in Clients :
                 /\ Pipe(c)' = Pipe(c) /\ (HasPipe(c)' <=> HasPipe(c)) /\ (Mounted(c)' <=> Mounted(c))
                 /\ Awaits(c)' <=> Awaits(c)
                 /\ \A op, val : Answer(c, op, val)' <=> Answer(c, op, val)
                 /\ \A op : InCall(c, op)' <=> InCall(c, op)
                 /\ \A h : Holds(c, h)' <=> Holds(c, h)
           /\ \A i \in Slots : NoClientOf(i)' <=> NoClientOf(i)
           /\ \A p : Made(p)' <=> Made(p)
           /\ ClientInv /\ up' = up => ClientInv'
BY SameClients DEF clientV, Holds, Answer, ClientInv

\* The session gets the pipe of its client.
LEMMA ThreadMountStep ==
    ASSUME IInv, NEW i \in Slots, ThreadMount(i)
    PROVE  IInv'
<1>1. up /\ worker[i] = "MOUNT" /\ worker'[i] = "mount_answer" /\ \A j \in Slots : j # i => worker'[j] = worker[j]
    BY GotoFacts DEF IInv, ThreadMount
<1>2. /\ UNCHANGED <<up, server_pipe, mainV, open_sessions, free_sessions, global_mutex, wake_up, request, ret, fs>>
      /\ UNCHANGED <<clientV, inbox>>
    BY DEF ThreadMount
<1>3. fhandler'[i] = request[i].fcli /\ \A j \in Slots : j # i => fhandler'[j] = fhandler[j]
    BY DEF IInv, TypeOK, ThreadMount
<1>4. ~Ending(i) /\ Busy(i) /\ MountIn(i) /\ request[i].op = "MOUNT" /\ fhandler[i] = NoPipe
  <2>1. ~Ending(i) /\ Busy(i) /\ request[i].op = "MOUNT"
    BY <1>1 DEF IInv, WorkerInv, Ending, Busy, Ops
  <2> QED
    BY <1>1, <2>1 DEF IInv, SessionInv, MountInv, MountIn
<1>5. \A j \in Slots : /\ Busy(j)' <=> Busy(j)
                       /\ Ending(j)' <=> Ending(j)
                       /\ MountIn(j)' <=> MountIn(j)
                       /\ Pending(j)' <=> Pending(j)
    BY <1>1, <1>2 DEF Busy, Ending, MountIn, Pending, For
<1>6. Leaving' = Leaving
    BY <1>2, <1>5 DEF Leaving
<1>7. \A c \in Clients : EndsServer(c)' <=> EndsServer(c)
    BY <1>2, <1>3, <1>4, <1>5 DEF EndsServer, Ending, clientV
<1>8. TypeOK'
    BY DEF IInv, TypeOK, ThreadMount, WorkerGoto, mainV, clientV, fs
<1>9. ShutdownInv'
    BY <1>1, <1>2, <1>5 DEF IInv, ShutdownInv, fs
<1>10. WorkerInv'
    BY <1>1, <1>2, <1>3, <1>4, <1>5 DEF IInv, WorkerInv, Ops
<1>11. MessageInv' /\ ClientInv' /\ PipeInv'
    BY <1>2, <1>3, SameAnswers DEF IInv, SessionInv, MessageInv, PipeInv, mainV
<1>12. SlotInv' /\ RequestInv'
    BY <1>2, <1>3, <1>4, <1>5 DEF IInv, SessionInv, SlotInv, Unused, RequestInv, For, mainV
<1>13. UnmountInv'
    BY <1>2, <1>5, <1>6, SameAnswers DEF IInv, SessionInv, UnmountInv, For
<1>14. MountInv'
    BY <1>1, <1>2, <1>3, <1>5, SameAnswers DEF IInv, SessionInv, MountInv, mainV
<1>15. GrantInv'
    BY <1>2, <1>3, <1>4, <1>5, SameAnswers DEF IInv, SessionInv, GrantInv, clientV
<1>16. OwnerInv'
  <2>1. \A c \in Clients : request[i].fcli = Pipe(c) => cpc[c] = "reply" /\ call[c] = "MOUNT"
    BY <1>1, <1>4 DEF IInv, SessionInv, MountInv, Awaits
  <2> QED
    BY <1>1, <1>2, <1>3, <2>1, SameAnswers DEF IInv, SessionInv, OwnerInv, clientV
<1>17. ServedInv'
  <2>1. \A c \in Clients : Mounted(c) => session_id[c] # i
    BY <1>1, <1>4, PipeFacts DEF IInv, SessionInv, ServedInv, Served
  <2> QED
    BY <1>2, <1>3, <1>5, <2>1, SameAnswers DEF IInv, SessionInv, ServedInv, Served, For, clientV
<1>18. AnswerInv'
    BY <1>2, <1>7, SameAnswers DEF IInv, SessionInv, AnswerInv, clientV
<1>19. SessionsCounted'
    BY <1>2, <1>6 DEF IInv, SessionInv, SessionsCounted, FreeSlots, mainV
<1>20. HandleInv'
  <2>1. \A j \in Slots, h \in Handle \cup {-1, OutsideTable} : Carries(j, h)' => Carries(j, h)
    BY <1>1, <1>2, <1>4 DEF Carries, For
  <2> QED
    BY <1>2, <2>1, QuietHandles DEF fs
<1>21. SessionInv'
    BY <1>11, <1>12, <1>13, <1>14, <1>15, <1>16, <1>17, <1>18, <1>19 DEF SessionInv
<1> QED
    BY <1>8, <1>9, <1>10, <1>20, <1>21 DEF IInv

\* The session is erased.
LEMMA ThreadUnmountStep ==
    ASSUME IInv, NEW i \in Slots, ThreadUnmount(i)
    PROVE  IInv'
<1>1. up /\ worker[i] = "UNMOUNT" /\ worker'[i] = "free_pos" /\ \A j \in Slots : j # i => worker'[j] = worker[j]
    BY GotoFacts DEF IInv, ThreadUnmount
<1>2. /\ UNCHANGED <<up, server_pipe, mainV, open_sessions, free_sessions, global_mutex, wake_up, request, ret, fs>>
      /\ UNCHANGED <<clientV, inbox>>
    BY DEF ThreadUnmount
<1>3. fhandler'[i] = NoPipe /\ \A j \in Slots : j # i => fhandler'[j] = fhandler[j]
    BY DEF IInv, TypeOK, ThreadUnmount
<1>4. ~Ending(i) /\ Busy(i) /\ request[i].op = "UNMOUNT" /\ i \in Leaving /\ NoClientOf(i)
  <2>1. ~Ending(i) /\ Busy(i) /\ request[i].op = "UNMOUNT"
    BY <1>1 DEF IInv, WorkerInv, Ending, Busy, Ops
  <2>2. i \in Leaving
    BY <2>1 DEF Leaving
  <2> QED
    BY <1>1, <2>1, <2>2 DEF IInv, SessionInv, UnmountInv
<1>5. \A j \in Slots : /\ Busy(j)' <=> Busy(j)
                       /\ Ending(j)' <=> Ending(j)
                       /\ MountIn(j)' <=> MountIn(j)
                       /\ Pending(j)' <=> Pending(j)
                       /\ worker'[j] = "mount_answer" <=> worker[j] = "mount_answer"
    BY <1>1, <1>2 DEF Busy, Ending, MountIn, Pending, For
<1>6. Leaving' = Leaving
    BY <1>2, <1>5 DEF Leaving
<1>7. \A c \in Clients : EndsServer(c)' <=> EndsServer(c)
    BY <1>2, <1>3, <1>4, <1>5 DEF EndsServer, Ending, clientV
<1>8. TypeOK'
    BY DEF IInv, TypeOK, ThreadUnmount, WorkerGoto, mainV, clientV, fs, Pipes
<1>9. ShutdownInv'
    BY <1>1, <1>2, <1>5 DEF IInv, ShutdownInv, fs
<1>10. WorkerInv'
    BY <1>1, <1>2, <1>3, <1>4, <1>5 DEF IInv, WorkerInv, Ops
<1>11. MessageInv' /\ ClientInv' /\ PipeInv'
  <2>1. Made(NoPipe)
    BY DEF Made
  <2> QED
    BY <1>2, <1>3, <2>1, SameAnswers DEF IInv, SessionInv, MessageInv, PipeInv, mainV
<1>12. SlotInv' /\ RequestInv'
    BY <1>2, <1>3, <1>4, <1>5 DEF IInv, SessionInv, SlotInv, Unused, RequestInv, For, mainV
<1>13. UnmountInv'
    BY <1>2, <1>5, <1>6, SameAnswers DEF IInv, SessionInv, UnmountInv, For
<1>14. MountInv'
  <2>1. ~MountIn(i)
    BY <1>4 DEF MountIn
  <2> QED
    BY <1>2, <1>3, <1>5, <2>1, SameAnswers DEF IInv, SessionInv, MountInv, mainV
<1>15. GrantInv'
    BY <1>2, <1>3, <1>4, <1>5, SameAnswers DEF IInv, SessionInv, GrantInv, clientV
<1>16. OwnerInv'
  <2>1. \A c \in Clients : Pipe(c) # NoPipe
    BY PipeFacts DEF IInv
  <2> QED
    BY <1>2, <1>3, <1>5, <2>1, SameAnswers DEF IInv, SessionInv, OwnerInv, clientV
<1>17. ServedInv'
  <2>1. \A c \in Clients : Mounted(c) => session_id[c] # i
    BY <1>4 DEF NoClientOf
  <2> QED
    BY <1>2, <1>3, <1>5, <2>1, SameAnswers DEF IInv, SessionInv, ServedInv, Served, For, clientV
<1>18. AnswerInv'
    BY <1>2, <1>7, SameAnswers DEF IInv, SessionInv, AnswerInv, clientV
<1>19. SessionsCounted'
    BY <1>2, <1>6 DEF IInv, SessionInv, SessionsCounted, FreeSlots, mainV
<1>20. HandleInv'
  <2>1. \A j \in Slots, h \in Handle \cup {-1, OutsideTable} : Carries(j, h)' => Carries(j, h)
    BY <1>1, <1>2, <1>4 DEF Carries, For
  <2> QED
    BY <1>2, <2>1, QuietHandles DEF fs
<1>21. SessionInv'
    BY <1>11, <1>12, <1>13, <1>14, <1>15, <1>16, <1>17, <1>18, <1>19 DEF SessionInv
<1> QED
    BY <1>8, <1>9, <1>10, <1>20, <1>21 DEF IInv

\* The sets that are counted are finite, and the slots that are left are taken.
LEMMA SlotSets ==
    ASSUME IInv
    PROVE  /\ IsFiniteSet(Slots \ FreeSlots) /\ IsFiniteSet(Leaving) /\ Leaving \subseteq Slots \ FreeSlots
           /\ Cardinality(Slots \ FreeSlots) \in Nat /\ Cardinality(Leaving) \in Nat /\ open_sessions \in Nat
           /\ Cardinality(Leaving) <= Cardinality(Slots \ FreeSlots) /\ Cardinality(Slots \ FreeSlots) <= S
<1>1. IsFiniteSet(Slots) /\ Cardinality(Slots) = S
    BY FS_Interval DEF Slots
<1>2. Slots \ FreeSlots \subseteq Slots
    OBVIOUS
<1>3. Leaving \subseteq Slots \ FreeSlots
    BY DEF IInv, SessionInv, SlotInv, Unused, Leaving, FreeSlots
<1>4. IsFiniteSet(Slots \ FreeSlots) /\ Cardinality(Slots \ FreeSlots) <= S
    BY <1>1, <1>2, FS_Subset
<1>5. IsFiniteSet(Leaving) /\ Cardinality(Leaving) <= Cardinality(Slots \ FreeSlots)
    BY <1>3, <1>4, FS_Subset
<1>6. Cardinality(Slots \ FreeSlots) \in Nat /\ Cardinality(Leaving) \in Nat
    BY <1>4, <1>5, FS_CardinalityType
<1>7. open_sessions \in 0 .. S
    BY DEF IInv, TypeOK
<1> QED
    BY <1>3, <1>4, <1>5, <1>6, <1>7

\* The slot is freed: nothing of its session is left.
LEMMA ThreadFreePosStep ==
    ASSUME IInv, NEW i \in Slots, ThreadFreePos(i)
    PROVE  IInv'
<1>1. up /\ worker[i] = "free_pos" /\ worker'[i] = "wait" /\ \A j \in Slots : j # i => worker'[j] = worker[j]
    BY GotoFacts DEF IInv, ThreadFreePos
<1>2. /\ UNCHANGED <<up, server_pipe, mainV, open_sessions, fhandler, global_mutex, wake_up, request, ret, fs>>
      /\ UNCHANGED <<clientV, inbox>>
    BY DEF ThreadFreePos
<1>3. free_sessions'[i] = "FREE_POS" /\ \A j \in Slots : j # i => free_sessions'[j] = free_sessions[j]
    BY DEF IInv, TypeOK, ThreadFreePos
<1>4. /\ ~Ending(i) /\ Busy(i) /\ ~wake_up[i] /\ request[i].op = "UNMOUNT" /\ fhandler[i] = NoPipe
      /\ i \in Leaving /\ NoClientOf(i) /\ ~Pending(i)
  <2>1. ~Ending(i) /\ Busy(i) /\ ~wake_up[i] /\ request[i].op = "UNMOUNT" /\ fhandler[i] = NoPipe
    BY <1>1 DEF IInv, WorkerInv, Ending, Busy, Ops
  <2>2. i \in Leaving
    BY <2>1 DEF Leaving
  <2> QED
    BY <1>1, <2>1, <2>2 DEF IInv, SessionInv, UnmountInv
<1>5. \A j \in Slots : /\ Busy(j)' <=> (Busy(j) /\ j # i)
                       /\ Ending(j)' <=> Ending(j)
                       /\ MountIn(j)' <=> MountIn(j)
                       /\ Pending(j)' <=> Pending(j)
                       /\ worker'[j] = "mount_answer" <=> worker[j] = "mount_answer"
    BY <1>1, <1>2, <1>4 DEF Busy, Ending, MountIn, Pending, For
<1>6. Leaving' = Leaving \ {i}
    BY <1>2, <1>5 DEF Leaving
<1>7. \A c \in Clients : EndsServer(c)' <=> EndsServer(c)
    BY <1>2, <1>4, <1>5 DEF EndsServer, Ending, clientV
<1>8. TypeOK'
    BY DEF IInv, TypeOK, ThreadFreePos, WorkerGoto, mainV, clientV, fs
<1>9. ShutdownInv'
    BY <1>1, <1>2, <1>5 DEF IInv, ShutdownInv, fs
<1>10. WorkerInv'
    BY <1>1, <1>2, <1>4, <1>5 DEF IInv, WorkerInv, Ops
<1>11. MessageInv' /\ ClientInv' /\ PipeInv'
    BY <1>2, SameAnswers DEF IInv, SessionInv, MessageInv, PipeInv, mainV
<1>12. SlotInv' /\ RequestInv'
    BY <1>2, <1>3, <1>4, <1>5 DEF IInv, SessionInv, SlotInv, Unused, RequestInv, For, mainV
<1>13. UnmountInv'
    BY <1>2, <1>5, <1>6, SameAnswers DEF IInv, SessionInv, UnmountInv, For
<1>14. MountInv'
    BY <1>2, <1>5, SameAnswers DEF IInv, SessionInv, MountInv, mainV
<1>15. GrantInv'
    BY <1>2, <1>3, <1>4, <1>5, SameAnswers DEF IInv, SessionInv, GrantInv, clientV
<1>16. OwnerInv'
    BY <1>2, <1>5, SameAnswers DEF IInv, SessionInv, OwnerInv, clientV
<1>17. ServedInv'
  <2>1. \A c \in Clients : Mounted(c) => session_id[c] # i
    BY <1>4 DEF NoClientOf
  <2> QED
    BY <1>2, <1>3, <1>5, <2>1, SameAnswers DEF IInv, SessionInv, ServedInv, Served, For, clientV
<1>18. AnswerInv'
    BY <1>2, <1>7, SameAnswers DEF IInv, SessionInv, AnswerInv, clientV
<1>19. SessionsCounted'
  <2>1. i \in Slots \ FreeSlots
    BY <1>4 DEF IInv, SessionInv, SlotInv, Unused, FreeSlots
  <2>2. (Slots \ FreeSlots)' = (Slots \ FreeSlots) \ {i}
    BY <1>3, <2>1 DEF FreeSlots, Slots
  <2>3. Cardinality((Slots \ FreeSlots)') = Cardinality(Slots \ FreeSlots) - 1
    BY <2>1, <2>2, SlotSets, FS_RemoveElement, ZenonT(60)
  <2>4. Cardinality(Leaving') = Cardinality(Leaving) - 1
    BY <1>4, <1>6, SlotSets, FS_RemoveElement
  <2>5. open_sessions \in Nat /\ Cardinality(Leaving) \in Nat /\ Cardinality(Slots \ FreeSlots) \in Nat
    BY SlotSets
  <2> QED
    BY <1>2, <2>3, <2>4, <2>5 DEF IInv, SessionInv, SessionsCounted, mainV
<1>20. HandleInv'
  <2>1. \A j \in Slots, h \in Handle \cup {-1, OutsideTable} : Carries(j, h)' => Carries(j, h)
    BY <1>1, <1>2, <1>4 DEF Carries, For
  <2> QED
    BY <1>2, <2>1, QuietHandles DEF fs
<1>21. SessionInv'
    BY <1>11, <1>12, <1>13, <1>14, <1>15, <1>16, <1>17, <1>18, <1>19 DEF SessionInv
<1> QED
    BY <1>8, <1>9, <1>10, <1>20, <1>21 DEF IInv

\* The client is told of its session.
LEMMA ThreadMountReplyStep ==
    ASSUME IInv, NEW i \in Slots, ThreadMountReply(i)
    PROVE  IInv'
<1>1. up /\ worker[i] = "mount_answer" /\ worker'[i] = "wait" /\ \A j \in Slots : j # i => worker'[j] = worker[j]
    BY GotoFacts DEF IInv, ThreadMountReply
<1>2. UNCHANGED <<up, server_pipe, mainV, sessionV, wake_up, request, ret, fs, clientV>>
    BY DEF ThreadMountReply
<1>3. /\ ~Ending(i) /\ Busy(i) /\ ~wake_up[i] /\ request[i].op = "MOUNT" /\ MountIn(i)
      /\ fhandler[i] = request[i].fcli /\ ~Pending(i) /\ free_sessions[i] = "TAKEN_POS"
  <2>1. ~Ending(i) /\ Busy(i) /\ ~wake_up[i] /\ request[i].op = "MOUNT"
    BY <1>1 DEF IInv, WorkerInv, Ending, Busy
  <2>2. MountIn(i)
    BY <2>1 DEF MountIn
  <2>3. fhandler[i] = request[i].fcli
    BY <1>1, <2>2 DEF IInv, SessionInv, MountInv
  <2>4. ~Pending(i)
    BY <1>1, <2>1 DEF IInv, SessionInv, RequestInv, Pending
  <2>5. free_sessions[i] = "TAKEN_POS"
    BY <2>1 DEF IInv, TypeOK, SessionInv, SlotInv, Unused
  <2> QED
    BY <2>1, <2>2, <2>3, <2>4, <2>5
<1>4. Reply(fhandler[i], "MOUNT", i) /\ i \in Int /\ "MOUNT" \in Ops
    BY <1>3, SlotFacts DEF ThreadMountReply, Ops
<1>5. /\ inbox' \in [Clients -> Seq([op : Ops, val : Int])]
      /\ \A c \in Clients : fhandler[i] # Pipe(c) => inbox'[c] = inbox[c]
    BY <1>4, ReplyEffect DEF IInv
<1>6. ASSUME NEW c \in Clients, fhandler[i] = Pipe(c)
      PROVE  /\ Awaits(c) /\ Answer(c, "MOUNT", i)' /\ ~Awaits(c)'
             /\ \A o, v : Answer(c, o, v)' => o = "MOUNT" /\ v = i
             /\ \A j \in Slots : MountIn(j) => request[j].fcli # Pipe(c) \/ j = i
  <2>1. Awaits(c) /\ \A j \in Slots : MountIn(j) => request[j].fcli # Pipe(c) \/ j = i
    BY <1>1, <1>3, <1>6 DEF IInv, SessionInv, MountInv
  <2>2. HasPipe(c) /\ inbox[c] = <<>>
    BY <2>1 DEF Awaits, HasPipe
  <2>3. TypeOK
    BY DEF IInv
  <2>4. Answer(c, "MOUNT", i)' /\ inbox'[c] # <<>>
    BY <1>4, <1>6, <2>2, <2>3, ReplyAnswer
  <2>5. \A o, v : Answer(c, o, v)' => o = "MOUNT" /\ v = i
    BY <1>4, <1>6, <2>2, <2>3, ReplyAnswer
  <2> QED
    BY <2>1, <2>4, <2>5 DEF Awaits
<1>7. \A j \in Slots : /\ Busy(j)' <=> (Busy(j) /\ j # i)
                       /\ Ending(j)' <=> Ending(j)
                       /\ MountIn(j)' <=> (MountIn(j) /\ j # i)
                       /\ Pending(j)' <=> Pending(j)
                       /\ worker'[j] = "mount_answer" <=> (worker[j] = "mount_answer" /\ j # i)
    BY <1>1, <1>2, <1>3 DEF Busy, Ending, MountIn, Pending, For
<1>8. Leaving' = Leaving
    BY <1>2, <1>3, <1>7 DEF Leaving
<1>9. \A c \in Clients : EndsServer(c)' <=> EndsServer(c)
    BY <1>2, <1>7 DEF EndsServer, Ending, sessionV, clientV
<1>10. TypeOK'
    BY <1>2, <1>5, ZenonT(60) DEF IInv, TypeOK, ThreadMountReply, WorkerGoto, mainV, sessionV, clientV, fs
<1>11. ShutdownInv'
    BY <1>1, <1>2, <1>7 DEF IInv, ShutdownInv, fs
<1>12. WorkerInv'
    BY <1>1, <1>2, <1>3, <1>7 DEF IInv, WorkerInv, sessionV, Ops
<1>13. MessageInv' /\ ClientInv' /\ PipeInv'
    BY <1>2, SameClients DEF IInv, SessionInv, MessageInv, ClientInv, PipeInv, mainV, sessionV, clientV
<1>14. SlotInv' /\ RequestInv'
    BY <1>2, <1>7 DEF IInv, SessionInv, SlotInv, Unused, RequestInv, For, mainV, sessionV
<1>15. UnmountInv'
    BY <1>2, <1>7, <1>8, SameClients DEF IInv, SessionInv, UnmountInv, For
<1>16. MountInv'
  <2>1. \A c \in Clients : fhandler[i] # Pipe(c) => (Awaits(c)' <=> Awaits(c))
    BY <1>2, <1>5, SameClients
  <2>2. \A j \in Slots : MountIn(j)' =>
            fhandler'[j] = IF worker'[j] = "mount_answer" THEN request'[j].fcli ELSE NoPipe
    BY <1>1, <1>2, <1>7 DEF IInv, SessionInv, MountInv, sessionV
  <2>3. \A c \in Clients : main' \in {"find_free_pos", "mount_post"} /\ fcli' = Pipe(c)' =>
            Awaits(c)' /\ \A j \in Slots : MountIn(j)' => request'[j].fcli # Pipe(c)'
    BY <1>1, <1>2, <1>3, <1>7, <2>1, SameClients DEF IInv, SessionInv, MountInv, mainV
  <2>4. \A c \in Clients, j \in Slots : MountIn(j)' /\ request'[j].fcli = Pipe(c)' =>
            Awaits(c)' /\ \A k \in Slots : MountIn(k)' /\ request'[k].fcli = Pipe(c)' => j = k
    BY <1>1, <1>2, <1>6, <1>7, <2>1, SameClients DEF IInv, SessionInv, MountInv
  <2> QED
    BY <2>2, <2>3, <2>4 DEF MountInv
<1>17. GrantInv'
  <2>1. SUFFICES ASSUME NEW c \in Clients, NEW j \in Slots, call[c] = "MOUNT", Answer(c, "MOUNT", j)'
        PROVE  free_sessions[j] = "TAKEN_POS" /\ fhandler[j] = Pipe(c) /\ ~Busy(j)' /\ ~Pending(j)
    BY <1>2, <1>7, SameClients DEF GrantInv, sessionV, clientV
  <2>2. CASE fhandler[i] = Pipe(c)
    BY <1>3, <1>6, <1>7, <2>1, <2>2
  <2>3. CASE fhandler[i] # Pipe(c)
    BY <1>1, <1>2, <1>5, <1>7, <2>1, <2>3, SameClients DEF IInv, SessionInv, GrantInv, clientV
  <2> QED
    BY <2>2, <2>3
<1>18. OwnerInv'
  <2>1. SUFFICES ASSUME NEW c \in Clients, NEW j \in Slots, fhandler[j] = Pipe(c), HasPipe(c)
        PROVE  \/ Mounted(c) /\ session_id[c] = j
               \/ cpc[c] = "reply" /\ call[c] = "MOUNT" /\ (worker'[j] = "mount_answer" \/ Answer(c, "MOUNT", j)')
    BY <1>2, SameClients DEF OwnerInv, sessionV, clientV
  <2>2. \/ Mounted(c) /\ session_id[c] = j
        \/ cpc[c] = "reply" /\ call[c] = "MOUNT" /\ (worker[j] = "mount_answer" \/ Answer(c, "MOUNT", j))
    BY <1>1, <2>1 DEF IInv, SessionInv, OwnerInv
  <2>3. CASE fhandler[i] = Pipe(c)
    <3>1. Awaits(c) /\ Answer(c, "MOUNT", i)' /\ \A k \in Slots : MountIn(k) => request[k].fcli # Pipe(c) \/ k = i
      BY <1>6, <2>3
    <3>2. cpc[c] = "reply" /\ call[c] = "MOUNT" /\ ~Mounted(c) /\ ~Answer(c, "MOUNT", j)
      BY <3>1 DEF Awaits, Mounted, Answer
    <3>3. worker[j] = "mount_answer"
      BY <2>2, <3>2
    <3>4. MountIn(j)
      BY <3>3 DEF IInv, WorkerInv, MountIn, Busy, Ending
    <3>5. request[j].fcli = Pipe(c)
      BY <1>1, <2>1, <3>3, <3>4 DEF IInv, SessionInv, MountInv
    <3> QED
      BY <3>1, <3>2, <3>4, <3>5
  <2>4. CASE fhandler[i] # Pipe(c)
    BY <1>2, <1>5, <1>7, <2>1, <2>2, <2>4, SameClients
  <2> QED
    BY <2>3, <2>4
<1>19. ServedInv'
  <2>1. SUFFICES ASSUME NEW c \in Clients, Mounted(c)
        PROVE  session_id[c] \in Slots /\ Served(c, session_id[c])'
    BY <1>2, SameClients DEF ServedInv, clientV
  <2>2. session_id[c] \in Slots /\ Served(c, session_id[c])
    BY <1>1, <2>1 DEF IInv, SessionInv, ServedInv
  <2>3. fhandler[i] # Pipe(c)
    BY <1>6, <2>1 DEF Awaits, Mounted
  <2>4. free_sessions' = free_sessions /\ fhandler' = fhandler /\ Pipe(c)' = Pipe(c) /\ session_id' = session_id
        /\ server_pipe' = server_pipe /\ request' = request /\ \A o : InCall(c, o)' <=> InCall(c, o)
    BY <1>2, <1>5, <2>3, SameClients DEF sessionV, clientV
  <2> QED
    BY <1>7, <2>2, <2>4 DEF Served, For
<1>20. AnswerInv'
  <2>1. SUFFICES ASSUME NEW c \in Clients
        PROVE  /\ inbox'[c] # <<>> /\ ~EndsServer(c) =>
                     cpc[c] = "reply" /\ \E v \in Int : Answer(c, call[c], v)'
               /\ EndsServer(c) => \A k \in DOMAIN inbox'[c] : inbox'[c][k].val \in {0, -1}
               /\ \A k \in DOMAIN inbox'[c] :
                     /\ inbox'[c][k].op = "MOUNT" => inbox'[c][k].val \in Slots \cup {-1}
                     /\ inbox'[c][k].op = "OPEN" => inbox'[c][k].val \in Handle \cup {-1}
    BY <1>2, <1>9 DEF AnswerInv, clientV
  <2>2. CASE fhandler[i] # Pipe(c)
    <3>1. inbox'[c] = inbox[c] /\ \A v : Answer(c, call[c], v)' <=> Answer(c, call[c], v)
      BY <1>2, <1>5, <2>2, SameClients DEF clientV
    <3> QED
      BY <3>1 DEF IInv, SessionInv, AnswerInv
  <2>3. CASE fhandler[i] = Pipe(c)
    <3>1. Awaits(c) /\ Answer(c, "MOUNT", i)'
      BY <1>6, <2>3
    <3>2. HasPipe(c) /\ cpc[c] = "reply" /\ call[c] = "MOUNT" /\ ~Mounted(c)
      BY <3>1 DEF Awaits, HasPipe, Mounted
    <3>3. ~EndsServer(c)
      BY <1>1, <3>2, EndsOwnServer
    <3>4. \A k \in DOMAIN inbox'[c] : inbox'[c][k].op = "MOUNT" /\ inbox'[c][k].val = i
      BY <3>1, OneAnswer DEF Answer
    <3> QED
      BY <1>2, <1>4, <3>1, <3>2, <3>3, <3>4 DEF clientV
  <2> QED
    BY <2>2, <2>3
<1>21. SessionsCounted'
    BY <1>2, <1>8 DEF IInv, SessionInv, SessionsCounted, FreeSlots, mainV, sessionV
<1>22. HandleInv'
  <2>1. \A j \in Slots, h \in Handle \cup {-1, OutsideTable} : Carries(j, h)' => Carries(j, h)
    BY <1>1, <1>2, <1>3 DEF Carries, For
  <2>2. \A c \in Clients, h \in Handle \cup {-1, OutsideTable} : Holds(c, h)' => Holds(c, h)
    BY <1>2, <1>5, <1>6, SameClients DEF Holds, clientV
  <2> QED
    BY <1>2, <2>1, <2>2 DEF IInv, HandleInv, fs
<1>23. SessionInv'
    BY <1>13, <1>14, <1>15, <1>16, <1>17, <1>18, <1>19, <1>20, <1>21 DEF SessionInv
<1> QED
    BY <1>10, <1>11, <1>12, <1>22, <1>23 DEF IInv

\* Before a worker leaves its loop, its client has no answer on its pipe.
LEMMA NoAnswerYet ==
    ASSUME IInv, up, NEW i \in Slots, Busy(i), ~Ending(i), worker[i] # "mount_answer",
           NEW c \in Clients, fhandler[i] = Pipe(c)
    PROVE  inbox[c] = <<>> \/ EndsServer(c)
<1>1. CASE HasPipe(c)
  <2>1. ~(call[c] = "MOUNT" /\ Answer(c, "MOUNT", i))
    BY DEF IInv, SessionInv, GrantInv
  <2>2. Mounted(c) /\ session_id[c] = i
    BY <1>1, <2>1 DEF IInv, SessionInv, OwnerInv
  <2> QED
    BY <2>2 DEF IInv, SessionInv, ServedInv, Served, InCall
<1>2. CASE ~HasPipe(c)
    BY <1>2 DEF IInv, SessionInv, AnswerInv, HasPipe
<1> QED
    BY <1>1, <1>2

\* A worker leaves its loop.
LEMMA LeaveLoop ==
    ASSUME IInv, up, NEW i \in Slots, Busy(i), worker[i] \notin {"wait", "mount_answer", "MOUNT"},
           request[i].op # "MOUNT" \/ Ending(i),
           worker'[i] \in {"shutdown_answer", "exit"}, \A j \in Slots : j # i => worker'[j] = worker[j],
           UNCHANGED <<server_pipe, mainV, sessionV, wake_up, request, clientV, inbox>>, up' => up
    PROVE  SessionInv' /\ (\A j \in Slots : Ending(j)' <=> (Ending(j) \/ j = i))
<1>1. UNCHANGED <<server_pipe, mainV, sessionV, wake_up, request, clientV, inbox>>
    OBVIOUS
<1>2. UNCHANGED <<clientV, inbox>>
    OBVIOUS
<1>3. \A j \in Slots : /\ Busy(j)' <=> Busy(j)
                       /\ Ending(j)' <=> (Ending(j) \/ j = i)
                       /\ MountIn(j)' <=> MountIn(j)
                       /\ Pending(j)' <=> Pending(j)
                       /\ worker'[j] = "mount_answer" <=> worker[j] = "mount_answer"
    BY DEF Busy, Ending, MountIn, Pending, For
<1>4. Leaving' = Leaving
    BY <1>3 DEF Leaving
<1>5. ASSUME NEW c \in Clients, EndsServer(c)' # EndsServer(c)
      PROVE  inbox[c] = <<>>
  <2>1. ~EndsServer(c) /\ fhandler[i] = Pipe(c) /\ ~Ending(i)
    BY <1>1, <1>3, <1>5 DEF EndsServer, Ending, Pipe, sessionV, clientV
  <2> QED
    BY <2>1, NoAnswerYet
<1>6. \A c \in Clients : EndsServer(c) => EndsServer(c)'
    BY <1>1, <1>3 DEF EndsServer, Ending, sessionV, clientV
<1>7. MessageInv' /\ PipeInv' /\ ClientInv'
    BY <1>1, <1>2, SameAnswers DEF IInv, SessionInv, MessageInv, PipeInv, ClientInv, mainV, sessionV, clientV
<1>8. SlotInv' /\ RequestInv'
    BY <1>1, <1>3 DEF IInv, SessionInv, SlotInv, Unused, RequestInv, For, mainV, sessionV
<1>9. UnmountInv'
    BY <1>1, <1>2, <1>3, <1>4, SameAnswers DEF IInv, SessionInv, UnmountInv, For
<1>10. MountInv' /\ GrantInv' /\ OwnerInv'
    BY <1>1, <1>2, <1>3, SameAnswers DEF IInv, SessionInv, MountInv, GrantInv, OwnerInv, mainV, sessionV, clientV
<1>11. ServedInv'
    BY <1>1, <1>2, <1>3, SameAnswers DEF IInv, SessionInv, ServedInv, Served, For, sessionV, clientV
<1>12. AnswerInv'
  <2>1. SUFFICES ASSUME NEW c \in Clients
        PROVE  /\ inbox[c] # <<>> /\ ~EndsServer(c)' =>
                     cpc[c] = "reply" /\ \E v \in Int : Answer(c, call[c], v)
               /\ EndsServer(c)' => \A k \in DOMAIN inbox[c] : inbox[c][k].val \in {0, -1}
               /\ \A k \in DOMAIN inbox[c] :
                     /\ inbox[c][k].op = "MOUNT" => inbox[c][k].val \in Slots \cup {-1}
                     /\ inbox[c][k].op = "OPEN" => inbox[c][k].val \in Handle \cup {-1}
    BY <1>1, <1>2, SameAnswers DEF AnswerInv, clientV
  <2>2. CASE EndsServer(c)' = EndsServer(c)
    BY <2>2 DEF IInv, SessionInv, AnswerInv
  <2>3. CASE inbox[c] = <<>>
    BY <2>3
  <2> QED
    BY <1>5, <2>2, <2>3
<1>13. SessionsCounted'
    BY <1>1, <1>4 DEF IInv, SessionInv, SessionsCounted, FreeSlots, mainV, sessionV
<1> QED
    BY <1>3, <1>7, <1>8, <1>9, <1>10, <1>11, <1>12, <1>13 DEF SessionInv

\* A failed write ends the server.
LEMMA ThreadWriteFailsStep ==
    ASSUME IInv, NEW i \in Slots, ThreadWriteFails(i)
    PROVE  IInv'
<1>1. up /\ worker[i] = "WRITE" /\ worker'[i] = "exit" /\ \A j \in Slots : j # i => worker'[j] = worker[j]
    BY GotoFacts DEF IInv, ThreadWriteFails
<1>2. up' = FALSE /\ UNCHANGED <<server_pipe, mainV, sessionV, wake_up, request, ret, fs, clientV, inbox>>
    BY DEF ThreadWriteFails
<1>3. Busy(i) /\ request[i].op = "WRITE" /\ ~Ending(i)
    BY <1>1 DEF IInv, WorkerInv, Busy, Ending, Ops
<1>4. SessionInv' /\ \A j \in Slots : Ending(j)' <=> (Ending(j) \/ j = i)
    BY <1>1, <1>2, <1>3, LeaveLoop
<1>5. TypeOK'
    BY <1>2 DEF IInv, TypeOK, ThreadWriteFails, WorkerGoto, mainV, sessionV, clientV, fs
<1>6. ShutdownInv'
    BY <1>1, <1>2, <1>3 DEF IInv, ShutdownInv, fs
<1>7. WorkerInv'
    BY <1>1, <1>2, <1>4 DEF IInv, WorkerInv, Busy, sessionV
<1>8. HandleInv'
    BY <1>2 DEF HandleInv
<1> QED
    BY <1>4, <1>5, <1>6, <1>7, <1>8 DEF IInv

\* The shutdown ends the server.
LEMMA ThreadExitStep ==
    ASSUME IInv, NEW i \in Slots, ThreadExit(i)
    PROVE  IInv'
<1>1. up /\ worker[i] = "shutdown_exit" /\ worker'[i] = "exit" /\ \A j \in Slots : j # i => worker'[j] = worker[j]
    BY GotoFacts DEF IInv, ThreadExit
<1>2. up' = FALSE /\ UNCHANGED <<server_pipe, mainV, sessionV, wake_up, request, ret, fs, clientV, inbox>>
    BY DEF ThreadExit
<1>3. Busy(i) /\ Ending(i)
    BY <1>1 DEF Busy, Ending
<1>4. SessionInv' /\ \A j \in Slots : Ending(j)' <=> (Ending(j) \/ j = i)
    BY <1>1, <1>2, <1>3, LeaveLoop
<1>5. TypeOK'
    BY <1>2 DEF IInv, TypeOK, ThreadExit, WorkerGoto, mainV, sessionV, clientV, fs
<1>6. ShutdownInv'
    BY <1>1, <1>2, <1>3 DEF IInv, ShutdownInv, fs
<1>7. WorkerInv'
    BY <1>1, <1>2, <1>4 DEF IInv, WorkerInv, Busy, sessionV
<1>8. HandleInv'
    BY <1>2 DEF HandleInv
<1> QED
    BY <1>4, <1>5, <1>6, <1>7, <1>8 DEF IInv

\* The wait of the shutdown is over: no file is open.
LEMMA ThreadDestroyedStep ==
    ASSUME IInv, NEW i \in Slots, ThreadDestroyed(i)
    PROVE  IInv'
<1>1. up /\ worker[i] = "destroying" /\ worker'[i] = "shutdown_answer" /\ \A j \in Slots : j # i => worker'[j] = worker[j]
    BY GotoFacts DEF IInv, ThreadDestroyed
<1>2. /\ UNCHANGED <<up, server_pipe, mainV, sessionV, wake_up, request, ret, clientV, inbox>>
      /\ shutting /\ open = {} /\ down' = TRUE /\ open' = open /\ shutting' = shutting
    BY DEF ThreadDestroyed, FileSystem!GoDown
<1>3. Busy(i) /\ request[i].op = "SHUTDOWN" /\ ~Ending(i)
    BY <1>1 DEF IInv, WorkerInv, Busy, Ending, Ops
<1>4. SessionInv' /\ \A j \in Slots : Ending(j)' <=> (Ending(j) \/ j = i)
    BY <1>1, <1>2, <1>3, LeaveLoop
<1>5. TypeOK'
    BY <1>2 DEF IInv, TypeOK, ThreadDestroyed, WorkerGoto, mainV, sessionV, clientV
<1>6. ShutdownInv'
    BY <1>1, <1>2, <1>3 DEF IInv, ShutdownInv
<1>7. WorkerInv'
    BY <1>1, <1>2, <1>4 DEF IInv, WorkerInv, Busy, sessionV
<1>8. HandleInv'
    BY <1>2 DEF HandleInv
<1> QED
    BY <1>4, <1>5, <1>6, <1>7, <1>8 DEF IInv

\* The shutdown is answered, and answered again.
LEMMA ThreadShutdownReplyStep ==
    ASSUME IInv, NEW i \in Slots, ThreadShutdownReply(i)
    PROVE  IInv'
<1>1. /\ up /\ Ending(i) /\ worker[i] # "exit" /\ worker'[i] \in {"shutdown_again", "shutdown_exit"}
      /\ \A j \in Slots : j # i => worker'[j] = worker[j]
    BY GotoFacts DEF IInv, ThreadShutdownReply, Ending
<1>2. UNCHANGED <<up, server_pipe, mainV, sessionV, wake_up, request, ret, fs, clientV>>
    BY DEF ThreadShutdownReply
<1>3. Busy(i) /\ worker[i] # "mount_answer" /\ down
    BY <1>1 DEF IInv, ShutdownInv, Busy, Ending
<1>4. /\ inbox' \in [Clients -> Seq([op : Ops, val : Int])]
      /\ \A c \in Clients : inbox'[c] # inbox[c] =>
            /\ Mounted(c) /\ session_id[c] = i /\ fhandler[i] = Pipe(c)
            /\ \A k \in DOMAIN inbox'[c] :
                  \/ k \in DOMAIN inbox[c] /\ inbox'[c][k] = inbox[c][k]
                  \/ inbox'[c][k].op = "SHUTDOWN" /\ inbox'[c][k].val = 0
            /\ \A o, v : Answer(c, o, v)' => o = "SHUTDOWN" /\ v = 0
  <2>1. Reply(fhandler[i], "SHUTDOWN", 0) /\ "SHUTDOWN" \in Ops \ {"MOUNT"} /\ 0 \in Int
    BY DEF ThreadShutdownReply, Ops
  <2>2. inbox' \in [Clients -> Seq([op : Ops, val : Int])]
    BY <2>1, ReplyEffect DEF IInv
  <2>3. ASSUME NEW c \in Clients, inbox'[c] # inbox[c]
        PROVE  /\ Mounted(c) /\ session_id[c] = i /\ fhandler[i] = Pipe(c)
               /\ \A k \in DOMAIN inbox'[c] :
                     \/ k \in DOMAIN inbox[c] /\ inbox'[c][k] = inbox[c][k]
                     \/ inbox'[c][k].op = "SHUTDOWN" /\ inbox'[c][k].val = 0
               /\ \A o, v : Answer(c, o, v)' => o = "SHUTDOWN" /\ v = 0
    <3>1. PICK op, val : op = "SHUTDOWN" /\ val = 0
      OBVIOUS
    <3>2. /\ Mounted(c) /\ session_id[c] = i /\ fhandler[i] = Pipe(c)
          /\ \A k \in DOMAIN inbox'[c] :
                \/ k \in DOMAIN inbox[c] /\ inbox'[c][k] = inbox[c][k]
                \/ inbox'[c][k].op = op /\ inbox'[c][k].val = val
          /\ \A o, v : Answer(c, o, v)' => o = op /\ v = val
      BY <1>1, <1>3, <2>1, <2>3, <3>1, OwnAnswer
    <3> QED
      BY <3>1, <3>2
  <2> QED
    BY <2>2, <2>3
<1>5. \A j \in Slots : /\ Busy(j)' <=> Busy(j)
                       /\ Ending(j)' <=> Ending(j)
                       /\ worker'[j] = "mount_answer" <=> worker[j] = "mount_answer"
                       /\ MountIn(j)' <=> MountIn(j)
                       /\ Pending(j)' <=> Pending(j)
    BY <1>1, <1>2 DEF Busy, Ending, MountIn, Pending, For
<1>6. Leaving' = Leaving
    BY <1>2, <1>5 DEF Leaving
<1>7. \A c \in Clients : EndsServer(c)' <=> EndsServer(c)
    BY <1>2, <1>5 DEF EndsServer, Ending, sessionV, clientV
<1>8. \A c \in Clients : /\ Awaits(c)' <=> Awaits(c)
                         /\ \A j : Answer(c, "MOUNT", j)' => Answer(c, "MOUNT", j)
                         /\ ~Mounted(c) => \A j : Answer(c, "MOUNT", j)' <=> Answer(c, "MOUNT", j)
  <2>1. SUFFICES ASSUME NEW c \in Clients
        PROVE  /\ Awaits(c)' <=> Awaits(c)
               /\ \A j : Answer(c, "MOUNT", j)' => Answer(c, "MOUNT", j)
               /\ ~Mounted(c) => \A j : Answer(c, "MOUNT", j)' <=> Answer(c, "MOUNT", j)
    OBVIOUS
  <2>2. CASE inbox'[c] = inbox[c]
    BY <1>2, <2>2, SameClients
  <2>3. CASE inbox'[c] # inbox[c]
    <3>1. Mounted(c) /\ \A o, v : Answer(c, o, v)' => o = "SHUTDOWN"
      BY <1>4, <2>3
    <3>2. ~Awaits(c) /\ ~Awaits(c)'
      BY <1>2, <3>1, SameClients DEF Awaits, Mounted
    <3> QED
      BY <3>1, <3>2
  <2> QED
    BY <2>2, <2>3
<1>9. TypeOK'
  <2>1. \E to \in {"shutdown_again", "shutdown_exit"} : worker' = [worker EXCEPT ![i] = to]
    BY DEF ThreadShutdownReply, WorkerGoto
  <2>2. worker' \in [Slots -> Ops \cup {"wait", "switch", "answer", "mount_answer", "free_pos",
                                       "destroying", "shutdown_answer", "shutdown_again",
                                       "shutdown_exit", "exit"}]
    BY <2>1 DEF IInv, TypeOK
  <2> QED
    BY <1>2, <1>4, <2>2 DEF IInv, TypeOK, mainV, sessionV, clientV, fs
<1>10. ShutdownInv'
    BY <1>1, <1>2, <1>5 DEF IInv, ShutdownInv, fs
<1>11. WorkerInv'
    BY <1>1, <1>2, <1>5 DEF IInv, WorkerInv, sessionV
<1>12. MessageInv' /\ ClientInv' /\ PipeInv'
    BY <1>2, SameClients DEF IInv, SessionInv, MessageInv, ClientInv, PipeInv, mainV, sessionV, clientV
<1>13. SlotInv' /\ RequestInv'
    BY <1>2, <1>5 DEF IInv, SessionInv, SlotInv, Unused, RequestInv, For, mainV, sessionV
<1>14. UnmountInv'
    BY <1>2, <1>5, <1>6, SameClients DEF IInv, SessionInv, UnmountInv, For
<1>15. MountInv'
    BY <1>2, <1>5, <1>8, SameClients DEF IInv, SessionInv, MountInv, mainV, sessionV
<1>16. GrantInv'
    BY <1>2, <1>5, <1>8, SameClients DEF IInv, SessionInv, GrantInv, sessionV, clientV
<1>17. OwnerInv'
    BY <1>2, <1>5, <1>8, SameClients DEF IInv, SessionInv, OwnerInv, sessionV, clientV, Mounted
<1>18. ServedInv'
  <2>1. SUFFICES ASSUME NEW c \in Clients, Mounted(c)
        PROVE  session_id[c] \in Slots /\ Served(c, session_id[c])'
    BY <1>2, SameClients DEF ServedInv, clientV
  <2>2. session_id[c] \in Slots /\ Served(c, session_id[c])
    BY <1>1, <2>1 DEF IInv, SessionInv, ServedInv
  <2>3. free_sessions' = free_sessions /\ fhandler' = fhandler /\ Pipe(c)' = Pipe(c) /\ session_id' = session_id
        /\ server_pipe' = server_pipe /\ request' = request
    BY <1>2, SameClients DEF sessionV, clientV
  <2>4. CASE session_id[c] = i
    BY <1>1, <1>5, <2>2, <2>3, <2>4 DEF Served
  <2>5. CASE session_id[c] # i
    <3>1. \A o : InCall(c, o)' <=> InCall(c, o)
      BY <1>2, <1>4, <2>5, SameClients
    <3> QED
      BY <1>5, <2>2, <2>3, <3>1 DEF Served, For
  <2> QED
    BY <2>2, <2>3, <2>4, <2>5
<1>19. AnswerInv'
  <2>1. SUFFICES ASSUME NEW c \in Clients
        PROVE  /\ inbox'[c] # <<>> /\ ~EndsServer(c) =>
                     cpc[c] = "reply" /\ \E v \in Int : Answer(c, call[c], v)'
               /\ EndsServer(c) => \A k \in DOMAIN inbox'[c] : inbox'[c][k].val \in {0, -1}
               /\ \A k \in DOMAIN inbox'[c] :
                     /\ inbox'[c][k].op = "MOUNT" => inbox'[c][k].val \in Slots \cup {-1}
                     /\ inbox'[c][k].op = "OPEN" => inbox'[c][k].val \in Handle \cup {-1}
    BY <1>2, <1>7 DEF AnswerInv, clientV
  <2>2. CASE inbox'[c] = inbox[c]
    <3>1. \A v : Answer(c, call[c], v)' <=> Answer(c, call[c], v)
      BY <1>2, <2>2, SameClients DEF clientV
    <3> QED
      BY <2>2, <3>1 DEF IInv, SessionInv, AnswerInv
  <2>3. CASE inbox'[c] # inbox[c]
    <3>1. /\ fhandler[i] = Pipe(c)
          /\ \A k \in DOMAIN inbox'[c] :
                \/ k \in DOMAIN inbox[c] /\ inbox'[c][k] = inbox[c][k]
                \/ inbox'[c][k].op = "SHUTDOWN" /\ inbox'[c][k].val = 0
      BY <1>4, <2>3
    <3>2. EndsServer(c)
      BY <1>1, <3>1 DEF EndsServer, Ending, Pipe
    <3>3. \A k \in DOMAIN inbox[c] : /\ inbox[c][k].val \in {0, -1}
                                     /\ inbox[c][k].op = "MOUNT" => inbox[c][k].val \in Slots \cup {-1}
                                     /\ inbox[c][k].op = "OPEN" => inbox[c][k].val \in Handle \cup {-1}
      BY <3>2 DEF IInv, SessionInv, AnswerInv
    <3> QED
      BY <3>1, <3>2, <3>3
  <2> QED
    BY <2>2, <2>3
<1>20. SessionsCounted'
    BY <1>2, <1>6 DEF IInv, SessionInv, SessionsCounted, FreeSlots, mainV, sessionV
<1>21. HandleInv'
    BY <1>2, <1>3 DEF HandleInv, fs
<1>22. SessionInv'
    BY <1>12, <1>13, <1>14, <1>15, <1>16, <1>17, <1>18, <1>19, <1>20 DEF SessionInv
<1> QED
    BY <1>9, <1>10, <1>11, <1>21, <1>22 DEF IInv

(***************************************************************************)
(* The main thread.                                                        *)
(***************************************************************************)
LEMMA ReadFacts ==
    ASSUME TypeOK, NEW op, Read(op)
    PROVE  /\ up /\ main = "read" /\ UNCHANGED <<up, fs, clientV>>
           /\ 1 \in DOMAIN server_pipe /\ Head(server_pipe) = server_pipe[1]
           /\ server_pipe[1].op = op /\ server_pipe[1] \in Requests
           /\ server_pipe' \in Seq(Requests)
           /\ \A k \in DOMAIN server_pipe' :
                 k \in Nat \ {0} /\ k + 1 \in DOMAIN server_pipe /\ server_pipe'[k] = server_pipe[k + 1]
<1>1. server_pipe \in Seq(Requests) /\ server_pipe # <<>> /\ server_pipe' = Tail(server_pipe)
    BY DEF TypeOK, Read
<1>2. /\ server_pipe' \in Seq(Requests) /\ 1 \in DOMAIN server_pipe /\ Head(server_pipe) = server_pipe[1]
      /\ server_pipe[1] \in Requests
      /\ \A k \in DOMAIN server_pipe' :
            k \in Nat \ {0} /\ k + 1 \in DOMAIN server_pipe /\ server_pipe'[k] = server_pipe[k + 1]
    BY <1>1, TakenFirst
<1> QED
    BY <1>2 DEF Read

\* What reading the first message does to the conditions about messages.
LEMMA ReadEffect ==
    ASSUME IInv, NEW op, Read(op)
    PROVE  /\ \A k \in DOMAIN server_pipe' :
                 k \in Nat \ {0} /\ k + 1 # 1 /\ k + 1 \in DOMAIN server_pipe
                 /\ \A i \in Slots : For(k, i)' <=> For(k + 1, i)
           /\ \A i \in Slots : Pending(i)' => Pending(i)
           /\ \A i \in Slots : Pending(i)' /\ For(1, i) => Ending(i) /\ server_pipe[1].op # "UNMOUNT"
           /\ \A i \in Slots : For(1, i) => Pending(i) /\ i \notin Leaving /\ (~Ending(i) => ~Busy(i))
           /\ \A i \in Slots, h \in Handle \cup {-1, OutsideTable} :
                 UNCHANGED <<wake_up, worker, request, ret>> /\ Carries(i, h)' => Carries(i, h)
<1>1. /\ up /\ 1 \in DOMAIN server_pipe
      /\ \A k \in DOMAIN server_pipe' :
            k \in Nat \ {0} /\ k + 1 \in DOMAIN server_pipe /\ server_pipe'[k] = server_pipe[k + 1]
    BY ReadFacts DEF IInv
<1>2. \A k \in DOMAIN server_pipe' :
          k \in Nat \ {0} /\ k + 1 # 1 /\ k + 1 \in DOMAIN server_pipe
          /\ \A i \in Slots : For(k, i)' <=> For(k + 1, i)
    BY <1>1 DEF For
<1>3. \A i \in Slots : Pending(i)' => Pending(i)
    BY <1>2 DEF Pending
<1>4. ASSUME NEW i \in Slots, For(1, i)
      PROVE  Pending(i) /\ i \notin Leaving /\ (~Ending(i) => ~Busy(i))
  <2>1. Pending(i)
    BY <1>1, <1>4 DEF Pending
  <2> QED
    BY <1>1, <1>4, <2>1 DEF IInv, SessionInv, UnmountInv, RequestInv
<1>5. ASSUME NEW i \in Slots, Pending(i)', For(1, i)
      PROVE  Ending(i) /\ server_pipe[1].op # "UNMOUNT"
  <2>1. PICK k \in DOMAIN server_pipe' : For(k, i)'
    BY <1>5 DEF Pending
  <2>2. k \in Nat \ {0} /\ k + 1 # 1 /\ k + 1 \in DOMAIN server_pipe /\ For(k + 1, i)
    BY <1>2, <2>1
  <2>3. Ending(i)
    BY <1>1, <1>5, <2>2 DEF IInv, SessionInv, RequestInv
  <2>4. server_pipe[1].op = "UNMOUNT" => k + 1 <= 1
    BY <1>1, <1>5, <2>2 DEF IInv, SessionInv, UnmountInv
  <2> QED
    BY <2>2, <2>3, <2>4
<1>6. ASSUME NEW i \in Slots, NEW h \in Handle \cup {-1, OutsideTable},
             UNCHANGED <<wake_up, worker, request, ret>>, Carries(i, h)'
      PROVE  Carries(i, h)
    BY <1>1, <1>2, <1>6 DEF Carries
<1> QED
    BY <1>2, <1>3, <1>4, <1>5, <1>6

\* The parts about messages do not need the one that is read.
LEMMA ReadMessages ==
    ASSUME IInv, NEW op, Read(op), main' = "slait_open" => name' \in Clients
    PROVE  MessageInv'
<1>1. \A k \in DOMAIN server_pipe' : k + 1 \in DOMAIN server_pipe /\ server_pipe'[k] = server_pipe[k + 1]
    BY ReadFacts DEF IInv
<1> QED
    BY <1>1 DEF IInv, SessionInv, MessageInv

\* The other messages keep their order, and a slot its one message.
LEMMA ReadOrder ==
    ASSUME IInv, NEW op, Read(op), NEW i \in Slots, NEW k \in DOMAIN server_pipe', For(k, i)'
    PROVE  /\ ~Ending(i) => ~Busy(i) /\ \A l \in DOMAIN server_pipe' : For(l, i)' => l = k
           /\ server_pipe'[k].op = "UNMOUNT" =>
                 NoClientOf(i) /\ \A l \in DOMAIN server_pipe' : For(l, i)' => l <= k
           /\ \A c \in Clients : Mounted(c) /\ session_id[c] = i /\ ~Ending(i) => InCall(c, server_pipe'[k].op)
<1>1. up /\ server_pipe'[k] = server_pipe[k + 1]
    BY ReadFacts DEF IInv
<1>2. /\ k \in Nat /\ k + 1 \in DOMAIN server_pipe /\ For(k + 1, i)
      /\ \A l \in DOMAIN server_pipe' : For(l, i)' => l \in Nat /\ l + 1 \in DOMAIN server_pipe /\ For(l + 1, i)
    BY ReadEffect
<1>3. ASSUME ~Ending(i)
      PROVE  ~Busy(i) /\ \A l \in DOMAIN server_pipe' : For(l, i)' => l = k
  <2>1. ~Busy(i) /\ \A l \in DOMAIN server_pipe : For(l, i) => l = k + 1
    BY <1>1, <1>2, <1>3 DEF IInv, SessionInv, RequestInv
  <2> QED
    BY <1>2, <2>1
<1>4. ASSUME server_pipe'[k].op = "UNMOUNT"
      PROVE  NoClientOf(i) /\ \A l \in DOMAIN server_pipe' : For(l, i)' => l <= k
  <2>1. NoClientOf(i) /\ \A l \in DOMAIN server_pipe : For(l, i) => l <= k + 1
    BY <1>1, <1>2, <1>4 DEF IInv, SessionInv, UnmountInv
  <2> QED
    BY <1>2, <2>1
<1>5. \A c \in Clients : Mounted(c) /\ session_id[c] = i /\ ~Ending(i) => InCall(c, server_pipe'[k].op)
    BY <1>1, <1>2 DEF IInv, SessionInv, ServedInv, Served
<1> QED
    BY <1>3, <1>4, <1>5

\* A request that main only takes note of, or ignores.
LEMMA PassStep ==
    ASSUME IInv, NEW op, Read(op), UNCHANGED <<fcli, slot, sessionV, workerV, inbox>>,
           main' \in {"read", "slait_open"}, name' \in Clients \cup {NoClient},
           main' = "slait_open" => name' \in Clients
    PROVE  IInv'
<1>1. up /\ main = "read" /\ UNCHANGED <<up, fs>> /\ UNCHANGED <<clientV, inbox>> /\ server_pipe' \in Seq(Requests)
    BY ReadFacts DEF IInv
<1>2. UNCHANGED <<fcli, slot, sessionV, workerV, inbox>>
    OBVIOUS
<1>3. \A j \in Slots : /\ Busy(j)' <=> Busy(j)
                       /\ Ending(j)' <=> Ending(j)
                       /\ MountIn(j)' <=> MountIn(j)
                       /\ Pending(j)' => Pending(j)
    BY <1>2, ReadEffect DEF Busy, Ending, MountIn, workerV
<1>4. Leaving' = Leaving
    BY <1>2, <1>3 DEF Leaving, workerV
<1>5. \A c \in Clients : EndsServer(c)' <=> EndsServer(c)
    BY <1>1, <1>2 DEF EndsServer, sessionV, workerV, clientV
<1>7. TypeOK'
    BY <1>1, <1>2 DEF IInv, TypeOK, sessionV, workerV, clientV, fs
<1>8. ShutdownInv' /\ WorkerInv'
    BY <1>1, <1>2, <1>3 DEF IInv, ShutdownInv, WorkerInv, workerV, sessionV, fs
<1>9. MessageInv' /\ ClientInv' /\ PipeInv'
    BY <1>1, <1>2, SameAnswers, ReadMessages DEF IInv, SessionInv, PipeInv, sessionV, workerV
<1>10. SlotInv'
    BY <1>1, <1>2, <1>3 DEF IInv, SessionInv, SlotInv, Unused, sessionV
<1>11. RequestInv' /\ UnmountInv'
    BY <1>1, <1>3, <1>4, SameAnswers, ReadOrder DEF IInv, SessionInv, RequestInv, UnmountInv
<1>12. MountInv'
    BY <1>1, <1>2, <1>3, SameAnswers DEF IInv, SessionInv, MountInv, sessionV, workerV
<1>14. GrantInv' /\ OwnerInv'
    BY <1>1, <1>2, <1>3, SameAnswers DEF IInv, SessionInv, GrantInv, OwnerInv, sessionV, workerV, clientV
<1>15. ServedInv'
  <2>1. SUFFICES ASSUME NEW c \in Clients, Mounted(c)
        PROVE  session_id[c] \in Slots /\ Served(c, session_id[c])'
    BY <1>1, SameAnswers DEF ServedInv, clientV
  <2>2. session_id[c] \in Slots /\ Served(c, session_id[c])
    BY <1>1, <2>1 DEF IInv, SessionInv, ServedInv
  <2> QED
    BY <1>1, <1>2, <1>3, <2>1, <2>2, SameAnswers, ReadOrder DEF Served, sessionV, workerV, clientV
<1>16. AnswerInv'
    BY <1>1, <1>5, SameAnswers DEF IInv, SessionInv, AnswerInv, clientV
<1>17. SessionsCounted'
    BY <1>1, <1>2, <1>4 DEF IInv, SessionInv, SessionsCounted, FreeSlots, sessionV
<1>18. HandleInv'
  <2>1. \A j \in Slots, h \in Handle \cup {-1, OutsideTable} : Carries(j, h)' => Carries(j, h)
    BY <1>2, ReadEffect DEF workerV
  <2> QED
    BY <1>1, <2>1, SameAnswers DEF IInv, HandleInv, fs
<1>19. SessionInv'
    BY <1>9, <1>10, <1>11, <1>12, <1>14, <1>15, <1>16, <1>17 DEF SessionInv
<1> QED
    BY <1>7, <1>8, <1>18, <1>19 DEF IInv

\* main reads a mount.
LEMMA HandleMountStep ==
    ASSUME IInv, HandleMount
    PROVE  IInv'
<1>1. server_pipe[1].op = "MOUNT" /\ name' = server_pipe[1].name /\ 1 \in DOMAIN server_pipe
    BY ReadFacts DEF IInv, HandleMount
<1>2. name' \in Clients
    BY <1>1 DEF IInv, SessionInv, MessageInv
<1> QED
    BY <1>2, PassStep DEF HandleMount

\* main reads an unmount that it ignores.
LEMMA UnmountIgnoredStep ==
    ASSUME IInv, HandleUnmount, main' = main
    PROVE  IInv'
<1>1. Read("UNMOUNT") /\ main = "read" /\ UNCHANGED <<name, fcli, slot, sessionV, inbox, workerV>>
    BY ReadFacts DEF IInv, HandleUnmount
<1>2. name' \in Clients \cup {NoClient}
    BY <1>1 DEF IInv, TypeOK
<1> QED
    BY <1>1, <1>2, PassStep

\* Post writes to one request and wakes one worker.
LEMMA PostFacts ==
    ASSUME TypeOK, NEW i \in Slots, NEW r, Post(i, r)
    PROVE  /\ request'[i] = r /\ wake_up'[i] = TRUE /\ UNCHANGED <<worker, ret>>
           /\ \A j \in Slots : j # i => request'[j] = request[j] /\ wake_up'[j] = wake_up[j]
           /\ wake_up' \in [Slots -> BOOLEAN]
           /\ r \in [op : Ops \cup {"none"}, fcli : Pipes, fhandler : Handle \cup {-1, OutsideTable}] =>
                 request' \in [Slots -> [op : Ops \cup {"none"}, fcli : Pipes,
                                         fhandler : Handle \cup {-1, OutsideTable}]]
BY DEF TypeOK, Post

\* tfs_handle_open, _close, _read, _write and _shutdown: the request goes to its worker.
LEMMA PostStep ==
    ASSUME IInv, NEW op \in {"OPEN", "CLOSE", "READ", "WRITE", "SHUTDOWN"}, Read(op),
           NEW i, i = server_pipe[1].session_id,
           NEW r \in [op : Ops \cup {"none"}, fcli : Pipes, fhandler : Handle \cup {-1, OutsideTable}],
           Post(i, r), r.op = op, r.fcli = request[i].fcli,
           op = "CLOSE" => r.fhandler = server_pipe[1].fhandle /\ r.fhandler # -1,
           UNCHANGED <<mainV, sessionV, inbox>>
    PROVE  IInv'
<1>1. /\ up /\ main = "read" /\ UNCHANGED <<up, fs>> /\ UNCHANGED <<clientV, inbox>>
      /\ server_pipe' \in Seq(Requests) /\ 1 \in DOMAIN server_pipe /\ server_pipe[1].op = op
    BY ReadFacts DEF IInv
<1>2. UNCHANGED <<mainV, sessionV, inbox>>
    OBVIOUS
<1>3. i \in Slots
    BY <1>1 DEF IInv, SessionInv, MessageInv
<1>4. /\ request'[i] = r /\ wake_up'[i] = TRUE /\ UNCHANGED <<worker, ret>>
      /\ \A j \in Slots : j # i => request'[j] = request[j] /\ wake_up'[j] = wake_up[j]
    BY <1>3, PostFacts DEF IInv
<1>5. For(1, i)
    BY DEF For
<1>6. Pending(i) /\ i \notin Leaving /\ (~Ending(i) => ~Busy(i) /\ ~Pending(i)')
    BY <1>3, <1>5, ReadEffect
<1>7. \A j \in Slots : /\ Busy(j)' <=> (Busy(j) \/ j = i)
                       /\ Ending(j)' <=> Ending(j)
                       /\ MountIn(j)' <=> MountIn(j)
                       /\ Pending(j)' => Pending(j)
                       /\ MountIn(j) => request'[j] = request[j]
  <2>1. \A j \in Slots : /\ Busy(j)' <=> (Busy(j) \/ j = i)
                         /\ Ending(j)' <=> Ending(j)
    BY <1>4 DEF Busy, Ending
  <2>2. \A j \in Slots : (MountIn(j)' <=> MountIn(j)) /\ (MountIn(j) => request'[j] = request[j])
    BY <1>4, <1>6, <2>1 DEF MountIn
  <2> QED
    BY <2>1, <2>2, ReadEffect
<1>8. Leaving' = Leaving
    BY <1>4, <1>6, <1>7 DEF Leaving
<1>9. \A c \in Clients : EndsServer(c)' <=> EndsServer(c)
    BY <1>1, <1>2, <1>4 DEF EndsServer, sessionV, clientV
<1>10. TypeOK'
  <2>1. /\ wake_up' \in [Slots -> BOOLEAN]
        /\ request' \in [Slots -> [op : Ops \cup {"none"}, fcli : Pipes, fhandler : Handle \cup {-1, OutsideTable}]]
    BY <1>3, PostFacts DEF IInv
  <2> QED
    BY <1>1, <1>2, <1>4, <2>1, ZenonT(60) DEF IInv, TypeOK, mainV, sessionV, clientV, fs
<1>11. ShutdownInv'
    BY <1>1, <1>4, <1>7 DEF IInv, ShutdownInv, fs
<1>12. WorkerInv'
  <2>1. ~Ending(i) => worker[i] = "wait"
    BY <1>6 DEF Busy
  <2> QED
    BY <1>2, <1>4, <1>7, <2>1 DEF IInv, WorkerInv, sessionV, Ops
<1>13. MessageInv' /\ ClientInv'
    BY <1>1, <1>2, SameAnswers, ReadMessages DEF IInv, SessionInv, mainV
<1>14. PipeInv'
    BY <1>1, <1>2, <1>3, <1>4, SameAnswers DEF IInv, SessionInv, PipeInv, mainV, sessionV
<1>15. SlotInv'
    BY <1>2, <1>6, <1>7 DEF IInv, SessionInv, SlotInv, Unused, mainV, sessionV
<1>16. RequestInv'
  <2>1. \A j \in Slots : ~Ending(j) => \A k \in DOMAIN server_pipe' :
           For(k, j)' => ~Busy(j) /\ j # i /\ \A l \in DOMAIN server_pipe' : For(l, j)' => l = k
    BY <1>6, ReadOrder DEF Pending
  <2> QED
    BY <1>7, <2>1 DEF RequestInv
<1>17. UnmountInv'
    BY <1>1, <1>7, <1>8, SameAnswers, ReadOrder DEF IInv, SessionInv, UnmountInv
<1>18. MountInv'
    BY <1>1, <1>2, <1>4, <1>7, SameAnswers DEF IInv, SessionInv, MountInv, mainV, sessionV
<1>19. GrantInv'
    BY <1>1, <1>2, <1>6, <1>7, SameAnswers DEF IInv, SessionInv, GrantInv, sessionV, clientV
<1>20. OwnerInv'
    BY <1>1, <1>2, <1>4, SameAnswers DEF IInv, SessionInv, OwnerInv, sessionV, clientV
<1>21. ServedInv'
  <2>1. SUFFICES ASSUME NEW c \in Clients, Mounted(c)
        PROVE  session_id[c] \in Slots /\ Served(c, session_id[c])'
    BY <1>1, SameAnswers DEF ServedInv, clientV
  <2>2. session_id[c] \in Slots /\ Served(c, session_id[c])
    BY <1>1, <2>1 DEF IInv, SessionInv, ServedInv
  <2>3. PICK s \in Slots : s = session_id[c]
    BY <2>2
  <2>4. free_sessions' = free_sessions /\ fhandler' = fhandler /\ Pipe(c)' = Pipe(c) /\ session_id' = session_id
        /\ \A o : InCall(c, o)' <=> InCall(c, o)
    BY <1>1, <1>2, SameAnswers DEF sessionV, clientV
  <2>5. ~Ending(s) => \A k \in DOMAIN server_pipe' : For(k, s)' => InCall(c, server_pipe'[k].op)
    BY <2>1, <2>3, ReadOrder
  <2>6. ~Ending(s) /\ Busy(s)' => InCall(c, request'[s].op)
    BY <1>1, <1>4, <1>5, <1>7, <2>2, <2>3 DEF Served
  <2>7. Served(c, s)'
    BY <1>7, <2>2, <2>3, <2>4, <2>5, <2>6 DEF Served
  <2> QED
    BY <2>3, <2>4, <2>7
<1>22. AnswerInv'
    BY <1>1, <1>9, SameAnswers DEF IInv, SessionInv, AnswerInv, clientV
<1>23. SessionsCounted'
    BY <1>2, <1>8 DEF IInv, SessionInv, SessionsCounted, FreeSlots, mainV, sessionV
<1>24. HandleInv'
  <2>1. ASSUME ~down, NEW j \in Slots, NEW h \in Handle \cup {-1, OutsideTable}, Carries(j, h)'
        PROVE  Carries(j, h)
    <3>1. CASE j # i
      BY <1>4, <2>1, <3>1, ReadEffect, ReadFacts DEF Carries, IInv
    <3>2. CASE j = i
      <4>1. ~Busy(i) /\ ~Pending(i)'
        BY <1>1, <1>3, <1>6, <2>1 DEF IInv, ShutdownInv
      <4>2. worker'[i] = "wait" /\ op = "CLOSE" /\ r.fhandler = h
        BY <1>4, <2>1, <3>2, <4>1 DEF Carries, Busy, Pending
      <4>3. h # OutsideTable /\ h # -1 /\ server_pipe[1].fhandle = h
        BY <1>1, <4>2 DEF IInv, SessionInv, MessageInv
      <4>4. h >= 0
        BY <4>3, HandleFacts
      <4> QED
        BY <1>1, <1>5, <3>2, <4>2, <4>3, <4>4 DEF Carries
    <3> QED
      BY <3>1, <3>2
  <2> QED
    BY <1>1, <2>1, SameAnswers DEF IInv, HandleInv, fs
<1>25. SessionInv'
    BY <1>13, <1>14, <1>15, <1>16, <1>17, <1>18, <1>19, <1>20, <1>21, <1>22, <1>23 DEF SessionInv
<1> QED
    BY <1>10, <1>11, <1>12, <1>24, <1>25 DEF IInv

\* The fields of a request.
LEMMA RequestType ==
    ASSUME TypeOK, NEW i \in Slots
    PROVE  /\ request[i] \in [op : Ops \cup {"none"}, fcli : Pipes, fhandler : Handle \cup {-1, OutsideTable}]
           /\ request[i].fcli \in Pipes /\ request[i].fhandler \in Handle \cup {-1, OutsideTable}
BY DEF TypeOK

\* tfs_handle_open.
LEMMA HandleOpenStep ==
    ASSUME IInv, HandleOpen
    PROVE  IInv'
<1>1. PICK i, r : /\ i = server_pipe[1].session_id /\ r = [request[i] EXCEPT !.op = "OPEN"]
                  /\ Post(i, r)
    BY ReadFacts DEF IInv, HandleOpen
<1>2. i \in Slots
    BY <1>1, ReadFacts DEF IInv, SessionInv, MessageInv, HandleOpen
<1>3. r \in [op : Ops \cup {"none"}, fcli : Pipes, fhandler : Handle \cup {-1, OutsideTable}]
      /\ r.op = "OPEN" /\ r.fcli = request[i].fcli
  <2>1. request[i] \in [op : Ops \cup {"none"}, fcli : Pipes, fhandler : Handle \cup {-1, OutsideTable}]
    BY <1>2, RequestType DEF IInv
  <2>2. "OPEN" \in Ops \cup {"none"}
    BY DEF Ops
  <2> QED
    BY <1>1, <2>1, <2>2
<1> QED
    BY <1>1, <1>3, PostStep DEF HandleOpen

\* main hands a shutdown to its worker.
LEMMA HandleShutdownStep ==
    ASSUME IInv, HandleShutdown
    PROVE  IInv'
<1>1. PICK i, r : /\ i = server_pipe[1].session_id /\ r = [request[i] EXCEPT !.op = "SHUTDOWN"]
                  /\ Post(i, r)
    BY ReadFacts DEF IInv, HandleShutdown
<1>2. i \in Slots
    BY <1>1, ReadFacts DEF IInv, SessionInv, MessageInv, HandleShutdown
<1>3. r \in [op : Ops \cup {"none"}, fcli : Pipes, fhandler : Handle \cup {-1, OutsideTable}]
      /\ r.op = "SHUTDOWN" /\ r.fcli = request[i].fcli
  <2>1. request[i] \in [op : Ops \cup {"none"}, fcli : Pipes, fhandler : Handle \cup {-1, OutsideTable}]
    BY <1>2, RequestType DEF IInv
  <2>2. "SHUTDOWN" \in Ops \cup {"none"}
    BY DEF Ops
  <2> QED
    BY <1>1, <2>1, <2>2
<1> QED
    BY <1>1, <1>3, PostStep DEF HandleShutdown

\* tfs_handle_close for the handle -1: main answers by itself.
LEMMA AnswerItselfStep ==
    ASSUME IInv, NEW op \in {"CLOSE", "READ", "WRITE"}, Read(op),
           NEW i, i = server_pipe[1].session_id, NEW val, val = -1,
           Reply(fhandler[i], op, val), UNCHANGED <<mainV, sessionV, workerV>>
    PROVE  IInv'
<1>1. /\ up /\ main = "read" /\ UNCHANGED <<up, fs>> /\ UNCHANGED clientV
      /\ server_pipe' \in Seq(Requests) /\ 1 \in DOMAIN server_pipe /\ server_pipe[1].op = op
    BY ReadFacts DEF IInv
<1>2. UNCHANGED <<mainV, sessionV, workerV>>
    OBVIOUS
<1>3. i \in Slots
    BY <1>1 DEF IInv, SessionInv, MessageInv
<1>4. For(1, i)
    BY DEF For
<1>5. Pending(i) /\ (~Ending(i) => ~Busy(i) /\ ~Pending(i)') /\ worker[i] # "mount_answer"
    BY <1>3, <1>4, ReadEffect DEF Busy, Ending
<1>6. op \in Ops \ {"MOUNT"} /\ val \in Int
    BY DEF Ops
<1>7. inbox' \in [Clients -> Seq([op : Ops, val : Int])]
    BY <1>6, ReplyEffect DEF IInv
<1>8. ASSUME NEW c \in Clients, inbox'[c] # inbox[c]
      PROVE  /\ Mounted(c) /\ session_id[c] = i /\ fhandler[i] = Pipe(c)
             /\ ~Ending(i) => InCall(c, op) /\ Answer(c, op, val)'
             /\ \A k \in DOMAIN inbox'[c] :
                   \/ k \in DOMAIN inbox[c] /\ inbox'[c][k] = inbox[c][k]
                   \/ inbox'[c][k].op = op /\ inbox'[c][k].val = val
             /\ \A o, v : Answer(c, o, v)' => o = op /\ v = val
  <2>1. /\ Mounted(c) /\ session_id[c] = i /\ fhandler[i] = Pipe(c)
        /\ inbox[c] = <<>> => Answer(c, op, val)'
        /\ \A k \in DOMAIN inbox'[c] :
              \/ k \in DOMAIN inbox[c] /\ inbox'[c][k] = inbox[c][k]
              \/ inbox'[c][k].op = op /\ inbox'[c][k].val = val
        /\ \A o, v : Answer(c, o, v)' => o = op /\ v = val
    BY <1>1, <1>3, <1>5, <1>6, <1>8, OwnAnswer
  <2>2. ~Ending(i) => InCall(c, op)
    BY <1>1, <1>4, <2>1 DEF IInv, SessionInv, ServedInv, Served
  <2> QED
    BY <2>1, <2>2 DEF InCall
<1>9. \A j \in Slots : /\ Busy(j)' <=> Busy(j)
                       /\ Ending(j)' <=> Ending(j)
                       /\ MountIn(j)' <=> MountIn(j)
                       /\ Pending(j)' => Pending(j)
    BY <1>2, ReadEffect DEF Busy, Ending, MountIn, workerV
<1>10. Leaving' = Leaving
    BY <1>2, <1>9 DEF Leaving, workerV
<1>11. \A c \in Clients : EndsServer(c)' <=> EndsServer(c)
    BY <1>1, <1>2 DEF EndsServer, sessionV, workerV, clientV
<1>12. \A c \in Clients : /\ Awaits(c)' <=> Awaits(c)
                          /\ \A j : Answer(c, "MOUNT", j)' => Answer(c, "MOUNT", j)
                          /\ ~Mounted(c) => \A j : Answer(c, "MOUNT", j)' <=> Answer(c, "MOUNT", j)
                          /\ \A h : Holds(c, h)' => Holds(c, h)
  <2>1. SUFFICES ASSUME NEW c \in Clients
        PROVE  /\ Awaits(c)' <=> Awaits(c)
               /\ \A j : Answer(c, "MOUNT", j)' => Answer(c, "MOUNT", j)
               /\ ~Mounted(c) => \A j : Answer(c, "MOUNT", j)' <=> Answer(c, "MOUNT", j)
               /\ \A h : Holds(c, h)' => Holds(c, h)
    OBVIOUS
  <2>2. CASE inbox'[c] = inbox[c]
    BY <1>1, <2>2, SameClients DEF Holds, clientV
  <2>3. CASE inbox'[c] # inbox[c]
    <3>1. Mounted(c) /\ \A o, v : Answer(c, o, v)' => o = op
      BY <1>8, <2>3
    <3>2. ~Awaits(c) /\ ~Awaits(c)'
      BY <1>1, <3>1, SameClients DEF Awaits, Mounted
    <3>3. \A h : Holds(c, h)' => Holds(c, h)
      BY <1>1, <3>1 DEF Holds, clientV
    <3> QED
      BY <3>1, <3>2, <3>3
  <2> QED
    BY <2>2, <2>3
<1>13. TypeOK'
    BY <1>1, <1>2, <1>7 DEF IInv, TypeOK, mainV, sessionV, workerV, clientV, fs
<1>14. ShutdownInv' /\ WorkerInv'
    BY <1>1, <1>2, <1>9 DEF IInv, ShutdownInv, WorkerInv, sessionV, workerV, fs
<1>15. MessageInv'
    BY <1>1, <1>2, ReadMessages DEF IInv, SessionInv, mainV
<1>16. ClientInv' /\ PipeInv'
    BY <1>1, <1>2, SameClients DEF IInv, SessionInv, ClientInv, PipeInv, mainV, sessionV, workerV, clientV
<1>17. SlotInv'
    BY <1>2, <1>9 DEF IInv, SessionInv, SlotInv, Unused, mainV, sessionV
<1>18. RequestInv' /\ UnmountInv'
    BY <1>1, <1>9, <1>10, SameClients, ReadOrder DEF IInv, SessionInv, RequestInv, UnmountInv
<1>19. MountInv'
    BY <1>1, <1>2, <1>9, <1>12, SameClients DEF IInv, SessionInv, MountInv, mainV, sessionV, workerV
<1>20. GrantInv'
    BY <1>1, <1>2, <1>9, <1>12, SameClients DEF IInv, SessionInv, GrantInv, sessionV, clientV
<1>21. OwnerInv'
    BY <1>1, <1>2, <1>12, SameClients DEF IInv, SessionInv, OwnerInv, sessionV, workerV, clientV, Mounted
<1>22. ServedInv'
  <2>1. SUFFICES ASSUME NEW c \in Clients, Mounted(c)
        PROVE  session_id[c] \in Slots /\ Served(c, session_id[c])'
    BY <1>1, SameClients DEF ServedInv, clientV
  <2>2. session_id[c] \in Slots /\ Served(c, session_id[c])
    BY <1>1, <2>1 DEF IInv, SessionInv, ServedInv
  <2>3. PICK s \in Slots : s = session_id[c]
    BY <2>2
  <2>4. free_sessions' = free_sessions /\ fhandler' = fhandler /\ Pipe(c)' = Pipe(c) /\ session_id' = session_id
        /\ request' = request
    BY <1>1, <1>2, SameClients DEF sessionV, workerV, clientV
  <2>5. CASE s = i
    BY <1>5, <1>9, <2>2, <2>3, <2>4, <2>5 DEF Served, Pending
  <2>6. CASE s # i
    <3>1. \A o : InCall(c, o)' <=> InCall(c, o)
      BY <1>1, <1>8, <2>3, <2>6, SameClients
    <3>2. ~Ending(s) => \A k \in DOMAIN server_pipe' : For(k, s)' => InCall(c, server_pipe'[k].op)
      BY <2>1, <2>3, ReadOrder
    <3>3. Served(c, s)'
      BY <1>9, <2>2, <2>3, <2>4, <3>1, <3>2 DEF Served
    <3> QED
      BY <2>3, <2>4, <3>3
  <2> QED
    BY <2>2, <2>5, <2>6
<1>23. AnswerInv'
  <2>1. SUFFICES ASSUME NEW c \in Clients
        PROVE  /\ inbox'[c] # <<>> /\ ~EndsServer(c) =>
                     cpc[c] = "reply" /\ \E v \in Int : Answer(c, call[c], v)'
               /\ EndsServer(c) => \A k \in DOMAIN inbox'[c] : inbox'[c][k].val \in {0, -1}
               /\ \A k \in DOMAIN inbox'[c] :
                     /\ inbox'[c][k].op = "MOUNT" => inbox'[c][k].val \in Slots \cup {-1}
                     /\ inbox'[c][k].op = "OPEN" => inbox'[c][k].val \in Handle \cup {-1}
    BY <1>1, <1>11 DEF AnswerInv, clientV
  <2>2. CASE inbox'[c] = inbox[c]
    <3>1. \A v : Answer(c, call[c], v)' <=> Answer(c, call[c], v)
      BY <1>1, <2>2, SameClients DEF clientV
    <3> QED
      BY <2>2, <3>1 DEF IInv, SessionInv, AnswerInv
  <2>3. CASE inbox'[c] # inbox[c]
    <3>1. /\ Mounted(c) /\ session_id[c] = i /\ fhandler[i] = Pipe(c)
          /\ ~Ending(i) => InCall(c, op) /\ Answer(c, op, val)'
          /\ \A k \in DOMAIN inbox'[c] :
                \/ k \in DOMAIN inbox[c] /\ inbox'[c][k] = inbox[c][k]
                \/ inbox'[c][k].op = op /\ inbox'[c][k].val = val
      BY <1>8, <2>3
    <3>2. Ending(i) => EndsServer(c)
      BY <1>3, <3>1 DEF EndsServer, Ending, Pipe
    <3>3. EndsServer(c) => \A k \in DOMAIN inbox[c] : inbox[c][k].val \in {0, -1}
      BY DEF IInv, SessionInv, AnswerInv
    <3>4. \A k \in DOMAIN inbox[c] : /\ inbox[c][k].op = "MOUNT" => inbox[c][k].val \in Slots \cup {-1}
                                     /\ inbox[c][k].op = "OPEN" => inbox[c][k].val \in Handle \cup {-1}
      BY DEF IInv, SessionInv, AnswerInv
    <3>5. ~Ending(i) => cpc[c] = "reply" /\ call[c] = op
      BY <3>1 DEF InCall
    <3>6. ~EndsServer(c) => cpc[c] = "reply" /\ \E v \in Int : Answer(c, call[c], v)'
      BY <1>1, <1>6, <3>1, <3>2, <3>5 DEF clientV
    <3> QED
      BY <3>1, <3>3, <3>4, <3>6
  <2> QED
    BY <2>2, <2>3
<1>24. SessionsCounted'
    BY <1>2, <1>10 DEF IInv, SessionInv, SessionsCounted, FreeSlots, mainV, sessionV
<1>25. HandleInv'
  <2>1. \A j \in Slots, h \in Handle \cup {-1, OutsideTable} : Carries(j, h)' => Carries(j, h)
    BY <1>2, ReadEffect DEF workerV
  <2> QED
    BY <1>1, <1>12, <2>1 DEF IInv, HandleInv, fs
<1>26. SessionInv'
    BY <1>15, <1>16, <1>17, <1>18, <1>19, <1>20, <1>21, <1>22, <1>23, <1>24 DEF SessionInv
<1> QED
    BY <1>13, <1>14, <1>25, <1>26 DEF IInv

\* tfs_handle_close, _read and _write.
LEMMA HandleFileOpStep ==
    ASSUME IInv, NEW op \in {"CLOSE", "WRITE", "READ"}, HandleFileOp(op)
    PROVE  IInv'
<1>1. PICK i : i = server_pipe[1].session_id
    OBVIOUS
<1>2. /\ Read(op) /\ 1 \in DOMAIN server_pipe /\ Head(server_pipe) = server_pipe[1]
      /\ server_pipe[1].op = op /\ server_pipe[1] \in Requests
    BY ReadFacts DEF IInv, HandleFileOp
<1>3. i \in Slots
    BY <1>1, <1>2 DEF IInv, SessionInv, MessageInv
<1>4. CASE server_pipe[1].fhandle = -1
  <2>1. Reply(fhandler[i], op, -1) /\ UNCHANGED <<mainV, sessionV, workerV>>
    BY <1>1, <1>2, <1>4 DEF HandleFileOp
  <2> QED
    BY <1>1, <1>2, <2>1, AnswerItselfStep
<1>5. CASE server_pipe[1].fhandle # -1
  <2>1. PICK r : r = [request[i] EXCEPT !.op = op, !.fhandler = server_pipe[1].fhandle]
    OBVIOUS
  <2>2. Post(i, r) /\ UNCHANGED <<mainV, sessionV, inbox>>
    BY <1>1, <1>2, <1>5, <2>1 DEF HandleFileOp
  <2>3. server_pipe[1].fhandle \in Handle \cup {-1, OutsideTable} /\ op \in Ops
    BY <1>2 DEF Requests, Ops
  <2>4. /\ r \in [op : Ops \cup {"none"}, fcli : Pipes, fhandler : Handle \cup {-1, OutsideTable}]
        /\ r.op = op /\ r.fcli = request[i].fcli /\ r.fhandler = server_pipe[1].fhandle
    <3>1. request[i] \in [op : Ops \cup {"none"}, fcli : Pipes, fhandler : Handle \cup {-1, OutsideTable}]
      BY <1>3, RequestType DEF IInv
    <3> QED
      BY <2>1, <2>3, <3>1
  <2> QED
    BY <1>1, <1>2, <1>5, <2>2, <2>4, PostStep
<1> QED
    BY <1>4, <1>5

\* tfs_handle_unmount for a session: its worker is told, and main counts it off next.
LEMMA HandleUnmountStep ==
    ASSUME IInv, HandleUnmount
    PROVE  IInv'
<1>1. /\ up /\ main = "read" /\ UNCHANGED <<up, fs>> /\ UNCHANGED <<clientV, inbox>> /\ Read("UNMOUNT")
      /\ server_pipe' \in Seq(Requests) /\ 1 \in DOMAIN server_pipe /\ Head(server_pipe) = server_pipe[1]
      /\ server_pipe[1].op = "UNMOUNT" /\ server_pipe[1] \in Requests
    BY ReadFacts DEF IInv, HandleUnmount
<1>2. SUFFICES ASSUME main' # main
      PROVE  IInv'
    BY UnmountIgnoredStep
<1>3. PICK i : i = server_pipe[1].session_id
    OBVIOUS
<1>4. PICK r : r = [request[i] EXCEPT !.op = "UNMOUNT"]
    OBVIOUS
<1>5. i # -1 /\ main' = "unmount_count" /\ Post(i, r) /\ UNCHANGED <<name, fcli, slot, sessionV>>
    BY <1>1, <1>2, <1>3, <1>4 DEF HandleUnmount
<1>6. i \in Slots
    BY <1>1, <1>3, <1>5 DEF Requests
<1>7. r \in [op : Ops \cup {"none"}, fcli : Pipes, fhandler : Handle \cup {-1, OutsideTable}]
      /\ r.op = "UNMOUNT" /\ r.fcli = request[i].fcli
  <2>1. request[i] \in [op : Ops \cup {"none"}, fcli : Pipes, fhandler : Handle \cup {-1, OutsideTable}]
    BY <1>6, RequestType DEF IInv
  <2>2. "UNMOUNT" \in Ops \cup {"none"}
    BY DEF Ops
  <2> QED
    BY <1>4, <2>1, <2>2
<1>8. /\ request'[i] = r /\ wake_up'[i] = TRUE /\ UNCHANGED <<worker, ret>>
      /\ \A j \in Slots : j # i => request'[j] = request[j] /\ wake_up'[j] = wake_up[j]
    BY <1>5, <1>6, PostFacts DEF IInv
<1>9. For(1, i)
    BY <1>3 DEF For
<1>10. Pending(i) /\ i \notin Leaving /\ (~Ending(i) => ~Busy(i)) /\ ~Pending(i)' /\ NoClientOf(i)
  <2>1. NoClientOf(i)
    BY <1>1, <1>6, <1>9 DEF IInv, SessionInv, UnmountInv
  <2> QED
    BY <1>1, <1>6, <1>9, <2>1, ReadEffect
<1>11. \A j \in Slots : /\ Busy(j)' <=> (Busy(j) \/ j = i)
                        /\ Ending(j)' <=> Ending(j)
                        /\ MountIn(j)' <=> MountIn(j)
                        /\ Pending(j)' => Pending(j)
                        /\ MountIn(j) => request'[j] = request[j]
  <2>1. \A j \in Slots : /\ Busy(j)' <=> (Busy(j) \/ j = i)
                         /\ Ending(j)' <=> Ending(j)
    BY <1>8 DEF Busy, Ending
  <2>2. \A j \in Slots : (MountIn(j)' <=> MountIn(j)) /\ (MountIn(j) => request'[j] = request[j])
    BY <1>7, <1>8, <1>10, <2>1 DEF MountIn
  <2> QED
    BY <1>1, <2>1, <2>2, ReadEffect
<1>12. Leaving' = Leaving \cup {i}
    BY <1>6, <1>7, <1>8, <1>11 DEF Leaving
<1>13. \A c \in Clients : EndsServer(c)' <=> EndsServer(c)
    BY <1>1, <1>5, <1>8 DEF EndsServer, sessionV, clientV
<1>14. TypeOK'
  <2>1. /\ wake_up' \in [Slots -> BOOLEAN]
        /\ request' \in [Slots -> [op : Ops \cup {"none"}, fcli : Pipes, fhandler : Handle \cup {-1, OutsideTable}]]
    BY <1>5, <1>6, <1>7, PostFacts DEF IInv
  <2> QED
    BY <1>1, <1>5, <1>8, <2>1 DEF IInv, TypeOK, sessionV, clientV, fs
<1>15. ShutdownInv'
    BY <1>1, <1>8, <1>11 DEF IInv, ShutdownInv, fs
<1>16. WorkerInv'
  <2>1. ~Ending(i) => worker[i] = "wait"
    BY <1>10 DEF Busy
  <2> QED
    BY <1>5, <1>7, <1>8, <1>11, <2>1 DEF IInv, WorkerInv, sessionV, Ops
<1>17. MessageInv' /\ ClientInv'
    BY <1>1, <1>5, SameAnswers, ReadMessages DEF IInv, SessionInv
<1>18. PipeInv'
    BY <1>1, <1>5, <1>6, <1>7, <1>8, SameAnswers DEF IInv, SessionInv, PipeInv, sessionV
<1>19. SlotInv'
    BY <1>5, <1>10, <1>11 DEF IInv, SessionInv, SlotInv, Unused, sessionV
<1>20. RequestInv'
  <2>1. \A j \in Slots : ~Ending(j) => \A k \in DOMAIN server_pipe' :
           For(k, j)' => ~Busy(j) /\ j # i /\ \A l \in DOMAIN server_pipe' : For(l, j)' => l = k
    BY <1>1, <1>10, ReadOrder DEF Pending
  <2> QED
    BY <1>11, <2>1 DEF RequestInv
<1>21. UnmountInv'
    BY <1>1, <1>10, <1>11, <1>12, SameAnswers, ReadOrder DEF IInv, SessionInv, UnmountInv
<1>22. MountInv'
    BY <1>1, <1>5, <1>8, <1>11, SameAnswers DEF IInv, SessionInv, MountInv, sessionV
<1>23. GrantInv'
    BY <1>1, <1>5, <1>10, <1>11, SameAnswers DEF IInv, SessionInv, GrantInv, sessionV, clientV
<1>24. OwnerInv'
    BY <1>1, <1>5, <1>8, SameAnswers DEF IInv, SessionInv, OwnerInv, sessionV, clientV
<1>25. ServedInv'
  <2>1. SUFFICES ASSUME NEW c \in Clients, Mounted(c)
        PROVE  session_id[c] \in Slots /\ Served(c, session_id[c])'
    BY <1>1, SameAnswers DEF ServedInv, clientV
  <2>2. session_id[c] \in Slots /\ Served(c, session_id[c])
    BY <1>1, <2>1 DEF IInv, SessionInv, ServedInv
  <2>3. PICK s \in Slots : s = session_id[c] /\ s # i
    BY <1>10, <2>1, <2>2 DEF NoClientOf
  <2>4. free_sessions' = free_sessions /\ fhandler' = fhandler /\ Pipe(c)' = Pipe(c) /\ session_id' = session_id
        /\ \A o : InCall(c, o)' <=> InCall(c, o)
    BY <1>1, <1>5, SameAnswers DEF sessionV, clientV
  <2>5. ~Ending(s) => \A k \in DOMAIN server_pipe' : For(k, s)' => InCall(c, server_pipe'[k].op)
    BY <1>1, <2>1, <2>3, ReadOrder
  <2>6. Served(c, s)'
    BY <1>8, <1>11, <2>2, <2>3, <2>4, <2>5 DEF Served
  <2> QED
    BY <2>3, <2>4, <2>6
<1>26. AnswerInv'
    BY <1>1, <1>13, SameAnswers DEF IInv, SessionInv, AnswerInv, clientV
<1>27. SessionsCounted'
  <2>1. Cardinality(Leaving') = Cardinality(Leaving) + 1
    BY <1>10, <1>12, SlotSets, FS_AddElement
  <2>2. (Slots \ FreeSlots)' = Slots \ FreeSlots /\ open_sessions' = open_sessions
    BY <1>5 DEF FreeSlots, sessionV, Slots
  <2>3. open_sessions \in Nat /\ Cardinality(Leaving) \in Nat
    BY SlotSets
  <2>4. Cardinality(Slots \ FreeSlots) = open_sessions + Cardinality(Leaving)
    BY <1>1, <2>3 DEF IInv, SessionInv, SessionsCounted
  <2>5. SessionsCounted' <=> Cardinality(Slots \ FreeSlots) = open_sessions + (Cardinality(Leaving) + 1) + 0 - 1
    BY <1>5, <2>1, <2>2 DEF SessionsCounted
  <2> QED
    BY <2>3, <2>4, <2>5
<1>28. HandleInv'
  <2>1. ASSUME NEW j \in Slots, NEW h \in Handle \cup {-1, OutsideTable}, Carries(j, h)'
        PROVE  Carries(j, h)
    <3>1. CASE j # i
      BY <1>1, <1>8, <2>1, <3>1, ReadEffect, ReadFacts DEF Carries, IInv
    <3>2. CASE j = i
      BY <1>7, <1>8, <1>10, <2>1, <3>2 DEF Carries, Pending
    <3> QED
      BY <3>1, <3>2
  <2> QED
    BY <1>1, <2>1, SameAnswers DEF IInv, HandleInv, fs
<1>29. SessionInv'
    BY <1>17, <1>18, <1>19, <1>20, <1>21, <1>22, <1>23, <1>24, <1>25, <1>26, <1>27 DEF SessionInv
<1> QED
    BY <1>14, <1>15, <1>16, <1>28, <1>29 DEF IInv

\* Main answers a mount with -1: to the client of the pipe it has opened, which waits and
\* to which no slot belongs.
LEMMA RejectFacts ==
    ASSUME IInv, up, NEW c \in Clients, Awaits(c),
           \A i \in Slots : MountIn(i) => request[i].fcli # Pipe(c)
    PROVE  \A i \in Slots : fhandler[i] # Pipe(c)
<1>1. SUFFICES ASSUME NEW i \in Slots, fhandler[i] = Pipe(c)
      PROVE  FALSE
    OBVIOUS
<1>2. HasPipe(c) /\ ~Mounted(c) /\ ~Answer(c, "MOUNT", i)
    BY DEF Awaits, HasPipe, Mounted, Answer
<1>3. worker[i] = "mount_answer"
    BY <1>1, <1>2 DEF IInv, SessionInv, OwnerInv
<1>4. MountIn(i)
    BY <1>3 DEF IInv, WorkerInv, MountIn, Busy, Ending
<1> QED
    BY <1>1, <1>3, <1>4 DEF IInv, SessionInv, MountInv

\* The conditions about slots and requests depend on the variables of the workers, the
\* sessions and the server's pipe.
LEMMA SameSlots ==
    ASSUME UNCHANGED <<server_pipe, workerV>>
    PROVE  /\ \A i \in Slots : /\ Busy(i)' <=> Busy(i)
                               /\ Ending(i)' <=> Ending(i)
                               /\ MountIn(i)' <=> MountIn(i)
                               /\ Pending(i)' <=> Pending(i)
                               /\ \A h : Carries(i, h)' <=> Carries(i, h)
                               /\ \A k : For(k, i)' <=> For(k, i)
           /\ Leaving' = Leaving
BY DEF workerV, Busy, Ending, MountIn, Pending, For, Carries, Leaving

\* tfs_handle_mount opens the client's pipe, and may reject the client at once.
LEMMA MountOpenStep ==
    ASSUME IInv, MountOpen
    PROVE  IInv'
<1>1. /\ up /\ main = "slait_open" /\ cpc[name] = "opening" /\ name \in Clients
      /\ cpc'[name] = "reply" /\ \A c \in Clients : c # name => cpc'[c] = cpc[c]
      /\ fcli' = Pipe(name) /\ main' \in {"read", "find_free_pos"}
      /\ UNCHANGED <<up, server_pipe, name, slot, sessionV, workerV, fs, call, session_id, handles, fd, mounts, calls>>
  <2>1. up /\ main = "slait_open" /\ cpc[name] = "opening"
    BY DEF MountOpen
  <2>2. name \in Clients
    BY <2>1 DEF IInv, SessionInv, MessageInv
  <2>3. cpc'[name] = "reply" /\ \A c \in Clients : c # name => cpc'[c] = cpc[c]
    BY <2>2 DEF IInv, TypeOK, MountOpen
  <2> QED
    BY <2>1, <2>2, <2>3 DEF MountOpen, MountOpened, Pipe
<1>2. PICK n \in Clients : n = name
    BY <1>1
<1>3. /\ HasPipe(n) /\ ~Mounted(n) /\ inbox[n] = <<>> /\ call[n] = "MOUNT"
      /\ \A i \in Slots : fhandler[i] # Pipe(n) /\ request[i].fcli # Pipe(n)
  <2>1. HasPipe(n) /\ ~Mounted(n)
    BY <1>1, <1>2 DEF HasPipe, Mounted
  <2>2. inbox[n] = <<>>
    BY <1>1, <1>2, <2>1, NoAnswer
  <2>3. call[n] = "MOUNT"
    BY <1>1, <1>2 DEF IInv, SessionInv, ClientInv
  <2>4. \A i \in Slots : fhandler[i] # Pipe(n) /\ request[i].fcli # Pipe(n)
    BY <1>1, <1>2, NewPipe DEF IInv, SessionInv
  <2> QED
    BY <2>1, <2>2, <2>3, <2>4
<1>4. /\ inbox' \in [Clients -> Seq([op : Ops, val : Int])]
      /\ \A c \in Clients : c # n => inbox'[c] = inbox[c]
      /\ main' = "find_free_pos" => inbox'[n] = <<>>
      /\ inbox'[n] = <<>> \/ (Answer(n, "MOUNT", -1)' /\ \A o, v : Answer(n, o, v)' => o = "MOUNT" /\ v = -1)
  <2>1. CASE UNCHANGED inbox
    BY <1>3, <2>1 DEF IInv, TypeOK
  <2>2. CASE inbox' # inbox
    <3>1. Reply(Pipe(n), "MOUNT", -1) /\ main' = "read"
      BY <1>2, <2>2 DEF MountOpen, MountOpened, Pipe
    <3>2. TypeOK /\ "MOUNT" \in Ops /\ -1 \in Int
      BY DEF IInv, Ops
    <3>3. /\ inbox' \in [Clients -> Seq([op : Ops, val : Int])]
          /\ \A c \in Clients : Pipe(n) # Pipe(c) => inbox'[c] = inbox[c]
      BY <3>1, <3>2, ReplyEffect
    <3>4. \A c \in Clients : c # n => inbox'[c] = inbox[c]
      BY <3>2, <3>3, PipeFacts
    <3>5. PICK op, val : op = "MOUNT" /\ val = -1
      OBVIOUS
    <3>6. Answer(n, op, val)' /\ \A o, v : Answer(n, o, v)' => o = op /\ v = val
      BY <1>3, <3>1, <3>2, <3>5, ReplyAnswer
    <3> QED
      BY <3>1, <3>3, <3>4, <3>5, <3>6
  <2> QED
    BY <2>1, <2>2
<1>5. /\ \A c \in Clients : /\ Pipe(c)' = Pipe(c)
                            /\ HasPipe(c)' <=> HasPipe(c)
                            /\ Mounted(c)' <=> Mounted(c)
                            /\ Awaits(c) => Awaits(c)'
                            /\ EndsServer(c)' <=> EndsServer(c)
                            /\ c # n => \A op, val : Answer(c, op, val)' <=> Answer(c, op, val)
                            /\ c # n => \A op : InCall(c, op)' <=> InCall(c, op)
      /\ \A i \in Slots : NoClientOf(i)' <=> NoClientOf(i)
  <2>1. \A c \in Clients : /\ Pipe(c)' = Pipe(c)
                           /\ HasPipe(c)' <=> HasPipe(c)
                           /\ Mounted(c)' <=> Mounted(c)
    BY <1>1, <1>2, <1>3 DEF Pipe, HasPipe, Mounted
  <2>2. ~Awaits(n)
    BY <1>1, <1>2 DEF Awaits
  <2>3. \A c \in Clients : Awaits(c) => Awaits(c)'
    BY <1>1, <1>2, <1>4, <2>2 DEF Awaits
  <2>4. \A c \in Clients : c # n => /\ \A op, val : Answer(c, op, val)' <=> Answer(c, op, val)
                                    /\ \A op : InCall(c, op)' <=> InCall(c, op)
    BY <1>1, <1>2, <1>4 DEF Answer, InCall
  <2>5. \A c \in Clients : EndsServer(c)' <=> EndsServer(c)
    BY <1>1 DEF EndsServer, sessionV, workerV
  <2>6. \A i \in Slots : NoClientOf(i)' <=> NoClientOf(i)
    BY <1>1, <2>1 DEF NoClientOf
  <2> QED
    BY <2>1, <2>3, <2>4, <2>5, <2>6
<1>6. main' = "find_free_pos" => Awaits(n)'
    BY <1>1, <1>2, <1>3, <1>4 DEF Awaits
<1>7. UNCHANGED <<server_pipe, workerV>>
    BY <1>1
<1>8. TypeOK'
  <2>1. fcli' \in Pipes
    BY <1>1, <1>2, PipeFacts DEF IInv
  <2>2. cpc' \in [Clients -> {"out", "mkfifo", "mkfifo_again", "opening", "reply", "in", "rejected", "dead"}]
    BY DEF IInv, TypeOK, MountOpen
  <2> QED
    BY <1>1, <1>4, <2>1, <2>2 DEF IInv, TypeOK, sessionV, workerV, fs
<1>9. ShutdownInv' /\ WorkerInv'
    BY <1>1, <1>7, SameSlots DEF IInv, ShutdownInv, WorkerInv, sessionV, workerV, fs
<1>10. MessageInv'
    BY <1>1 DEF IInv, SessionInv, MessageInv
<1>11. PipeInv'
  <2>1. \A p \in Pipes : Made(p) => Made(p)'
    BY <1>1, PipeFacts DEF IInv, Made
  <2>2. Made(Pipe(n))'
    <3>1. Pipe(n)[1] = n /\ Pipe(n)[2] = mounts[n] /\ mounts[n] >= mounts[n] /\ Pipe(n)' = Pipe(n)
      BY <1>5, PipeFacts DEF IInv
    <3> QED
      BY <1>1, <1>2, <3>1 DEF Made
  <2>3. fcli' = Pipe(n)' /\ UNCHANGED <<fhandler, request>>
    BY <1>1, <1>2, <1>5 DEF sessionV, workerV
  <2>4. \A i \in Slots : fhandler[i] \in Pipes /\ request[i].fcli \in Pipes
    BY RequestType DEF IInv, TypeOK
  <2> QED
    BY <2>1, <2>2, <2>3, <2>4 DEF IInv, SessionInv, PipeInv
<1>12. ClientInv'
    BY <1>1, <1>2, <1>3 DEF IInv, SessionInv, ClientInv, Ops
<1>13. SlotInv' /\ RequestInv'
    BY <1>1, <1>7, SameSlots DEF IInv, SessionInv, SlotInv, Unused, RequestInv, sessionV
<1>14. UnmountInv'
    BY <1>1, <1>5, <1>7, SameSlots DEF IInv, SessionInv, UnmountInv
<1>15. MountInv'
  <2>1. \A c \in Clients : main' \in {"find_free_pos", "mount_post"} /\ fcli' = Pipe(c)' =>
            Awaits(c)' /\ \A i \in Slots : MountIn(i)' => request'[i].fcli # Pipe(c)'
    <3>1. \A c \in Clients : fcli' = Pipe(c) => c = n
      BY <1>1, <1>2, PipeFacts DEF IInv
    <3> QED
      BY <1>1, <1>3, <1>5, <1>6, <3>1 DEF workerV
  <2> QED
    BY <1>1, <1>5, <1>7, <2>1, SameSlots DEF IInv, SessionInv, MountInv, sessionV, workerV
<1>16. GrantInv'
  <2>1. \A i \in Slots : ~Answer(n, "MOUNT", i)'
    <3>1. CASE inbox'[n] = <<>>
      BY <3>1 DEF Answer
    <3>2. CASE inbox'[n] # <<>>
      BY <1>4, <3>2, SlotFacts
    <3> QED
      BY <3>1, <3>2
  <2> QED
    BY <1>1, <1>5, <1>7, <2>1, SameSlots DEF IInv, SessionInv, GrantInv, sessionV
<1>17. OwnerInv'
    BY <1>1, <1>2, <1>3, <1>5 DEF IInv, SessionInv, OwnerInv, sessionV, workerV
<1>18. ServedInv'
  <2>1. SUFFICES ASSUME NEW c \in Clients, Mounted(c)
        PROVE  session_id[c] \in Slots /\ Served(c, session_id[c])'
    BY <1>1, <1>5 DEF ServedInv
  <2>2. session_id[c] \in Slots /\ Served(c, session_id[c]) /\ c # n
    BY <1>1, <1>3, <2>1 DEF IInv, SessionInv, ServedInv
  <2> QED
    BY <1>1, <1>5, <1>7, <2>2, SameSlots DEF Served, sessionV, workerV
<1>19. AnswerInv'
  <2>1. SUFFICES ASSUME NEW c \in Clients
        PROVE  /\ inbox'[c] # <<>> /\ ~EndsServer(c) =>
                     cpc'[c] = "reply" /\ \E v \in Int : Answer(c, call[c], v)'
               /\ EndsServer(c) => \A k \in DOMAIN inbox'[c] : inbox'[c][k].val \in {0, -1}
               /\ \A k \in DOMAIN inbox'[c] :
                     /\ inbox'[c][k].op = "MOUNT" => inbox'[c][k].val \in Slots \cup {-1}
                     /\ inbox'[c][k].op = "OPEN" => inbox'[c][k].val \in Handle \cup {-1}
    BY <1>1, <1>5 DEF AnswerInv
  <2>2. CASE c # n
    <3>1. inbox'[c] = inbox[c] /\ cpc'[c] = cpc[c] /\ \A v : Answer(c, call[c], v)' <=> Answer(c, call[c], v)
      BY <1>1, <1>2, <1>4, <1>5, <2>2
    <3> QED
      BY <3>1 DEF IInv, SessionInv, AnswerInv
  <2>3. CASE inbox'[c] = <<>>
    BY <2>3
  <2>4. CASE c = n /\ inbox'[c] # <<>>
    <3>1. Answer(c, "MOUNT", -1)'
      BY <1>4, <2>4
    <3>2. \A k \in DOMAIN inbox'[c] : inbox'[c][k].op = "MOUNT" /\ inbox'[c][k].val = -1
      BY <3>1, OneAnswer DEF Answer
    <3>3. cpc'[c] = "reply" /\ \E v \in Int : Answer(c, call[c], v)'
      BY <1>1, <1>2, <1>3, <2>4, <3>1
    <3> QED
      BY <3>2, <3>3
  <2> QED
    BY <2>2, <2>3, <2>4
<1>20. SessionsCounted'
    BY <1>1, <1>7, SameSlots DEF IInv, SessionInv, SessionsCounted, FreeSlots, sessionV
<1>21. HandleInv'
  <2>1. \A c \in Clients, h \in Handle \cup {-1, OutsideTable} : Holds(c, h)' => Holds(c, h)
    <3>1. \A h : ~Answer(n, "OPEN", h)'
      <4>1. CASE inbox'[n] = <<>>
        BY <4>1 DEF Answer
      <4>2. CASE inbox'[n] # <<>>
        BY <1>4, <4>2
      <4> QED
        BY <4>1, <4>2
    <3> QED
      BY <1>1, <1>5, <3>1 DEF Holds
  <2> QED
    BY <1>1, <1>7, <2>1, SameSlots DEF IInv, HandleInv, fs
<1>22. SessionInv'
    BY <1>10, <1>11, <1>12, <1>13, <1>14, <1>15, <1>16, <1>17, <1>18, <1>19, <1>20 DEF SessionInv
<1> QED
    BY <1>8, <1>9, <1>21, <1>22 DEF IInv

\* A step of main alone: no client, worker or message is concerned.
LEMMA MainMove ==
    ASSUME IInv, up, UNCHANGED <<up, server_pipe, name, fhandler, workerV, fs, clientV, inbox>>,
           TypeOK', SessionsCounted', main' # "slait_open",
           \A i \in Slots : free_sessions[i] = "TAKEN_POS" => free_sessions'[i] = "TAKEN_POS",
           Made(fcli'),
           main' \in {"find_free_pos", "mount_post"} =>
               \/ main \in {"find_free_pos", "mount_post"} /\ fcli' = fcli
               \/ \A c \in Clients : fcli' # Pipe(c),
           main' = "mount_post" => slot' \in Slots /\ free_sessions'[slot'] = "TAKEN_POS" /\ Unused(slot')
    PROVE  IInv'
<1>1. UNCHANGED <<up, server_pipe, name, fhandler, workerV, fs>> /\ UNCHANGED <<clientV, inbox>>
    OBVIOUS
<1>2. UNCHANGED <<server_pipe, workerV>>
    OBVIOUS
<1>3. \A i \in Slots : free_sessions'[i] = "FREE_POS" => free_sessions[i] = "FREE_POS"
    BY DEF IInv, TypeOK
<1>4. \A i \in Slots : Unused(i)' <=> Unused(i)
    BY <1>1, <1>2, SameSlots DEF Unused
<1>5. \A c \in Clients : EndsServer(c)' <=> EndsServer(c)
    BY <1>1 DEF EndsServer, workerV, clientV
<1>6. ShutdownInv' /\ WorkerInv'
    BY <1>1, <1>2, SameSlots DEF IInv, ShutdownInv, WorkerInv, workerV, fs
<1>7. MessageInv' /\ ClientInv'
    BY <1>1, SameAnswers DEF IInv, SessionInv, MessageInv
<1>8. PipeInv'
    BY <1>1, SameAnswers DEF IInv, SessionInv, PipeInv, workerV
<1>9. SlotInv'
    BY <1>3, <1>4 DEF IInv, SessionInv, SlotInv
<1>10. RequestInv' /\ UnmountInv'
    BY <1>1, <1>2, SameSlots, SameAnswers DEF IInv, SessionInv, RequestInv, UnmountInv
<1>11. MountInv'
    BY <1>1, <1>2, SameSlots, SameAnswers DEF IInv, SessionInv, MountInv, workerV
<1>12. GrantInv' /\ OwnerInv'
    BY <1>1, <1>2, SameSlots, SameAnswers DEF IInv, SessionInv, GrantInv, OwnerInv, workerV, clientV
<1>13. ServedInv'
  <2>1. SUFFICES ASSUME NEW c \in Clients, Mounted(c)
        PROVE  session_id[c] \in Slots /\ Served(c, session_id[c])'
    BY <1>1, SameAnswers DEF ServedInv, clientV
  <2>2. session_id[c] \in Slots /\ Served(c, session_id[c])
    BY <2>1 DEF IInv, SessionInv, ServedInv
  <2> QED
    BY <1>1, <1>2, <2>2, SameSlots, SameAnswers DEF Served, workerV, clientV
<1>14. AnswerInv'
    BY <1>1, <1>5, SameAnswers DEF IInv, SessionInv, AnswerInv, clientV
<1>15. HandleInv'
    BY <1>1, <1>2, SameSlots, SameAnswers DEF IInv, HandleInv, fs
<1>16. SessionInv'
    BY <1>7, <1>8, <1>9, <1>10, <1>11, <1>12, <1>13, <1>14 DEF SessionInv
<1> QED
    BY <1>6, <1>15, <1>16 DEF IInv

\* The pipe of the rejected mount is nobody's newest.
LEMMA MountOpenStaleStep ==
    ASSUME IInv, MountOpenStale
    PROVE  IInv'
<1>1. PICK p : p = <<name, mounts[name] + 1>>
    OBVIOUS
<1>2. up /\ main = "slait_open" /\ cpc[name] = "mkfifo_again" /\ MountOpened(p) /\ UNCHANGED cpc
    BY <1>1 DEF MountOpenStale
<1>3. name \in Clients /\ mounts[name] \in 0 .. MaxMounts /\ mounts[name] < MaxMounts
    BY <1>2 DEF IInv, TypeOK, SessionInv, MessageInv, ClientInv
<1>4. p \in Pipes /\ Made(p) /\ \A c \in Clients : p # Pipe(c)
  <2>1. p[1] = name /\ p[2] = mounts[name] + 1
    BY <1>1
  <2>2. Made(p)
    BY <1>3, <2>1 DEF Made
  <2>3. p \in Pipes
    BY <1>1, <1>3 DEF Pipes
  <2>4. \A c \in Clients : p # Pipe(c)
    BY <1>1, <1>3 DEF Pipe
  <2> QED
    BY <2>2, <2>3, <2>4
<1>5. UNCHANGED inbox
  <2>1. CASE Reply(p, "MOUNT", -1)
    <3>1. DOMAIN inbox' = Clients /\ \A c \in Clients : inbox'[c] = inbox[c]
      BY <1>4, <2>1 DEF Reply, Pipe
    <3>2. inbox \in [Clients -> Seq([op : Ops, val : Int])]
      BY DEF IInv, TypeOK
    <3>3. inbox' = [c \in Clients |-> inbox'[c]]
      BY <2>1 DEF Reply
    <3> QED
      BY <3>1, <3>2, <3>3
  <2> QED
    BY <1>2, <2>1 DEF MountOpened
<1>6. /\ fcli' = p /\ main' \in {"read", "find_free_pos"}
      /\ UNCHANGED <<up, server_pipe, name, slot, sessionV, workerV, fs, call, session_id, handles, fd, mounts, calls>>
    BY <1>2 DEF MountOpened
<1>7. TypeOK'
    BY <1>2, <1>4, <1>5, <1>6 DEF IInv, TypeOK, sessionV, workerV, fs
<1>8. SessionsCounted'
  <2>1. UNCHANGED <<server_pipe, workerV>>
    BY <1>6
  <2> QED
    BY <1>2, <1>6, <2>1, SameSlots DEF IInv, SessionInv, SessionsCounted, FreeSlots, sessionV
<1>9. UNCHANGED <<up, server_pipe, name, fhandler, workerV, fs, clientV, inbox>> /\ UNCHANGED free_sessions
    BY <1>2, <1>5, <1>6 DEF sessionV, clientV
<1> QED
    BY <1>2, <1>4, <1>6, <1>7, <1>8, <1>9, MainMove

\* find_free_pos takes a slot that has nothing left of a session.
LEMMA FindFreePosStep ==
    ASSUME IInv, FindFreePos
    PROVE  IInv'
<1>1. /\ up /\ main = "find_free_pos" /\ main' = "mount_post" /\ slot' \in FreeSlots /\ slot' \in Slots
      /\ UNCHANGED <<up, server_pipe, name, fhandler, workerV, fs, clientV, inbox>>
      /\ UNCHANGED <<fcli, global_mutex, open_sessions>>
    BY DEF FindFreePos, FreeSlots
<1>2. /\ free_sessions' \in [Slots -> {"FREE_POS", "TAKEN_POS"}]
      /\ free_sessions'[slot'] = "TAKEN_POS"
      /\ \A i \in Slots : i # slot' => free_sessions'[i] = free_sessions[i]
    BY <1>1 DEF IInv, TypeOK, FindFreePos
<1>3. Unused(slot')
    BY <1>1 DEF IInv, SessionInv, SlotInv, FreeSlots
<1>4. TypeOK'
    BY <1>1, <1>2 DEF IInv, TypeOK, workerV, clientV, fs
<1>5. SessionsCounted'
  <2>1. UNCHANGED <<server_pipe, workerV>>
    BY <1>1
  <2>2. (Slots \ FreeSlots)' = (Slots \ FreeSlots) \cup {slot'}
    BY <1>1, <1>2 DEF FreeSlots, Slots
  <2>3. Cardinality((Slots \ FreeSlots)') = Cardinality(Slots \ FreeSlots) + 1
    <3>1. PICK x : x = slot'
      OBVIOUS
    <3>2. x \notin Slots \ FreeSlots /\ IsFiniteSet(Slots \ FreeSlots)
      BY <1>1, <3>1, SlotSets
    <3>3. Cardinality((Slots \ FreeSlots) \cup {x}) = Cardinality(Slots \ FreeSlots) + 1
      BY <3>2, FS_AddElement
    <3> QED
      BY <2>2, <3>1, <3>3
  <2>4. Leaving' = Leaving /\ open_sessions' = open_sessions
    BY <1>1, <2>1, SameSlots
  <2>5. open_sessions \in Nat /\ Cardinality(Leaving) \in Nat
    BY SlotSets
  <2>6. Cardinality(Slots \ FreeSlots) = open_sessions + Cardinality(Leaving)
    BY <1>1, <2>5 DEF IInv, SessionInv, SessionsCounted
  <2>7. SessionsCounted' <=> Cardinality(Slots \ FreeSlots) + 1 = open_sessions + Cardinality(Leaving) + 1 - 0
    BY <1>1, <2>3, <2>4 DEF SessionsCounted
  <2> QED
    BY <2>5, <2>6, <2>7
<1>6. \A i \in Slots : free_sessions[i] = "TAKEN_POS" => free_sessions'[i] = "TAKEN_POS"
    BY <1>2
<1>7. Made(fcli')
    BY <1>1 DEF IInv, SessionInv, PipeInv
<1> QED
    BY <1>1, <1>2, <1>3, <1>4, <1>5, <1>6, <1>7, MainMove

\* main counts the session.
LEMMA MountCountStep ==
    ASSUME IInv, MountCount
    PROVE  IInv'
<1>1. /\ up /\ main = "mount_count" /\ main' = "read" /\ open_sessions' = open_sessions + 1
      /\ UNCHANGED <<up, server_pipe, name, fhandler, workerV, fs, clientV, inbox>>
      /\ UNCHANGED <<fcli, slot, global_mutex, free_sessions>>
    BY DEF MountCount
<1>2. UNCHANGED <<server_pipe, workerV>>
    BY <1>1
<1>3. /\ open_sessions \in Nat /\ Cardinality(Leaving) \in Nat /\ Cardinality(Slots \ FreeSlots) \in Nat
      /\ Cardinality(Slots \ FreeSlots) <= S
    BY SlotSets
<1>4. Cardinality(Slots \ FreeSlots) = open_sessions + Cardinality(Leaving) + 1
    BY <1>1, <1>3 DEF IInv, SessionInv, SessionsCounted
<1>5. SessionsCounted'
  <2>1. Leaving' = Leaving /\ (Slots \ FreeSlots)' = Slots \ FreeSlots
    BY <1>1, <1>2, SameSlots DEF FreeSlots, Slots
  <2>2. SessionsCounted' <=> Cardinality(Slots \ FreeSlots) = (open_sessions + 1) + Cardinality(Leaving) + 0 - 0
    BY <1>1, <2>1 DEF SessionsCounted
  <2> QED
    BY <1>3, <1>4, <2>2
<1>6. open_sessions' \in 0 .. S
    BY <1>1, <1>3, <1>4
<1>7. TypeOK'
    BY <1>1, <1>6 DEF IInv, TypeOK, workerV, clientV, fs
<1>8. Made(fcli')
    BY <1>1 DEF IInv, SessionInv, PipeInv
<1> QED
    BY <1>1, <1>5, <1>7, <1>8, MainMove

\* main no longer counts the session.
LEMMA UnmountCountStep ==
    ASSUME IInv, UnmountCount
    PROVE  IInv'
<1>1. /\ up /\ main = "unmount_count" /\ main' = "read" /\ open_sessions' = open_sessions - 1
      /\ UNCHANGED <<up, server_pipe, name, fhandler, workerV, fs, clientV, inbox>>
      /\ UNCHANGED <<fcli, slot, global_mutex, free_sessions>>
    BY DEF UnmountCount
<1>2. UNCHANGED <<server_pipe, workerV>>
    BY <1>1
<1>3. /\ open_sessions \in Nat /\ Cardinality(Leaving) \in Nat /\ Cardinality(Slots \ FreeSlots) \in Nat
      /\ Cardinality(Leaving) <= Cardinality(Slots \ FreeSlots) /\ open_sessions <= S
  <2>1. open_sessions \in 0 .. S
    BY DEF IInv, TypeOK
  <2> QED
    BY <2>1, SlotSets
<1>4. Cardinality(Slots \ FreeSlots) = open_sessions + Cardinality(Leaving) - 1
    BY <1>1, <1>3 DEF IInv, SessionInv, SessionsCounted
<1>5. SessionsCounted'
  <2>1. Leaving' = Leaving /\ (Slots \ FreeSlots)' = Slots \ FreeSlots
    BY <1>1, <1>2, SameSlots DEF FreeSlots, Slots
  <2>2. SessionsCounted' <=> Cardinality(Slots \ FreeSlots) = (open_sessions - 1) + Cardinality(Leaving) + 0 - 0
    BY <1>1, <2>1 DEF SessionsCounted
  <2> QED
    BY <1>3, <1>4, <2>2
<1>6. open_sessions' \in 0 .. S
    BY <1>1, <1>3, <1>4
<1>7. TypeOK'
    BY <1>1, <1>6 DEF IInv, TypeOK, workerV, clientV, fs
<1>8. Made(fcli')
    BY <1>1 DEF IInv, SessionInv, PipeInv
<1> QED
    BY <1>1, <1>5, <1>7, <1>8, MainMove

\* find_free_pos finds nothing: the client is told, and no slot is concerned.
LEMMA FindFreePosFailsStep ==
    ASSUME IInv, FindFreePosFails
    PROVE  IInv'
<1>1. /\ up /\ main = "find_free_pos" /\ main' = "read"
      /\ UNCHANGED <<up, server_pipe, name, fcli, slot, open_sessions, free_sessions, fhandler, workerV, fs>>
      /\ UNCHANGED clientV /\ global_mutex' = "main"
    BY DEF FindFreePosFails
<1>2. PICK val : val = -1
    OBVIOUS
<1>3. Reply(fcli, "MOUNT", val) /\ "MOUNT" \in Ops /\ val \in Int
    BY <1>2 DEF FindFreePosFails, Ops
<1>4. /\ inbox' \in [Clients -> Seq([op : Ops, val : Int])]
      /\ \A c \in Clients : fcli # Pipe(c) => inbox'[c] = inbox[c]
    BY <1>3, ReplyEffect DEF IInv
<1>5. ASSUME NEW c \in Clients, fcli = Pipe(c)
      PROVE  /\ Awaits(c) /\ Answer(c, "MOUNT", val)'
             /\ \A o, v : Answer(c, o, v)' => o = "MOUNT" /\ v = val
             /\ \A i \in Slots : (MountIn(i) => request[i].fcli # Pipe(c)) /\ fhandler[i] # Pipe(c)
  <2>1. Awaits(c) /\ \A i \in Slots : MountIn(i) => request[i].fcli # Pipe(c)
    BY <1>1, <1>5 DEF IInv, SessionInv, MountInv
  <2>2. \A i \in Slots : fhandler[i] # Pipe(c)
    BY <1>1, <2>1, RejectFacts
  <2>3. HasPipe(c) /\ inbox[c] = <<>>
    BY <2>1 DEF Awaits, HasPipe
  <2>4. TypeOK
    BY DEF IInv
  <2>5. Answer(c, "MOUNT", val)' /\ \A o, v : Answer(c, o, v)' => o = "MOUNT" /\ v = val
    BY <1>3, <1>5, <2>3, <2>4, ReplyAnswer
  <2> QED
    BY <2>1, <2>2, <2>5
<1>6. UNCHANGED <<server_pipe, workerV>>
    BY <1>1
<1>7. \A c \in Clients : EndsServer(c)' <=> EndsServer(c)
    BY <1>1 DEF EndsServer, workerV, clientV
<1>8. TypeOK'
    BY <1>1, <1>4 DEF IInv, TypeOK, workerV, clientV, fs
<1>9. ShutdownInv' /\ WorkerInv'
    BY <1>1, <1>6, SameSlots DEF IInv, ShutdownInv, WorkerInv, workerV, fs
<1>10. MessageInv' /\ ClientInv' /\ PipeInv'
    BY <1>1, SameClients DEF IInv, SessionInv, MessageInv, ClientInv, PipeInv, workerV, clientV
<1>11. SlotInv' /\ RequestInv' /\ UnmountInv'
    BY <1>1, <1>6, SameSlots, SameClients DEF IInv, SessionInv, SlotInv, Unused, RequestInv, UnmountInv
<1>12. MountInv'
    BY <1>1, <1>4, <1>5, <1>6, SameSlots, SameClients DEF IInv, SessionInv, MountInv, workerV
<1>13. GrantInv'
    BY <1>1, <1>2, <1>4, <1>5, <1>6, SlotFacts, SameSlots, SameClients DEF IInv, SessionInv, GrantInv, clientV
<1>14. OwnerInv'
    BY <1>1, <1>4, <1>5, <1>6, SameSlots, SameClients DEF IInv, SessionInv, OwnerInv, workerV, clientV
<1>15. ServedInv'
  <2>1. SUFFICES ASSUME NEW c \in Clients, Mounted(c)
        PROVE  session_id[c] \in Slots /\ Served(c, session_id[c])'
    BY <1>1, SameClients DEF ServedInv, clientV
  <2>2. session_id[c] \in Slots /\ Served(c, session_id[c])
    BY <1>1, <2>1 DEF IInv, SessionInv, ServedInv
  <2>3. fcli # Pipe(c)
    BY <1>5, <2>1 DEF Awaits, Mounted
  <2>4. session_id' = session_id /\ Pipe(c)' = Pipe(c) /\ \A o : InCall(c, o)' <=> InCall(c, o)
    BY <1>1, <1>4, <2>3, SameClients DEF clientV
  <2> QED
    BY <1>1, <1>6, <2>2, <2>4, SameSlots DEF Served, workerV
<1>16. AnswerInv'
  <2>1. SUFFICES ASSUME NEW c \in Clients
        PROVE  /\ inbox'[c] # <<>> /\ ~EndsServer(c) =>
                     cpc[c] = "reply" /\ \E v \in Int : Answer(c, call[c], v)'
               /\ EndsServer(c) => \A k \in DOMAIN inbox'[c] : inbox'[c][k].val \in {0, -1}
               /\ \A k \in DOMAIN inbox'[c] :
                     /\ inbox'[c][k].op = "MOUNT" => inbox'[c][k].val \in Slots \cup {-1}
                     /\ inbox'[c][k].op = "OPEN" => inbox'[c][k].val \in Handle \cup {-1}
    BY <1>1, <1>7 DEF AnswerInv, clientV
  <2>2. CASE fcli # Pipe(c)
    <3>1. inbox'[c] = inbox[c] /\ \A v : Answer(c, call[c], v)' <=> Answer(c, call[c], v)
      BY <1>1, <1>4, <2>2, SameClients DEF clientV
    <3> QED
      BY <3>1 DEF IInv, SessionInv, AnswerInv
  <2>3. CASE fcli = Pipe(c)
    <3>1. Awaits(c) /\ Answer(c, "MOUNT", val)'
      BY <1>5, <2>3
    <3>2. cpc[c] = "reply" /\ call[c] = "MOUNT" /\ call' = call
      BY <1>1, <3>1 DEF Awaits, clientV
    <3>3. \A k \in DOMAIN inbox'[c] : inbox'[c][k].op = "MOUNT" /\ inbox'[c][k].val = val
      BY <3>1, OneAnswer DEF Answer
    <3> QED
      BY <1>2, <1>3, <3>1, <3>2, <3>3
  <2> QED
    BY <2>2, <2>3
<1>17. SessionsCounted'
    BY <1>1, <1>6, SameSlots DEF IInv, SessionInv, SessionsCounted, FreeSlots
<1>18. HandleInv'
  <2>1. \A c \in Clients, h \in Handle \cup {-1, OutsideTable} : Holds(c, h)' => Holds(c, h)
    BY <1>1, <1>4, <1>5, SameClients DEF Holds, clientV
  <2> QED
    BY <1>1, <1>6, <2>1, SameSlots DEF IInv, HandleInv, fs
<1>19. SessionInv'
    BY <1>10, <1>11, <1>12, <1>13, <1>14, <1>15, <1>16, <1>17 DEF SessionInv
<1> QED
    BY <1>8, <1>9, <1>18, <1>19 DEF IInv

\* The mount goes to the worker of the slot main has taken.
LEMMA MountPostStep ==
    ASSUME IInv, MountPost
    PROVE  IInv'
<1>1. /\ up /\ main = "mount_post" /\ main' = "mount_count" /\ UNCHANGED <<clientV, inbox>>
      /\ UNCHANGED <<up, server_pipe, name, fcli, slot, sessionV, fs>>
    BY DEF MountPost
<1>2. PICK i \in Slots : i = slot
    BY <1>1 DEF IInv, SessionInv, SlotInv
<1>3. Unused(i) /\ free_sessions[i] = "TAKEN_POS" /\ worker[i] = "wait" /\ ~Busy(i) /\ ~Ending(i) /\ ~Pending(i)
      /\ fhandler[i] = NoPipe
    BY <1>1, <1>2 DEF IInv, SessionInv, SlotInv, Unused, Busy, Ending
<1>4. PICK r : r = [request[i] EXCEPT !.op = "MOUNT", !.fcli = fcli]
    OBVIOUS
<1>5. r \in [op : Ops \cup {"none"}, fcli : Pipes, fhandler : Handle \cup {-1, OutsideTable}]
      /\ r.op = "MOUNT" /\ r.fcli = fcli
  <2>1. request[i] \in [op : Ops \cup {"none"}, fcli : Pipes, fhandler : Handle \cup {-1, OutsideTable}]
    BY RequestType DEF IInv
  <2>2. "MOUNT" \in Ops \cup {"none"} /\ fcli \in Pipes
    BY DEF IInv, TypeOK, Ops
  <2> QED
    BY <1>4, <2>1, <2>2
<1>6. /\ request'[i] = r /\ wake_up'[i] = TRUE /\ UNCHANGED <<worker, ret>>
      /\ \A j \in Slots : j # i => request'[j] = request[j] /\ wake_up'[j] = wake_up[j]
      /\ wake_up' \in [Slots -> BOOLEAN]
      /\ request' \in [Slots -> [op : Ops \cup {"none"}, fcli : Pipes, fhandler : Handle \cup {-1, OutsideTable}]]
  <2>1. Post(i, r)
    BY <1>2, <1>4 DEF MountPost
  <2> QED
    BY <1>5, <2>1, PostFacts DEF IInv
<1>7. \A j \in Slots : /\ Busy(j)' <=> (Busy(j) \/ j = i)
                       /\ Ending(j)' <=> Ending(j)
                       /\ MountIn(j)' <=> (MountIn(j) \/ j = i)
                       /\ Pending(j)' <=> Pending(j)
                       /\ \A k : For(k, j)' <=> For(k, j)
                       /\ \A h : Carries(j, h)' => Carries(j, h)
  <2>1. \A j \in Slots : Busy(j)' <=> (Busy(j) \/ j = i)
    BY <1>6 DEF Busy
  <2>2. \A j \in Slots : Ending(j)' <=> Ending(j)
    BY <1>6 DEF Ending
  <2>3. \A j \in Slots : MountIn(j)' <=> (MountIn(j) \/ j = i)
    BY <1>3, <1>5, <1>6, <2>1, <2>2 DEF MountIn
  <2>4. \A j \in Slots : (Pending(j)' <=> Pending(j)) /\ \A k : For(k, j)' <=> For(k, j)
    BY <1>1 DEF Pending, For
  <2>5. \A j \in Slots : \A h : Carries(j, h)' => Carries(j, h)
    BY <1>1, <1>3, <1>5, <1>6, <2>4 DEF Carries
  <2> QED
    BY <2>1, <2>2, <2>3, <2>4, <2>5
<1>8. Leaving' = Leaving
    BY <1>3, <1>5, <1>6, <1>7 DEF Leaving
<1>9. \A c \in Clients : EndsServer(c)' <=> EndsServer(c)
    BY <1>1, <1>6 DEF EndsServer, sessionV, clientV
<1>10. TypeOK'
    BY <1>1, <1>6 DEF IInv, TypeOK, sessionV, clientV, fs
<1>11. ShutdownInv'
    BY <1>1, <1>6, <1>7 DEF IInv, ShutdownInv, fs
<1>12. WorkerInv'
    BY <1>1, <1>3, <1>5, <1>6, <1>7 DEF IInv, WorkerInv, sessionV, Ops
<1>13. MessageInv' /\ ClientInv'
    BY <1>1, SameAnswers DEF IInv, SessionInv, MessageInv
<1>14. PipeInv'
    BY <1>1, <1>5, <1>6, SameAnswers DEF IInv, SessionInv, PipeInv, sessionV
<1>15. SlotInv'
    BY <1>1, <1>3, <1>7 DEF IInv, SessionInv, SlotInv, Unused, sessionV
<1>16. RequestInv'
    BY <1>1, <1>3, <1>7 DEF IInv, SessionInv, RequestInv, Pending
<1>17. UnmountInv'
    BY <1>1, <1>7, <1>8, SameAnswers DEF IInv, SessionInv, UnmountInv
<1>18. MountInv'
  <2>1. \A j \in Slots : MountIn(j)' =>
            fhandler'[j] = IF worker'[j] = "mount_answer" THEN request'[j].fcli ELSE NoPipe
    BY <1>1, <1>3, <1>6, <1>7 DEF IInv, SessionInv, MountInv, sessionV
  <2>2. \A c \in Clients : fcli = Pipe(c) => Awaits(c) /\ \A j \in Slots : MountIn(j) => request[j].fcli # Pipe(c)
    BY <1>1 DEF IInv, SessionInv, MountInv
  <2>3. \A c \in Clients, j \in Slots : MountIn(j) /\ request[j].fcli = Pipe(c) =>
            Awaits(c) /\ \A k \in Slots : MountIn(k) /\ request[k].fcli = Pipe(c) => j = k
    BY <1>1 DEF IInv, SessionInv, MountInv
  <2>4. ~MountIn(i)
    BY <1>3 DEF MountIn
  <2>5. \A c \in Clients, j \in Slots : MountIn(j)' /\ request'[j].fcli = Pipe(c) =>
            Awaits(c) /\ \A k \in Slots : MountIn(k)' /\ request'[k].fcli = Pipe(c) => j = k
    BY <1>5, <1>6, <1>7, <2>2, <2>3, <2>4
  <2> QED
    BY <1>1, <2>1, <2>5, SameAnswers DEF MountInv
<1>19. GrantInv'
  <2>1. \A c \in Clients : fhandler[i] # Pipe(c)
    BY <1>3, PipeFacts DEF IInv
  <2> QED
    BY <1>1, <1>7, <2>1, SameAnswers DEF IInv, SessionInv, GrantInv, sessionV, clientV
<1>20. OwnerInv'
    BY <1>1, <1>6, SameAnswers DEF IInv, SessionInv, OwnerInv, sessionV, clientV
<1>21. ServedInv'
  <2>1. SUFFICES ASSUME NEW c \in Clients, Mounted(c)
        PROVE  session_id[c] \in Slots /\ Served(c, session_id[c])'
    BY <1>1, SameAnswers DEF ServedInv, clientV
  <2>2. session_id[c] \in Slots /\ Served(c, session_id[c])
    BY <1>1, <2>1 DEF IInv, SessionInv, ServedInv
  <2>3. session_id[c] # i
    BY <1>3, <2>2, PipeFacts DEF IInv, Served
  <2> QED
    BY <1>1, <1>6, <1>7, <2>2, <2>3, SameAnswers DEF Served, sessionV, clientV
<1>22. AnswerInv'
    BY <1>1, <1>9, SameAnswers DEF IInv, SessionInv, AnswerInv, clientV
<1>23. SessionsCounted'
    BY <1>1, <1>8 DEF IInv, SessionInv, SessionsCounted, FreeSlots, sessionV
<1>24. HandleInv'
    BY <1>1, <1>7, SameAnswers DEF IInv, HandleInv, fs
<1>25. SessionInv'
    BY <1>13, <1>14, <1>15, <1>16, <1>17, <1>18, <1>19, <1>20, <1>21, <1>22, <1>23 DEF SessionInv
<1> QED
    BY <1>10, <1>11, <1>12, <1>24, <1>25 DEF IInv

(***************************************************************************)
(* Clients.                                                                *)
(***************************************************************************)
\* A message is written behind the others.
LEMMA SendFacts ==
    ASSUME TypeOK, NEW m \in Requests, Send(m)
    PROVE  /\ server_pipe' \in Seq(Requests)
           /\ \E n \in Nat \ {0} :
                 /\ n \notin DOMAIN server_pipe /\ DOMAIN server_pipe' = DOMAIN server_pipe \cup {n}
                 /\ server_pipe'[n] = m
                 /\ \A k \in DOMAIN server_pipe : k \in Nat /\ server_pipe'[k] = server_pipe[k] /\ k < n
           /\ \A i \in Slots : Pending(i)' <=> (Pending(i) \/ m.session_id = i)
<1>1. server_pipe \in Seq(Requests) /\ server_pipe' = Append(server_pipe, m)
    BY DEF TypeOK, Send
<1>2. PICK n \in Nat \ {0} :
          /\ n \notin DOMAIN server_pipe /\ DOMAIN server_pipe' = DOMAIN server_pipe \cup {n}
          /\ server_pipe'[n] = m /\ \A k \in DOMAIN server_pipe : server_pipe'[k] = server_pipe[k] /\ k < n
    BY <1>1, Written
<1>3. server_pipe' \in Seq(Requests) /\ \A k \in DOMAIN server_pipe : k \in Nat
    BY <1>1, Written, PipePositions
<1>4. \A i \in Slots : Pending(i)' <=> (Pending(i) \/ m.session_id = i)
    BY <1>2 DEF Pending, For
<1> QED
    BY <1>2, <1>3, <1>4

\* What does not change when neither main nor a worker takes part.
LEMMA SameServer ==
    ASSUME UNCHANGED <<up, mainV, sessionV, workerV, fs>>
    PROVE  /\ \A i \in Slots : /\ Busy(i)' <=> Busy(i)
                               /\ Ending(i)' <=> Ending(i)
                               /\ MountIn(i)' <=> MountIn(i)
           /\ Leaving' = Leaving
           /\ ShutdownInv => ShutdownInv'
           /\ WorkerInv => WorkerInv'
           /\ SessionsCounted => SessionsCounted'
<1>1. \A i \in Slots : /\ Busy(i)' <=> Busy(i)
                       /\ Ending(i)' <=> Ending(i)
                       /\ MountIn(i)' <=> MountIn(i)
    BY DEF workerV, Busy, Ending, MountIn
<1>2. Leaving' = Leaving
    BY <1>1 DEF workerV, Leaving
<1>3. (ShutdownInv => ShutdownInv') /\ (WorkerInv => WorkerInv')
    BY <1>1 DEF ShutdownInv, WorkerInv, workerV, sessionV, fs
<1>4. SessionsCounted => SessionsCounted'
    BY <1>2 DEF SessionsCounted, FreeSlots, mainV, sessionV
<1> QED
    BY <1>1, <1>2, <1>3, <1>4

\* A step that leaves the client c an empty pipe, and the others what they had.
LEMMA OtherAnswers ==
    ASSUME AnswerInv, NEW c, inbox'[c] = <<>>,
           \A d \in Clients : d # c =>
               /\ inbox'[d] = inbox[d] /\ cpc'[d] = cpc[d] /\ call'[d] = call[d]
               /\ EndsServer(d)' <=> EndsServer(d)
    PROVE  AnswerInv'
<1>1. ASSUME NEW d \in Clients
      PROVE  /\ inbox'[d] # <<>> /\ ~EndsServer(d)' =>
                   cpc'[d] = "reply" /\ \E val \in Int : inbox'[d] = <<[op |-> call'[d], val |-> val]>>
             /\ EndsServer(d)' => \A k \in DOMAIN inbox'[d] : inbox'[d][k].val \in {0, -1}
             /\ \A k \in DOMAIN inbox'[d] :
                   /\ inbox'[d][k].op = "MOUNT" => inbox'[d][k].val \in Slots \cup {-1}
                   /\ inbox'[d][k].op = "OPEN" => inbox'[d][k].val \in Handle \cup {-1}
  <2>1. CASE d = c
    BY <2>1
  <2>2. CASE d # c
    BY <1>1, <2>2 DEF AnswerInv, Answer
  <2> QED
    BY <2>1, <2>2
<1> QED
    BY <1>1 DEF AnswerInv, Answer

\* tfs_mount: the pipe the client is about to make is new.
LEMMA MountStep ==
    ASSUME IInv, NEW c \in Clients, Mount(c)
    PROVE  IInv'
<1>1. /\ up /\ cpc[c] \in {"out", "rejected"} /\ mounts[c] > 0
      /\ UNCHANGED <<up, mainV, sessionV, workerV, fs>> /\ UNCHANGED <<session_id, handles, fd, calls>>
    BY DEF Mount
<1>2. PICK m : m = [NoMsg EXCEPT !.op = "MOUNT", !.name = c]
    OBVIOUS
<1>3. Send(m)
    BY <1>2 DEF Mount
<1>4. m \in Requests /\ m.op = "MOUNT" /\ m.name = c /\ m.session_id = -1
  <2>1. "none" \in Ops \cup {"none"} /\ "MOUNT" \in Ops \cup {"none"}
    BY DEF Ops
  <2>2. NoMsg \in Requests
    BY <2>1 DEF NoMsg, Requests
  <2>3. m \in Requests
    BY <1>2, <2>1, <2>2 DEF Requests
  <2>4. m.op = "MOUNT" /\ m.name = c /\ m.session_id = NoMsg.session_id
    BY <1>2, <2>2 DEF Requests
  <2>5. NoMsg.session_id = -1
    BY DEF NoMsg
  <2> QED
    BY <2>3, <2>4, <2>5
<1>5. PICK n \in Nat \ {0} :
          /\ n \notin DOMAIN server_pipe /\ DOMAIN server_pipe' = DOMAIN server_pipe \cup {n}
          /\ server_pipe'[n] = m
          /\ \A k \in DOMAIN server_pipe : k \in Nat /\ server_pipe'[k] = server_pipe[k] /\ k < n
    BY <1>3, <1>4, SendFacts DEF IInv
<1>6. server_pipe' \in Seq(Requests) /\ \A i \in Slots : Pending(i)' <=> Pending(i)
    BY <1>3, <1>4, SendFacts, SlotFacts DEF IInv
<1>7. /\ mounts'[c] = mounts[c] - 1 /\ mounts[c] \in 1 .. MaxMounts
      /\ cpc'[c] \in {"mkfifo", "mkfifo_again"} /\ call'[c] = "MOUNT" /\ inbox'[c] = <<>>
      /\ \A d \in Clients : d # c => /\ mounts'[d] = mounts[d] /\ cpc'[d] = cpc[d] /\ call'[d] = call[d]
                                     /\ inbox'[d] = inbox[d]
  <2>1. mounts[c] \in 0 .. MaxMounts
    BY DEF IInv, TypeOK
  <2>2. mounts[c] \in 1 .. MaxMounts
    BY <1>1, <2>1
  <2> QED
    BY <2>2 DEF IInv, TypeOK, Mount
<1>8. \A k, i : k \in DOMAIN server_pipe /\ i \in Slots => (For(k, i)' <=> For(k, i))
    BY <1>5 DEF For
<1>9. \A i \in Slots : ~For(n, i)'
    BY <1>4, <1>5, SlotFacts DEF For
<1>10. \A d \in Clients : d # c =>
           /\ Pipe(d)' = Pipe(d) /\ (HasPipe(d)' <=> HasPipe(d)) /\ (Mounted(d)' <=> Mounted(d))
           /\ Awaits(d)' <=> Awaits(d)
           /\ \A op, val : Answer(d, op, val)' <=> Answer(d, op, val)
           /\ \A op : InCall(d, op)' <=> InCall(d, op)
    BY <1>7 DEF Pipe, HasPipe, Mounted, Awaits, Answer, InCall
<1>11. ~Mounted(c) /\ ~Mounted(c)' /\ ~HasPipe(c)' /\ \A op, val : ~Answer(c, op, val)'
    BY <1>1, <1>7 DEF Mounted, HasPipe, Answer
<1>12. \A p \in Pipes : Made(p) => Made(p)' /\ p # Pipe(c)'
  <2>1. SUFFICES ASSUME NEW p \in Pipes, Made(p), p # NoPipe
        PROVE  Made(p)' /\ p # Pipe(c)'
    <3>1. Made(NoPipe)' /\ NoPipe # Pipe(c)'
      BY DEF Made, NoPipe, Pipe
    <3> QED
      BY <3>1
  <2>2. p[1] \in Clients /\ p[2] \in Nat /\ p[2] >= mounts[p[1]] /\ p = <<p[1], p[2]>>
    BY <2>1, PipeFacts DEF IInv, Made
  <2>3. CASE p[1] = c
    <3>1. p[2] > mounts'[c]
      BY <1>7, <2>2, <2>3
    <3> QED
      BY <1>7, <2>1, <2>2, <2>3, <3>1 DEF Made, Pipe
  <2>4. CASE p[1] # c
    BY <1>7, <2>1, <2>2, <2>4 DEF Made, Pipe
  <2> QED
    BY <2>3, <2>4
<1>13. /\ Made(fcli)' /\ fcli # Pipe(c)' /\ fcli' = fcli /\ fhandler' = fhandler /\ request' = request
       /\ \A i \in Slots : /\ Made(fhandler[i])' /\ fhandler[i] # Pipe(c)'
                           /\ Made(request[i].fcli)' /\ request[i].fcli # Pipe(c)'
  <2>1. fcli \in Pipes /\ \A i \in Slots : fhandler[i] \in Pipes /\ request[i].fcli \in Pipes
    BY RequestType DEF IInv, TypeOK
  <2>2. fcli' = fcli /\ fhandler' = fhandler /\ request' = request
    BY <1>1 DEF mainV, sessionV, workerV
  <2>3. Made(fcli) /\ \A i \in Slots : Made(fhandler[i]) /\ Made(request[i].fcli)
    BY DEF IInv, SessionInv, PipeInv
  <2>4. Made(fcli)' /\ fcli # Pipe(c)'
    BY <1>12, <2>1, <2>2, <2>3
  <2>5. \A i \in Slots : /\ Made(fhandler[i])' /\ fhandler[i] # Pipe(c)'
                         /\ Made(request[i].fcli)' /\ request[i].fcli # Pipe(c)'
    BY <1>12, <2>1, <2>2, <2>3
  <2> QED
    BY <2>2, <2>4, <2>5
<1>14. /\ ~EndsServer(c)'
       /\ \A d \in Clients : d # c => (EndsServer(d)' <=> EndsServer(d))
    BY <1>1, <1>7, <1>13 DEF EndsServer, Pipe, workerV
<1>15. \A i \in Slots : NoClientOf(i)' <=> NoClientOf(i)
    BY <1>1, <1>10, <1>11 DEF NoClientOf
<1>16. TypeOK'
  <2>1. /\ mounts' \in [Clients -> 0 .. MaxMounts] /\ call' \in [Clients -> Ops \cup {"none"}]
        /\ inbox' \in [Clients -> Seq([op : Ops, val : Int])]
    BY <1>7 DEF IInv, TypeOK, Mount, Ops
  <2>2. cpc' \in [Clients -> {"out", "mkfifo", "mkfifo_again", "opening", "reply", "in", "rejected", "dead"}]
    BY DEF IInv, TypeOK, Mount
  <2> QED
    BY <1>1, <1>6, <2>1, <2>2 DEF IInv, TypeOK, mainV, sessionV, workerV, fs
<1>17. ShutdownInv' /\ WorkerInv' /\ SessionsCounted'
    BY <1>1, SameServer DEF IInv, SessionInv
<1>18. MessageInv'
  <2>1. MessageInv
    BY DEF IInv, SessionInv
  <2>2. \A k \in DOMAIN server_pipe' :
            k = n \/ (k \in DOMAIN server_pipe /\ server_pipe'[k] = server_pipe[k])
    BY <1>5
  <2>3. main = "slait_open" => name \in Clients
    BY <2>1 DEF MessageInv
  <2>4. main' = main /\ name' = name
    BY <1>1 DEF mainV
  <2>5. m.op \in Ops
    BY <1>4 DEF Ops
  <2> QED
    BY <1>4, <1>5, <2>1, <2>2, <2>3, <2>4, <2>5 DEF MessageInv
<1>19. PipeInv'
    BY <1>13 DEF PipeInv
<1>20. ClientInv'
    BY <1>1, <1>7 DEF IInv, SessionInv, ClientInv
<1>21. SlotInv'
    BY <1>1, <1>6, SameServer DEF IInv, SessionInv, SlotInv, Unused, mainV, sessionV
<1>22. RequestInv'
    BY <1>1, <1>5, <1>8, <1>9, SameServer DEF IInv, SessionInv, RequestInv
<1>23. UnmountInv'
    BY <1>1, <1>5, <1>6, <1>8, <1>9, <1>15, SameServer DEF IInv, SessionInv, UnmountInv
<1>24. MountInv'
    BY <1>1, <1>10, <1>13, SameServer DEF IInv, SessionInv, MountInv, mainV, workerV
<1>25. GrantInv'
    BY <1>1, <1>6, <1>7, <1>10, <1>11, SameServer DEF IInv, SessionInv, GrantInv, sessionV
<1>26. OwnerInv'
    BY <1>1, <1>7, <1>10, <1>11 DEF IInv, SessionInv, OwnerInv, sessionV, workerV
<1>27. ServedInv'
  <2>1. SUFFICES ASSUME NEW d \in Clients, Mounted(d), d # c
        PROVE  session_id[d] \in Slots /\ Served(d, session_id[d])'
    BY <1>1, <1>10, <1>11 DEF ServedInv
  <2>2. session_id[d] \in Slots /\ Served(d, session_id[d])
    BY <1>1, <2>1 DEF IInv, SessionInv, ServedInv
  <2> QED
    BY <1>1, <1>5, <1>8, <1>9, <1>10, <2>1, <2>2, SameServer DEF Served, sessionV, workerV
<1>28. AnswerInv'
  <2>1. \A d \in Clients : d # c =>
            /\ inbox'[d] = inbox[d] /\ cpc'[d] = cpc[d] /\ call'[d] = call[d]
            /\ EndsServer(d)' <=> EndsServer(d)
    BY <1>7, <1>14
  <2>2. inbox'[c] = <<>>
    BY <1>7, <1>14
  <2> QED
    BY <2>1, <2>2, OtherAnswers DEF IInv, SessionInv
<1>29. HandleInv'
  <2>1. \A d \in Clients, h \in Handle \cup {-1, OutsideTable} : Holds(d, h)' => Holds(d, h)
    BY <1>1, <1>10, <1>11 DEF Holds
  <2>2. \A i \in Slots, h \in Handle \cup {-1, OutsideTable} : Carries(i, h)' => Carries(i, h)
    BY <1>1, <1>5, <1>8, <1>9 DEF Carries, workerV
  <2> QED
    BY <1>1, <2>1, <2>2 DEF IInv, HandleInv, fs
<1>30. SessionInv'
    BY <1>17, <1>18, <1>19, <1>20, <1>21, <1>22, <1>23, <1>24, <1>25, <1>26, <1>27, <1>28 DEF SessionInv
<1> QED
    BY <1>16, <1>17, <1>29, <1>30 DEF IInv

\* ... and what a client's step leaves of the sessions when nothing is written to the server.
LEMMA SamePipe ==
    ASSUME UNCHANGED <<up, server_pipe, mainV, sessionV, workerV, fs>>
    PROVE  /\ \A k, i : For(k, i)' <=> For(k, i)
           /\ \A i \in Slots : Pending(i)' <=> Pending(i)
           /\ MessageInv => MessageInv'
           /\ SlotInv => SlotInv'
           /\ RequestInv => RequestInv'
           /\ \A i \in Slots : \A h : Carries(i, h)' <=> Carries(i, h)
<1>1. /\ \A k, i : For(k, i)' <=> For(k, i)
      /\ \A i \in Slots : Pending(i)' <=> Pending(i)
    BY DEF For, Pending
<1>2. \A i \in Slots : Unused(i)' <=> Unused(i)
    BY <1>1, SameServer DEF Unused, sessionV
<1>3. (MessageInv => MessageInv') /\ (SlotInv => SlotInv')
    BY <1>2 DEF MessageInv, SlotInv, mainV, sessionV
<1>4. RequestInv => RequestInv'
    BY <1>1, SameServer DEF RequestInv
<1>5. \A i \in Slots : \A h : Carries(i, h)' <=> Carries(i, h)
    BY <1>1 DEF Carries, workerV
<1> QED
    BY <1>1, <1>3, <1>4, <1>5

\* unlink, mkfifo: nobody has the new pipe yet.
LEMMA MakeFifoStep ==
    ASSUME IInv, NEW c \in Clients, MakeFifo(c)
    PROVE  IInv'
<1>1. /\ cpc[c] \in {"mkfifo", "mkfifo_again"}
      /\ UNCHANGED <<up, server_pipe, mainV, sessionV, workerV, fs>>
      /\ UNCHANGED <<call, session_id, handles, fd, mounts, calls, inbox>>
    BY DEF MakeFifo
<1>2. cpc'[c] = "opening" /\ \A d \in Clients : d # c => cpc'[d] = cpc[d]
    BY DEF IInv, TypeOK, MakeFifo
<1>3. \A d \in Clients : /\ Pipe(d)' = Pipe(d) /\ (Mounted(d)' <=> Mounted(d)) /\ (Awaits(d)' <=> Awaits(d))
                         /\ d # c => (HasPipe(d)' <=> HasPipe(d))
                         /\ \A op, val : Answer(d, op, val)' <=> Answer(d, op, val)
                         /\ \A op : InCall(d, op)' <=> InCall(d, op)
                         /\ \A h : Holds(d, h)' <=> Holds(d, h)
                         /\ EndsServer(d)' <=> EndsServer(d)
  <2>1. \A d \in Clients : /\ Pipe(d)' = Pipe(d) /\ (Mounted(d)' <=> Mounted(d)) /\ (Awaits(d)' <=> Awaits(d))
                           /\ d # c => (HasPipe(d)' <=> HasPipe(d))
                           /\ \A op : InCall(d, op)' <=> InCall(d, op)
    BY <1>1, <1>2 DEF Pipe, Mounted, Awaits, HasPipe, InCall
  <2>2. \A d \in Clients : /\ \A op, val : Answer(d, op, val)' <=> Answer(d, op, val)
                           /\ \A h : Holds(d, h)' <=> Holds(d, h)
    BY <1>1 DEF Answer, Holds
  <2>3. \A d \in Clients : EndsServer(d)' <=> EndsServer(d)
    BY <1>1 DEF EndsServer, sessionV, workerV
  <2> QED
    BY <2>1, <2>2, <2>3
<1>4. \A i \in Slots : (NoClientOf(i)' <=> NoClientOf(i)) /\ fhandler[i] # Pipe(c)
    BY <1>1, <1>3, NewPipe DEF NoClientOf, IInv, SessionInv
<1>5. fhandler' = fhandler /\ request' = request /\ worker' = worker /\ main' = main /\ fcli' = fcli
      /\ free_sessions' = free_sessions /\ open' = open /\ down' = down
    BY <1>1 DEF mainV, sessionV, workerV, fs
<1>6. TypeOK'
  <2>1. cpc' \in [Clients -> {"out", "mkfifo", "mkfifo_again", "opening", "reply", "in", "rejected", "dead"}]
    BY DEF IInv, TypeOK, MakeFifo
  <2> QED
    BY <1>1, <2>1 DEF IInv, TypeOK, mainV, sessionV, workerV, fs
<1>7. ShutdownInv' /\ WorkerInv' /\ SessionsCounted' /\ MessageInv' /\ SlotInv' /\ RequestInv'
    BY <1>1, SameServer, SamePipe DEF IInv, SessionInv
<1>8. PipeInv'
  <2>1. \A p \in Pipes : Made(p) => Made(p)'
    BY <1>1, <1>2, PipeFacts DEF Made, IInv
  <2> QED
    BY <1>5, <2>1, RequestType DEF IInv, TypeOK, SessionInv, PipeInv
<1>9. ClientInv'
    BY <1>1, <1>2 DEF IInv, SessionInv, ClientInv
<1>10. UnmountInv'
    BY <1>1, <1>4, SameServer, SamePipe DEF IInv, SessionInv, UnmountInv
<1>11. MountInv' /\ GrantInv' /\ OwnerInv'
    BY <1>1, <1>2, <1>3, <1>4, <1>5, SameServer, SamePipe DEF IInv, SessionInv, MountInv, GrantInv, OwnerInv
<1>12. ServedInv'
    BY <1>1, <1>3, <1>5, SameServer, SamePipe DEF IInv, SessionInv, ServedInv, Served
<1>13. AnswerInv'
    BY <1>1, <1>2, <1>3 DEF IInv, SessionInv, AnswerInv
<1>14. HandleInv'
    BY <1>1, <1>3, <1>5, SamePipe DEF IInv, HandleInv
<1>15. SessionInv'
    BY <1>7, <1>8, <1>9, <1>10, <1>11, <1>12, <1>13 DEF SessionInv
<1> QED
    BY <1>6, <1>7, <1>14, <1>15 DEF IInv

\* Once the server is gone a client's step concerns the client only.
LEMMA ServerGone ==
    ASSUME IInv, ~up, UNCHANGED <<up, server_pipe, mainV, sessionV, workerV, fs>>, UNCHANGED <<mounts, inbox>>,
           TypeOK', ClientInv', NEW c \in Clients, cpc'[c] \in {"in", "rejected", "dead"},
           cpc[c] = "reply" => inbox[c] = <<>>,
           \A d \in Clients : d # c => cpc'[d] = cpc[d] /\ call'[d] = call[d]
    PROVE  IInv'
<1>1. ShutdownInv' /\ WorkerInv' /\ SessionsCounted' /\ MessageInv' /\ SlotInv' /\ RequestInv'
    BY SameServer, SamePipe DEF IInv, SessionInv
<1>2. UnmountInv' /\ MountInv' /\ GrantInv' /\ OwnerInv' /\ ServedInv' /\ HandleInv'
    BY DEF UnmountInv, MountInv, GrantInv, OwnerInv, ServedInv, HandleInv
<1>3. fhandler' = fhandler /\ request' = request /\ worker' = worker /\ fcli' = fcli
    BY DEF mainV, sessionV, workerV
<1>4. PipeInv'
  <2>1. \A p \in Pipes : Made(p) => Made(p)'
    BY PipeFacts DEF Made, IInv
  <2> QED
    BY <1>3, <2>1, RequestType DEF IInv, TypeOK, SessionInv, PipeInv
<1>5. AnswerInv'
  <2>1. \A d \in Clients : EndsServer(d)' <=> EndsServer(d)
    BY <1>3 DEF EndsServer
  <2>2. AnswerInv
    BY DEF IInv, SessionInv
  <2>3. ~EndsServer(c) => inbox[c] = <<>>
    BY <2>2 DEF AnswerInv
  <2>4. ASSUME NEW d \in Clients, inbox[d] # <<>>, ~EndsServer(d)
        PROVE  cpc'[d] = "reply" /\ \E val \in Int : inbox[d] = <<[op |-> call'[d], val |-> val]>>
    BY <2>2, <2>3, <2>4 DEF AnswerInv, Answer
  <2> QED
    BY <2>1, <2>2, <2>4 DEF AnswerInv, Answer
<1>6. SessionInv'
    BY <1>1, <1>2, <1>4, <1>5 DEF SessionInv
<1> QED
    BY <1>1, <1>2, <1>6 DEF IInv

\* A client that writes to a server that is gone.
LEMMA BrokenPipeStep ==
    ASSUME IInv, NEW c \in Clients, BrokenPipe(c)
    PROVE  IInv'
<1>1. /\ ~up /\ cpc[c] \in {"in", "rejected"} /\ UNCHANGED <<up, server_pipe, mainV, sessionV, workerV, fs>>
      /\ UNCHANGED <<call, session_id, handles, fd, mounts, calls, inbox>>
    BY DEF BrokenPipe
<1>2. cpc'[c] = "dead" /\ \A d \in Clients : d # c => cpc'[d] = cpc[d]
    BY DEF IInv, TypeOK, BrokenPipe
<1>3. TypeOK'
  <2>1. cpc' \in [Clients -> {"out", "mkfifo", "mkfifo_again", "opening", "reply", "in", "rejected", "dead"}]
    BY DEF IInv, TypeOK, BrokenPipe
  <2> QED
    BY <1>1, <2>1 DEF IInv, TypeOK, mainV, sessionV, workerV, fs
<1>4. ClientInv'
    BY <1>1, <1>2 DEF IInv, SessionInv, ClientInv
<1> QED
    BY <1>1, <1>2, <1>3, <1>4, ServerGone

\* What Return does to the client.
LEMMA ReturnFacts ==
    ASSUME TypeOK, NEW c \in Clients, NEW val \in Int, Return(c, val),
           call[c] = "MOUNT" => val \in Slots \cup {-1},
           call[c] = "OPEN" => val \in Handle \cup {-1}
    PROVE  /\ cpc' \in [Clients -> {"out", "mkfifo", "mkfifo_again", "opening", "reply", "in", "rejected", "dead"}]
           /\ call' \in [Clients -> Ops \cup {"none"}] /\ session_id' \in [Clients -> Slots \cup {-1}]
           /\ handles' \in [Clients -> SUBSET Handle] /\ fd' \in [Clients -> Handle \cup {-1, OutsideTable}]
           /\ cpc'[c] = IF call[c] = "MOUNT" /\ val < 0 THEN "rejected" ELSE "in"
           /\ call'[c] = "none"
           /\ session_id'[c] = IF call[c] = "MOUNT" THEN val ELSE session_id[c]
           /\ handles'[c] = IF call[c] = "OPEN" /\ val >= 0 THEN handles[c] \cup {val} ELSE handles[c]
           /\ \A d \in Clients : d # c => /\ cpc'[d] = cpc[d] /\ call'[d] = call[d]
                                          /\ session_id'[d] = session_id[d] /\ handles'[d] = handles[d]
<1>1. /\ cpc' \in [Clients -> {"out", "mkfifo", "mkfifo_again", "opening", "reply", "in", "rejected", "dead"}]
      /\ cpc'[c] = IF call[c] = "MOUNT" /\ val < 0 THEN "rejected" ELSE "in"
      /\ \A d \in Clients : d # c => cpc'[d] = cpc[d]
    BY DEF TypeOK, Return
<1>2. /\ call' \in [Clients -> Ops \cup {"none"}] /\ call'[c] = "none"
      /\ \A d \in Clients : d # c => call'[d] = call[d]
    BY DEF TypeOK, Return
<1>3. /\ session_id' \in [Clients -> Slots \cup {-1}]
      /\ session_id'[c] = IF call[c] = "MOUNT" THEN val ELSE session_id[c]
      /\ \A d \in Clients : d # c => session_id'[d] = session_id[d]
    BY DEF TypeOK, Return
<1>4. /\ handles' \in [Clients -> SUBSET Handle]
      /\ handles'[c] = IF call[c] = "OPEN" /\ val >= 0 THEN handles[c] \cup {val} ELSE handles[c]
      /\ \A d \in Clients : d # c => handles'[d] = handles[d]
    BY DEF TypeOK, Return
<1>5. fd' \in [Clients -> Handle \cup {-1, OutsideTable}]
    BY DEF TypeOK, Return
<1> QED
    BY <1>1, <1>2, <1>3, <1>4, <1>5

\* An empty answer, from a server that is gone, is taken for a 0.
LEMMA EndOfFileStep ==
    ASSUME IInv, NEW c \in Clients, EndOfFile(c)
    PROVE  IInv'
<1>1. /\ ~up /\ cpc[c] = "reply" /\ inbox[c] = <<>> /\ Return(c, 0)
      /\ UNCHANGED <<up, server_pipe, mainV, sessionV, workerV, fs>> /\ UNCHANGED <<mounts, calls, inbox>>
    BY DEF EndOfFile
<1>2. /\ cpc' \in [Clients -> {"out", "mkfifo", "mkfifo_again", "opening", "reply", "in", "rejected", "dead"}]
      /\ call' \in [Clients -> Ops \cup {"none"}] /\ session_id' \in [Clients -> Slots \cup {-1}]
      /\ handles' \in [Clients -> SUBSET Handle] /\ fd' \in [Clients -> Handle \cup {-1, OutsideTable}]
      /\ cpc'[c] = "in"
      /\ \A d \in Clients : d # c => cpc'[d] = cpc[d] /\ call'[d] = call[d]
  <2>1. PICK val \in Int : val = 0
    OBVIOUS
  <2>2. Return(c, val) /\ val \in Slots \cup {-1} /\ val \in Handle \cup {-1} /\ ~(val < 0)
    BY <1>1, <2>1, SlotFacts
  <2> QED
    BY <2>2, ReturnFacts DEF IInv
<1>3. TypeOK'
    BY <1>1, <1>2 DEF IInv, TypeOK, mainV, sessionV, workerV, fs
<1>4. ClientInv'
    BY <1>1, <1>2 DEF IInv, SessionInv, ClientInv
<1> QED
    BY <1>1, <1>2, <1>3, <1>4, ServerGone

\* A mounted client between two calls has its slot to itself.
LEMMA MountedFacts ==
    ASSUME IInv, up, NEW c \in Clients, cpc[c] = "in", NEW i, i = session_id[c]
    PROVE  /\ i \in Slots /\ free_sessions[i] = "TAKEN_POS" /\ fhandler[i] = Pipe(c)
           /\ ~Ending(i) => ~Busy(i) /\ ~Pending(i) /\ inbox[c] = <<>>
           /\ i \notin Leaving /\ (main = "mount_post" => slot # i)
           /\ \A k \in DOMAIN server_pipe : For(k, i) => server_pipe[k].op # "UNMOUNT"
           /\ \A d \in Clients : call[d] = "MOUNT" => ~Answer(d, "MOUNT", i)
           /\ \A d \in Clients : Mounted(d) /\ session_id[d] = i => d = c
           /\ \A j \in Slots : fhandler[j] = Pipe(c) => j = i
<1>1. Mounted(c) /\ HasPipe(c) /\ ~\E op : InCall(c, op)
    BY DEF Mounted, HasPipe, InCall
<1>2. i \in Slots /\ Served(c, i)
    BY <1>1 DEF IInv, SessionInv, ServedInv
<1>3. free_sessions[i] = "TAKEN_POS" /\ fhandler[i] = Pipe(c)
    BY <1>2 DEF Served
<1>4. ~Ending(i) => ~Busy(i) /\ ~Pending(i)
    BY <1>1, <1>2 DEF Served, Pending
<1>5. ~Ending(i) => inbox[c] = <<>>
    BY <1>1, NoAnswer
<1>6. ~NoClientOf(i)
    BY <1>1 DEF NoClientOf
<1>7. i \notin Leaving /\ \A k \in DOMAIN server_pipe : For(k, i) => server_pipe[k].op # "UNMOUNT"
    BY <1>2, <1>6 DEF IInv, SessionInv, UnmountInv
<1>8. main = "mount_post" => slot # i
    BY <1>3, PipeFacts DEF IInv, SessionInv, SlotInv, Unused
<1>9. \A d \in Clients : Mounted(d) /\ session_id[d] = i => d = c
  <2>1. \A d \in Clients : Mounted(d) /\ session_id[d] = i => fhandler[i] = Pipe(d)
    BY DEF IInv, SessionInv, ServedInv, Served
  <2> QED
    BY <1>3, <2>1, PipeFacts DEF IInv
<1>10. \A d \in Clients : call[d] = "MOUNT" => ~Answer(d, "MOUNT", i)
  <2>1. SUFFICES ASSUME NEW d \in Clients, call[d] = "MOUNT", Answer(d, "MOUNT", i)
        PROVE  FALSE
    OBVIOUS
  <2>2. fhandler[i] = Pipe(d) /\ ~Busy(i)
    BY <1>2, <2>1 DEF IInv, SessionInv, GrantInv
  <2>3. d = c
    BY <1>3, <2>2, PipeFacts, ZenonT(60) DEF IInv
  <2>4. ~Ending(i) /\ inbox[c] # <<>>
    BY <2>1, <2>2, <2>3, InboxFacts DEF Ending, Busy, IInv
  <2> QED
    BY <1>5, <2>4
<1>11. \A j \in Slots : fhandler[j] = Pipe(c) => j = i
    BY <1>1 DEF IInv, SessionInv, OwnerInv
<1> QED
    BY <1>2, <1>3, <1>4, <1>5, <1>7, <1>8, <1>9, <1>10, <1>11

\* The handle in a tfs_close message is on its way.
LEMMA SentHandle ==
    ASSUME TypeOK, NEW m \in Requests, Send(m), UNCHANGED workerV
    PROVE  \A j \in Slots : \A h : Carries(j, h)' =>
               Carries(j, h) \/ (m.op = "CLOSE" /\ m.session_id = j /\ m.fhandle = h /\ h >= 0)
<1>1. PICK n \in Nat \ {0} :
          /\ n \notin DOMAIN server_pipe /\ DOMAIN server_pipe' = DOMAIN server_pipe \cup {n}
          /\ server_pipe'[n] = m
          /\ \A k \in DOMAIN server_pipe : k \in Nat /\ server_pipe'[k] = server_pipe[k] /\ k < n
    BY SendFacts
<1> QED
    BY <1>1 DEF Carries, For, workerV

\* A call on a session: its slot has nothing else to do.
LEMMA RequestStep ==
    ASSUME IInv, NEW c \in Clients, NEW op \in {"OPEN", "CLOSE", "READ", "WRITE", "SHUTDOWN"},
           NEW h \in Handle \cup {-1, OutsideTable}, op = "CLOSE" => h # OutsideTable,
           Request(c, op, h), handles' \in [Clients -> SUBSET Handle]
    PROVE  /\ TypeOK' /\ ShutdownInv' /\ WorkerInv' /\ SessionInv'
           /\ \A d \in Clients : \A x : Answer(d, "OPEN", x)' <=> Answer(d, "OPEN", x)
           /\ \A j \in Slots : \A x : Carries(j, x)' =>
                 Carries(j, x) \/ (op = "CLOSE" /\ session_id[c] = j /\ h = x /\ x >= 0)
<1>1. /\ up /\ cpc[c] = "in" /\ UNCHANGED <<up, mainV, sessionV, workerV, fs>>
      /\ UNCHANGED <<session_id, mounts, inbox>>
    BY DEF Request
<1>2. PICK i : i = session_id[c]
    OBVIOUS
<1>3. /\ i \in Slots /\ free_sessions[i] = "TAKEN_POS" /\ fhandler[i] = Pipe(c)
      /\ ~Ending(i) => ~Busy(i) /\ ~Pending(i) /\ inbox[c] = <<>>
      /\ i \notin Leaving /\ (main = "mount_post" => slot # i)
      /\ \A k \in DOMAIN server_pipe : For(k, i) => server_pipe[k].op # "UNMOUNT"
      /\ \A d \in Clients : call[d] = "MOUNT" => ~Answer(d, "MOUNT", i)
      /\ \A d \in Clients : Mounted(d) /\ session_id[d] = i => d = c
      /\ \A j \in Slots : fhandler[j] = Pipe(c) => j = i
    BY <1>1, <1>2, MountedFacts
<1>4. PICK m : m = [op |-> op, name |-> NoClient, session_id |-> i, fhandle |-> h]
    OBVIOUS
<1>5. Send(m)
    BY <1>2, <1>4 DEF Request
<1>6. m \in Requests /\ m.op = op /\ m.session_id = i /\ m.fhandle = h /\ op \in Ops
  <2>1. op \in Ops
    BY DEF Ops
  <2> QED
    BY <1>3, <1>4, <2>1 DEF Requests
<1>7. PICK n \in Nat \ {0} :
          /\ n \notin DOMAIN server_pipe /\ DOMAIN server_pipe' = DOMAIN server_pipe \cup {n}
          /\ server_pipe'[n] = m
          /\ \A k \in DOMAIN server_pipe : k \in Nat /\ server_pipe'[k] = server_pipe[k] /\ k < n
    BY <1>5, <1>6, SendFacts DEF IInv
<1>8. server_pipe' \in Seq(Requests) /\ \A j \in Slots : Pending(j)' <=> (Pending(j) \/ j = i)
    BY <1>5, <1>6, SendFacts DEF IInv
<1>9. /\ cpc'[c] = "reply" /\ call'[c] = op
      /\ \A d \in Clients : d # c => cpc'[d] = cpc[d] /\ call'[d] = call[d]
    BY DEF IInv, TypeOK, Request
<1>10. /\ \A k, j : k \in DOMAIN server_pipe /\ j \in Slots => (For(k, j)' <=> For(k, j))
       /\ \A j \in Slots : For(n, j)' <=> j = i
    BY <1>6, <1>7 DEF For
<1>11. \A d \in Clients : /\ Pipe(d)' = Pipe(d) /\ (HasPipe(d)' <=> HasPipe(d)) /\ (Mounted(d)' <=> Mounted(d))
                          /\ Awaits(d)' <=> Awaits(d)
                          /\ \A o, v : Answer(d, o, v)' <=> Answer(d, o, v)
                          /\ \A o : d # c => (InCall(d, o)' <=> InCall(d, o))
    BY <1>1, <1>9 DEF Pipe, HasPipe, Mounted, Awaits, Answer, InCall
<1>12. Mounted(c) /\ (inbox[c] = <<>> => InCall(c, op)')
    BY <1>1, <1>9 DEF Mounted, InCall
<1>13. /\ main' = main /\ name' = name /\ slot' = slot /\ fcli' = fcli /\ fhandler' = fhandler
       /\ request' = request /\ worker' = worker /\ free_sessions' = free_sessions
    BY <1>1 DEF mainV, sessionV, workerV
<1>14. \A d \in Clients : EndsServer(d)' <=> EndsServer(d)
    BY <1>1, <1>13 DEF EndsServer
<1>15. \A j \in Slots : NoClientOf(j)' <=> NoClientOf(j)
    BY <1>1, <1>11 DEF NoClientOf
<1>16. TypeOK'
  <2>1. /\ cpc' \in [Clients -> {"out", "mkfifo", "mkfifo_again", "opening", "reply", "in", "rejected", "dead"}]
        /\ call' \in [Clients -> Ops \cup {"none"}]
    BY <1>6 DEF IInv, TypeOK, Request
  <2>2. fd' \in [Clients -> Handle \cup {-1, OutsideTable}]
    BY DEF IInv, TypeOK, Request
  <2>3. calls' \in [Clients -> 0 .. MaxCalls]
    <3>1. calls[c] \in 0 .. MaxCalls /\ calls[c] > 0
      BY DEF IInv, TypeOK, Request
    <3>2. calls[c] - 1 \in 0 .. MaxCalls
      BY <3>1
    <3> QED
      BY <3>2 DEF IInv, TypeOK, Request
  <2> QED
    BY <1>1, <1>8, <2>1, <2>2, <2>3 DEF IInv, TypeOK, mainV, sessionV, workerV, fs
<1>17. ShutdownInv' /\ WorkerInv' /\ SessionsCounted'
    BY <1>1, SameServer DEF IInv, SessionInv
<1>18. MessageInv'
  <2>1. MessageInv
    BY DEF IInv, SessionInv
  <2>2. \A k \in DOMAIN server_pipe' :
            k = n \/ (k \in DOMAIN server_pipe /\ server_pipe'[k] = server_pipe[k])
    BY <1>7
  <2>3. main = "slait_open" => name \in Clients
    BY <2>1 DEF MessageInv
  <2>4. op # "MOUNT"
    OBVIOUS
  <2> QED
    BY <1>3, <1>6, <1>7, <1>13, <2>1, <2>2, <2>3, <2>4 DEF MessageInv
<1>19. PipeInv'
  <2>1. \A p \in Pipes : Made(p) => Made(p)'
    BY <1>1, <1>9, PipeFacts DEF Made, IInv
  <2> QED
    BY <1>13, <2>1, RequestType DEF IInv, TypeOK, SessionInv, PipeInv
<1>20. ClientInv'
  <2>1. op \in Ops \ {"UNMOUNT"}
    BY <1>6
  <2> QED
    BY <1>1, <1>9, <2>1 DEF IInv, SessionInv, ClientInv
<1>21. SlotInv'
    BY <1>1, <1>3, <1>8, <1>13, SameServer DEF IInv, SessionInv, SlotInv, Unused
<1>22. RequestInv'
  <2>1. SUFFICES ASSUME NEW j \in Slots, ~Ending(j), NEW k \in DOMAIN server_pipe', For(k, j)'
        PROVE  ~Busy(j) /\ \A l \in DOMAIN server_pipe' : For(l, j)' => l = k
    BY <1>1, SameServer DEF RequestInv
  <2>2. CASE j = i
    <3>1. ~Busy(i) /\ ~Pending(i)
      BY <1>3, <2>1, <2>2
    <3>2. \A l \in DOMAIN server_pipe' : For(l, j)' => l = n
      BY <1>7, <1>10, <2>2, <3>1 DEF Pending
    <3> QED
      BY <2>1, <2>2, <3>1, <3>2
  <2>3. CASE j # i
    <3>1. \A l \in DOMAIN server_pipe' : For(l, j)' => l \in DOMAIN server_pipe /\ For(l, j)
      BY <1>7, <1>10, <2>3
    <3> QED
      BY <1>1, <2>1, <3>1 DEF IInv, SessionInv, RequestInv
  <2> QED
    BY <2>2, <2>3
<1>23. UnmountInv'
  <2>1. \A j \in Slots : j \in Leaving => ~Pending(j)' /\ NoClientOf(j)
    BY <1>1, <1>3, <1>8 DEF IInv, SessionInv, UnmountInv
  <2>2. ASSUME NEW j \in Slots, NEW k \in DOMAIN server_pipe', For(k, j)', server_pipe'[k].op = "UNMOUNT"
        PROVE  NoClientOf(j) /\ \A l \in DOMAIN server_pipe' : For(l, j)' => l <= k
    <3>1. k \in DOMAIN server_pipe /\ For(k, j) /\ server_pipe[k].op = "UNMOUNT"
      BY <1>6, <1>7, <1>10, <2>2
    <3>2. j # i
      BY <1>3, <3>1
    <3>3. NoClientOf(j) /\ \A l \in DOMAIN server_pipe : For(l, j) => l <= k
      BY <1>1, <3>1 DEF IInv, SessionInv, UnmountInv
    <3> QED
      BY <1>7, <1>10, <3>2, <3>3
  <2> QED
    BY <1>1, <1>15, <2>1, <2>2, SameServer DEF UnmountInv
<1>24. MountInv'
    BY <1>1, <1>11, <1>13, SameServer DEF IInv, SessionInv, MountInv
<1>25. GrantInv'
    BY <1>1, <1>3, <1>8, <1>9, <1>11, <1>13, SameServer DEF IInv, SessionInv, GrantInv
<1>26. OwnerInv'
    BY <1>1, <1>2, <1>3, <1>9, <1>11, <1>12, <1>13 DEF IInv, SessionInv, OwnerInv
<1>27. ServedInv'
  <2>1. SUFFICES ASSUME NEW d \in Clients, Mounted(d)
        PROVE  session_id[d] \in Slots /\ Served(d, session_id[d])'
    BY <1>1, <1>11 DEF ServedInv
  <2>2. session_id[d] \in Slots /\ Served(d, session_id[d])
    BY <1>1, <2>1 DEF IInv, SessionInv, ServedInv
  <2>3. CASE d # c
    <3>1. session_id[d] # i
      BY <1>3, <2>1, <2>3
    <3> QED
      BY <1>1, <1>7, <1>10, <1>11, <1>13, <2>2, <2>3, <3>1, SameServer DEF Served
  <2>4. CASE d = c
    <3>1. ASSUME ~Ending(i), NEW k \in DOMAIN server_pipe', For(k, i)'
          PROVE  cpc'[c] = "reply" /\ call'[c] = server_pipe'[k].op /\ inbox'[c] = <<>>
      <4>1. k = n
        BY <1>3, <1>7, <1>10, <3>1 DEF Pending
      <4> QED
        BY <1>1, <1>3, <1>6, <1>7, <1>9, <3>1, <4>1
    <3>2. ~Ending(i) => ~Busy(i)
      BY <1>3
    <3>3. Served(c, i)'
      BY <1>1, <1>3, <1>11, <1>13, <3>1, <3>2, SameServer DEF Served, InCall
    <3> QED
      BY <1>1, <1>2, <1>3, <2>4, <3>3
  <2> QED
    BY <2>3, <2>4
<1>28. AnswerInv'
  <2>1. AnswerInv
    BY DEF IInv, SessionInv
  <2>2. inbox[c] = <<>> \/ EndsServer(c)
    BY <1>1, <2>1 DEF AnswerInv
  <2>3. \A d \in Clients : d # c => cpc'[d] = cpc[d] /\ call'[d] = call[d]
    BY <1>9
  <2>4. ASSUME NEW d \in Clients, inbox[d] # <<>>, ~EndsServer(d)
        PROVE  cpc'[d] = "reply" /\ \E val \in Int : inbox[d] = <<[op |-> call'[d], val |-> val]>>
    BY <2>1, <2>2, <2>3, <2>4 DEF AnswerInv, Answer
  <2> QED
    BY <1>1, <1>14, <2>1, <2>4 DEF AnswerInv, Answer
<1>29. SessionInv'
    BY <1>17, <1>18, <1>19, <1>20, <1>21, <1>22, <1>23, <1>24, <1>25, <1>26, <1>27, <1>28 DEF SessionInv
<1>30. \A j \in Slots : \A x : Carries(j, x)' =>
           Carries(j, x) \/ (op = "CLOSE" /\ session_id[c] = j /\ h = x /\ x >= 0)
    BY <1>1, <1>2, <1>5, <1>6, SentHandle DEF IInv
<1> QED
    BY <1>11, <1>16, <1>17, <1>29, <1>30

\* tfs_open, tfs_read, tfs_write and the shutdown: the handles stay where they are.
LEMMA OtherCallStep ==
    ASSUME IInv, NEW c \in Clients, OpenFile(c) \/ AccessFile(c) \/ Shutdown(c)
    PROVE  IInv'
<1>1. PICK op \in {"OPEN", "READ", "WRITE", "SHUTDOWN"}, h \in Handle \cup {-1, OutsideTable} : Request(c, op, h)
  <2>1. handles[c] \subseteq Handle
    BY DEF IInv, TypeOK
  <2> QED
    BY <2>1 DEF OpenFile, AccessFile, Shutdown
<1>2. handles' = handles
    BY DEF OpenFile, AccessFile, Shutdown
<1>3. handles' \in [Clients -> SUBSET Handle]
    BY <1>2 DEF IInv, TypeOK
<1>4. /\ TypeOK' /\ ShutdownInv' /\ WorkerInv' /\ SessionInv'
      /\ \A d \in Clients : \A x : Answer(d, "OPEN", x)' <=> Answer(d, "OPEN", x)
      /\ \A j \in Slots : \A x : Carries(j, x)' => Carries(j, x)
    BY <1>1, <1>3, RequestStep
<1>5. UNCHANGED <<up, down, open>>
    BY <1>1 DEF Request, fs
<1>6. \A d \in Clients : \A x : Holds(d, x)' <=> Holds(d, x)
    BY <1>2, <1>4 DEF Holds
<1>7. HandleInv'
    BY <1>4, <1>5, <1>6 DEF IInv, HandleInv
<1> QED
    BY <1>4, <1>7 DEF IInv

\* tfs_close: the handle goes from the client into the message.
LEMMA CloseFileStep ==
    ASSUME IInv, NEW c \in Clients, CloseFile(c)
    PROVE  IInv'
<1>1. PICK h \in handles[c] \cup {-1} : Request(c, "CLOSE", h) /\ handles' = [handles EXCEPT ![c] = @ \ {h}]
    BY DEF CloseFile
<1>2. handles \in [Clients -> SUBSET Handle]
    BY DEF IInv, TypeOK
<1>3. h \in Handle \cup {-1, OutsideTable} /\ h # OutsideTable
    BY <1>1, <1>2, HandleFacts DEF OutsideTable
<1>4. handles' \in [Clients -> SUBSET Handle]
    BY <1>1, <1>2
<1>5. /\ TypeOK' /\ ShutdownInv' /\ WorkerInv' /\ SessionInv'
      /\ \A d \in Clients : \A x : Answer(d, "OPEN", x)' <=> Answer(d, "OPEN", x)
      /\ \A j \in Slots : \A x : Carries(j, x)' => Carries(j, x) \/ (session_id[c] = j /\ h = x /\ x >= 0)
    BY <1>1, <1>3, <1>4, RequestStep
<1>6. up /\ cpc[c] = "in" /\ UNCHANGED <<up, down, open>>
    BY <1>1 DEF Request, fs
<1>7. \A d \in Clients : \A x : Holds(d, x)' => Holds(d, x)
    BY <1>1, <1>2, <1>5 DEF Holds
<1>8. HandleInv'
  <2>1. SUFFICES ASSUME up, ~down, HandleInv
        PROVE  HandleInv'
    BY <1>6 DEF HandleInv, IInv
  <2>2. ~Ending(session_id[c])
    BY <1>6, <2>1, MountedFacts DEF IInv, ShutdownInv
  <2>3. \A op, val : ~Answer(c, op, val)
    BY <1>6, <2>2, MountedFacts, InboxFacts DEF IInv
  <2>4. h >= 0 => Holds(c, h) /\ ~Holds(c, h)'
    BY <1>1, <1>2, <1>5, <2>3 DEF Holds
  <2>5. ASSUME NEW x \in Handle \cup {-1, OutsideTable}
        PROVE  /\ \A d \in Clients : Holds(d, x)' => x \in open
               /\ \A j \in Slots : Carries(j, x)' => x \in open
               /\ \A d, e \in Clients : Holds(d, x)' /\ Holds(e, x)' => d = e
               /\ \A j, l \in Slots : Carries(j, x)' /\ Carries(l, x)' => j = l
               /\ \A d \in Clients, j \in Slots : ~(Holds(d, x)' /\ Carries(j, x)')
    <3>1. /\ \A d \in Clients : Holds(d, x) => x \in open
          /\ \A j \in Slots : Carries(j, x) => x \in open
          /\ \A d, e \in Clients : Holds(d, x) /\ Holds(e, x) => d = e
          /\ \A j, l \in Slots : Carries(j, x) /\ Carries(l, x) => j = l
          /\ \A d \in Clients, j \in Slots : ~(Holds(d, x) /\ Carries(j, x))
      BY <2>1, <2>5 DEF HandleInv
    <3>2. CASE x = h /\ x >= 0
      <4>1. Holds(c, x) /\ ~Holds(c, x)'
        BY <2>4, <3>2
      <4>2. \A j \in Slots : ~Carries(j, x)
        BY <3>1, <4>1
      <4>3. \A j \in Slots : Carries(j, x)' => j = session_id[c]
        BY <1>5, <4>2
      <4> QED
        BY <1>7, <3>1, <4>1, <4>2, <4>3
    <3>3. CASE ~(x = h /\ x >= 0)
      <4>1. \A j \in Slots : Carries(j, x)' => Carries(j, x)
        BY <1>5, <3>3
      <4> QED
        BY <1>7, <3>1, <4>1
    <3> QED
      BY <3>2, <3>3
  <2> QED
    BY <1>6, <2>5 DEF HandleInv
<1> QED
    BY <1>5, <1>8 DEF IInv

\* tfs_unmount: the last message of the session.
LEMMA UnmountStep ==
    ASSUME IInv, NEW c \in Clients, Unmount(c)
    PROVE  IInv'
<1>1. /\ up /\ cpc[c] \in {"in", "rejected"} /\ UNCHANGED <<up, mainV, sessionV, workerV, fs>>
      /\ UNCHANGED <<call, session_id, handles, fd, mounts, calls>>
    BY DEF Unmount
<1>2. PICK i \in Slots \cup {-1} : i = session_id[c]
    BY DEF IInv, TypeOK
<1>3. i \in Slots => /\ free_sessions[i] = "TAKEN_POS"
                     /\ ~Ending(i) => ~Busy(i) /\ ~Pending(i)
                     /\ i \notin Leaving /\ (main = "mount_post" => slot # i)
                     /\ \A k \in DOMAIN server_pipe : For(k, i) => server_pipe[k].op # "UNMOUNT"
                     /\ \A d \in Clients : call[d] = "MOUNT" => ~Answer(d, "MOUNT", i)
                     /\ \A d \in Clients : Mounted(d) /\ session_id[d] = i => d = c
  <2>1. CASE cpc[c] = "rejected"
    BY <1>1, <1>2, <2>1, SlotFacts DEF IInv, SessionInv, ClientInv
  <2>2. CASE cpc[c] = "in"
    BY <1>1, <1>2, <2>2, MountedFacts
  <2> QED
    BY <1>1, <2>1, <2>2
<1>4. PICK m : m = [NoMsg EXCEPT !.op = "UNMOUNT", !.session_id = session_id[c]]
    OBVIOUS
<1>5. Send(m)
    BY <1>4 DEF Unmount
<1>6. m \in Requests /\ m.op = "UNMOUNT" /\ m.session_id = i
  <2>1. "none" \in Ops \cup {"none"} /\ "UNMOUNT" \in Ops \cup {"none"}
    BY DEF Ops
  <2>2. NoMsg \in Requests
    BY <2>1 DEF NoMsg, Requests
  <2>3. m \in Requests
    BY <1>2, <1>4, <2>1, <2>2 DEF Requests
  <2>4. m.op = "UNMOUNT" /\ m.session_id = i
    BY <1>2, <1>4, <2>2 DEF Requests
  <2> QED
    BY <2>3, <2>4
<1>7. PICK n \in Nat \ {0} :
          /\ n \notin DOMAIN server_pipe /\ DOMAIN server_pipe' = DOMAIN server_pipe \cup {n}
          /\ server_pipe'[n] = m
          /\ \A k \in DOMAIN server_pipe : k \in Nat /\ server_pipe'[k] = server_pipe[k] /\ k < n
    BY <1>5, <1>6, SendFacts DEF IInv
<1>8. server_pipe' \in Seq(Requests) /\ \A j \in Slots : Pending(j)' <=> (Pending(j) \/ j = i)
    BY <1>5, <1>6, SendFacts DEF IInv
<1>9. /\ cpc'[c] = "out" /\ inbox'[c] = <<>>
      /\ \A d \in Clients : d # c => cpc'[d] = cpc[d] /\ inbox'[d] = inbox[d]
    BY DEF IInv, TypeOK, Unmount
<1>10. /\ \A k, j : k \in DOMAIN server_pipe /\ j \in Slots => (For(k, j)' <=> For(k, j))
       /\ \A j \in Slots : For(n, j)' <=> j = i
    BY <1>6, <1>7 DEF For
<1>11. \A d \in Clients : d # c =>
           /\ Pipe(d)' = Pipe(d) /\ (HasPipe(d)' <=> HasPipe(d)) /\ (Mounted(d)' <=> Mounted(d))
           /\ Awaits(d)' <=> Awaits(d)
           /\ \A op, val : Answer(d, op, val)' <=> Answer(d, op, val)
           /\ \A op : InCall(d, op)' <=> InCall(d, op)
    BY <1>1, <1>9 DEF Pipe, HasPipe, Mounted, Awaits, Answer, InCall
<1>12. Pipe(c)' = Pipe(c) /\ ~Mounted(c)' /\ ~HasPipe(c)' /\ ~Awaits(c) /\ \A op, val : ~Answer(c, op, val)'
    BY <1>1, <1>9 DEF Pipe, Mounted, HasPipe, Awaits, Answer
<1>13. /\ main' = main /\ name' = name /\ slot' = slot /\ fcli' = fcli /\ fhandler' = fhandler
       /\ request' = request /\ worker' = worker /\ free_sessions' = free_sessions
    BY <1>1 DEF mainV, sessionV, workerV
<1>14. \A d \in Clients : EndsServer(d)' <=> EndsServer(d)
    BY <1>1, <1>13 DEF EndsServer
<1>15. \A j \in Slots : (NoClientOf(j) => NoClientOf(j)') /\ (j = i => NoClientOf(j)')
    BY <1>1, <1>3, <1>11, <1>12 DEF NoClientOf
<1>16. TypeOK'
  <2>1. cpc' \in [Clients -> {"out", "mkfifo", "mkfifo_again", "opening", "reply", "in", "rejected", "dead"}]
    BY DEF IInv, TypeOK, Unmount
  <2>2. <<>> \in Seq([op : Ops, val : Int])
    OBVIOUS
  <2>3. inbox' \in [Clients -> Seq([op : Ops, val : Int])]
    <3>1. PICK T : T = Seq([op : Ops, val : Int])
      OBVIOUS
    <3>2. inbox \in [Clients -> T] /\ <<>> \in T
      BY <2>2, <3>1 DEF IInv, TypeOK
    <3>3. inbox' \in [Clients -> T]
      BY <3>2 DEF Unmount
    <3> QED
      BY <3>1, <3>3
  <2> QED
    BY <1>1, <1>8, <2>1, <2>3 DEF IInv, TypeOK, mainV, sessionV, workerV, fs
<1>17. ShutdownInv' /\ WorkerInv' /\ SessionsCounted'
    BY <1>1, SameServer DEF IInv, SessionInv
<1>18. MessageInv'
  <2>1. MessageInv
    BY DEF IInv, SessionInv
  <2>2. \A k \in DOMAIN server_pipe' :
            k = n \/ (k \in DOMAIN server_pipe /\ server_pipe'[k] = server_pipe[k])
    BY <1>7
  <2>3. main = "slait_open" => name \in Clients
    BY <2>1 DEF MessageInv
  <2>4. "UNMOUNT" \in Ops
    BY DEF Ops
  <2> QED
    BY <1>6, <1>7, <1>13, <2>1, <2>2, <2>3, <2>4 DEF MessageInv
<1>19. PipeInv'
  <2>1. \A p \in Pipes : Made(p) => Made(p)'
    BY <1>1, <1>9, PipeFacts DEF Made, IInv
  <2> QED
    BY <1>13, <2>1, RequestType DEF IInv, TypeOK, SessionInv, PipeInv
<1>20. ClientInv'
    BY <1>1, <1>9 DEF IInv, SessionInv, ClientInv
<1>21. SlotInv'
    BY <1>1, <1>3, <1>8, <1>13, SameServer DEF IInv, SessionInv, SlotInv, Unused
<1>22. RequestInv'
  <2>1. SUFFICES ASSUME NEW j \in Slots, ~Ending(j), NEW k \in DOMAIN server_pipe', For(k, j)'
        PROVE  ~Busy(j) /\ \A l \in DOMAIN server_pipe' : For(l, j)' => l = k
    BY <1>1, SameServer DEF RequestInv
  <2>2. CASE j = i
    <3>1. ~Busy(j) /\ ~Pending(j)
      BY <1>3, <2>1, <2>2
    <3>2. \A l \in DOMAIN server_pipe' : For(l, j)' => l = n
      BY <1>7, <1>10, <2>2, <3>1 DEF Pending
    <3> QED
      BY <2>1, <2>2, <3>1, <3>2
  <2>3. CASE j # i
    <3>1. \A l \in DOMAIN server_pipe' : For(l, j)' => l \in DOMAIN server_pipe /\ For(l, j)
      BY <1>7, <1>10, <2>3
    <3> QED
      BY <1>1, <2>1, <3>1 DEF IInv, SessionInv, RequestInv
  <2> QED
    BY <2>2, <2>3
<1>23. UnmountInv'
  <2>1. \A j \in Slots : j \in Leaving => ~Pending(j)' /\ NoClientOf(j)'
    BY <1>1, <1>3, <1>8, <1>15 DEF IInv, SessionInv, UnmountInv
  <2>2. ASSUME NEW j \in Slots, NEW k \in DOMAIN server_pipe', For(k, j)', server_pipe'[k].op = "UNMOUNT"
        PROVE  NoClientOf(j)' /\ \A l \in DOMAIN server_pipe' : For(l, j)' => l <= k
    <3>1. CASE k = n
      BY <1>7, <1>10, <1>15, <2>2, <3>1
    <3>2. CASE k # n
      <4>1. k \in DOMAIN server_pipe /\ For(k, j) /\ server_pipe[k].op = "UNMOUNT"
        BY <1>7, <1>10, <2>2, <3>2
      <4>2. j # i
        BY <1>3, <4>1
      <4>3. NoClientOf(j) /\ \A l \in DOMAIN server_pipe : For(l, j) => l <= k
        BY <1>1, <4>1 DEF IInv, SessionInv, UnmountInv
      <4> QED
        BY <1>7, <1>10, <1>15, <4>2, <4>3
    <3> QED
      BY <3>1, <3>2
  <2> QED
    BY <1>1, <2>1, <2>2, SameServer DEF UnmountInv
<1>24. MountInv'
    BY <1>1, <1>11, <1>12, <1>13, SameServer DEF IInv, SessionInv, MountInv
<1>25. GrantInv'
    BY <1>1, <1>3, <1>8, <1>11, <1>12, <1>13, SameServer DEF IInv, SessionInv, GrantInv
<1>26. OwnerInv'
    BY <1>1, <1>9, <1>11, <1>12, <1>13 DEF IInv, SessionInv, OwnerInv
<1>27. ServedInv'
  <2>1. SUFFICES ASSUME NEW d \in Clients, Mounted(d), d # c
        PROVE  session_id[d] \in Slots /\ Served(d, session_id[d])'
    BY <1>1, <1>11, <1>12 DEF ServedInv
  <2>2. session_id[d] \in Slots /\ Served(d, session_id[d])
    BY <1>1, <2>1 DEF IInv, SessionInv, ServedInv
  <2>3. session_id[d] # i
    BY <1>3, <2>1, <2>2
  <2> QED
    BY <1>1, <1>7, <1>10, <1>11, <1>13, <2>1, <2>2, <2>3, SameServer DEF Served
<1>28. AnswerInv'
  <2>1. \A d \in Clients : d # c =>
            /\ inbox'[d] = inbox[d] /\ cpc'[d] = cpc[d] /\ call'[d] = call[d]
            /\ EndsServer(d)' <=> EndsServer(d)
    BY <1>1, <1>9, <1>14
  <2>2. inbox'[c] = <<>>
    BY <1>9
  <2> QED
    BY <2>1, <2>2, OtherAnswers DEF IInv, SessionInv
<1>29. HandleInv'
  <2>1. \A d \in Clients, h \in Handle \cup {-1, OutsideTable} : Holds(d, h)' => Holds(d, h)
    BY <1>1, <1>11, <1>12 DEF Holds
  <2>2. \A j \in Slots, h \in Handle \cup {-1, OutsideTable} : Carries(j, h)' => Carries(j, h)
    BY <1>1, <1>5, <1>6, SentHandle DEF IInv
  <2> QED
    BY <1>1, <2>1, <2>2 DEF IInv, HandleInv, fs
<1>30. SessionInv'
    BY <1>17, <1>18, <1>19, <1>20, <1>21, <1>22, <1>23, <1>24, <1>25, <1>26, <1>27, <1>28 DEF SessionInv
<1> QED
    BY <1>16, <1>17, <1>29, <1>30 DEF IInv

\* The first answer on the pipe, and what is left.
LEMMA AnswerRead ==
    ASSUME IInv, NEW c \in Clients, inbox[c] # <<>>
    PROVE  /\ Head(inbox[c]) = inbox[c][1] /\ Head(inbox[c]).val \in Int /\ 1 \in DOMAIN inbox[c]
           /\ Tail(inbox[c]) \in Seq([op : Ops, val : Int])
           /\ \A k \in DOMAIN Tail(inbox[c]) : \E l \in DOMAIN inbox[c] : Tail(inbox[c])[k] = inbox[c][l]
<1>1. inbox[c] \in Seq([op : Ops, val : Int])
    BY InboxFacts DEF IInv
<1>2. ASSUME NEW T, NEW s \in Seq(T), s # <<>>, NEW t, t = Tail(s)
      PROVE  /\ t \in Seq(T) /\ 1 \in DOMAIN s /\ Head(s) = s[1] /\ s[1] \in T
             /\ \A k \in DOMAIN t : \E l \in DOMAIN s : t[k] = s[l]
  <2>1. /\ t \in Seq(T) /\ 1 \in DOMAIN s /\ Head(s) = s[1] /\ s[1] \in T
        /\ \A k \in DOMAIN t : k \in Nat \ {0} /\ k + 1 \in DOMAIN s /\ t[k] = s[k + 1]
    BY <1>2, TakenFirst
  <2> QED
    BY <2>1
<1>3. PICK T, s, t : T = [op : Ops, val : Int] /\ s = inbox[c] /\ t = Tail(inbox[c])
    BY Zenon
<1>4. /\ t \in Seq(T) /\ 1 \in DOMAIN s /\ Head(s) = s[1] /\ s[1] \in T
      /\ \A k \in DOMAIN t : \E l \in DOMAIN s : t[k] = s[l]
  <2>1. s \in Seq(T) /\ s # <<>> /\ t = Tail(s)
    BY <1>1, <1>3
  <2> QED
    BY <1>2, <2>1
<1>5. s[1].val \in Int
    BY <1>3, <1>4
<1> QED
    BY <1>3, <1>4, <1>5, Zenon

\* A library call returns with the answer to it.
LEMMA ReceiveStep ==
    ASSUME IInv, NEW c \in Clients, Receive(c)
    PROVE  IInv'
<1>1. /\ cpc[c] = "reply" /\ inbox[c] # <<>> /\ UNCHANGED <<up, server_pipe, mainV, sessionV, workerV, fs>>
      /\ UNCHANGED <<mounts, calls>>
    BY DEF Receive
<1>2. PICK val \in Int : val = Head(inbox[c]).val
    BY <1>1, AnswerRead
<1>3. Return(c, val)
    BY <1>2 DEF Receive
<1>4. /\ inbox'[c] = Tail(inbox[c]) /\ \A d \in Clients : d # c => inbox'[d] = inbox[d]
    BY DEF IInv, TypeOK, Receive
<1>5. ~EndsServer(c) => Answer(c, call[c], val) /\ inbox'[c] = <<>>
  <2>1. SUFFICES ASSUME ~EndsServer(c)
        PROVE  Answer(c, call[c], val) /\ inbox'[c] = <<>>
    OBVIOUS
  <2>2. PICK v \in Int : Answer(c, call[c], v)
    BY <1>1, <2>1 DEF IInv, SessionInv, AnswerInv
  <2> QED
    BY <1>2, <1>4, <2>2, InboxFacts DEF IInv
<1>6. /\ call[c] = "MOUNT" => val \in Slots \cup {-1}
      /\ call[c] = "OPEN" => val \in Handle \cup {-1}
  <2>1. AnswerInv
    BY DEF IInv, SessionInv
  <2>2. CASE EndsServer(c)
    BY <1>1, <1>2, <2>1, <2>2, AnswerRead, SlotFacts DEF AnswerInv
  <2>3. CASE ~EndsServer(c)
    <3>1. inbox[c][1].op = call[c] /\ inbox[c][1].val = val /\ 1 \in DOMAIN inbox[c]
      BY <1>5, <2>3, InboxFacts DEF IInv
    <3> QED
      BY <2>1, <3>1 DEF AnswerInv
  <2> QED
    BY <2>2, <2>3
<1>7. /\ cpc' \in [Clients -> {"out", "mkfifo", "mkfifo_again", "opening", "reply", "in", "rejected", "dead"}]
      /\ call' \in [Clients -> Ops \cup {"none"}] /\ session_id' \in [Clients -> Slots \cup {-1}]
      /\ handles' \in [Clients -> SUBSET Handle] /\ fd' \in [Clients -> Handle \cup {-1, OutsideTable}]
      /\ cpc'[c] = IF call[c] = "MOUNT" /\ val < 0 THEN "rejected" ELSE "in"
      /\ call'[c] = "none"
      /\ session_id'[c] = IF call[c] = "MOUNT" THEN val ELSE session_id[c]
      /\ handles'[c] = IF call[c] = "OPEN" /\ val >= 0 THEN handles[c] \cup {val} ELSE handles[c]
      /\ \A d \in Clients : d # c => /\ cpc'[d] = cpc[d] /\ call'[d] = call[d]
                                     /\ session_id'[d] = session_id[d] /\ handles'[d] = handles[d]
    BY <1>3, <1>6, ReturnFacts DEF IInv
<1>8. \A d \in Clients : d # c =>
          /\ Pipe(d)' = Pipe(d) /\ (HasPipe(d)' <=> HasPipe(d)) /\ (Mounted(d)' <=> Mounted(d))
          /\ Awaits(d)' <=> Awaits(d)
          /\ \A op, v : Answer(d, op, v)' <=> Answer(d, op, v)
          /\ \A op : InCall(d, op)' <=> InCall(d, op)
    BY <1>1, <1>4, <1>7 DEF Pipe, HasPipe, Mounted, Awaits, Answer, InCall
<1>9. /\ Pipe(c)' = Pipe(c) /\ HasPipe(c) /\ HasPipe(c)' /\ ~Awaits(c) /\ (\A op : ~InCall(c, op))
      /\ Mounted(c) <=> call[c] # "MOUNT"
      /\ Mounted(c)' <=> ~(call[c] = "MOUNT" /\ val < 0)
    BY <1>1, <1>7 DEF Pipe, HasPipe, Mounted, Awaits, InCall
<1>10. /\ main' = main /\ name' = name /\ slot' = slot /\ fcli' = fcli /\ fhandler' = fhandler
       /\ request' = request /\ worker' = worker /\ free_sessions' = free_sessions
       /\ open' = open /\ down' = down
    BY <1>1 DEF mainV, sessionV, workerV, fs
<1>11. \A d \in Clients : EndsServer(d)' <=> EndsServer(d)
    BY <1>1, <1>10 DEF EndsServer
<1>12. TypeOK'
  <2>1. inbox' \in [Clients -> Seq([op : Ops, val : Int])]
    <3>1. PICK T : T = Seq([op : Ops, val : Int])
      OBVIOUS
    <3>2. inbox \in [Clients -> T] /\ Tail(inbox[c]) \in T
      BY <1>1, <3>1, AnswerRead DEF IInv, TypeOK
    <3>3. inbox' \in [Clients -> T]
      BY <3>2 DEF Receive
    <3> QED
      BY <3>1, <3>3
  <2> QED
    BY <1>1, <1>7, <2>1 DEF IInv, TypeOK, mainV, sessionV, workerV, fs
<1>13. ShutdownInv' /\ WorkerInv' /\ SessionsCounted' /\ MessageInv' /\ SlotInv' /\ RequestInv'
    BY <1>1, SameServer, SamePipe DEF IInv, SessionInv
<1>14. PipeInv'
  <2>1. cpc'[c] \notin {"mkfifo", "mkfifo_again", "opening"}
    BY <1>7
  <2>2. \A p \in Pipes : Made(p) => Made(p)'
    BY <1>1, <1>7, <2>1, PipeFacts DEF Made, IInv
  <2> QED
    BY <1>10, <2>2, RequestType DEF IInv, TypeOK, SessionInv, PipeInv
<1>15. ClientInv'
  <2>1. cpc'[c] \in {"in", "rejected"} /\ (cpc'[c] = "rejected" => session_id'[c] = -1)
    BY <1>6, <1>7, SlotFacts
  <2> QED
    BY <1>1, <1>7, <2>1 DEF IInv, SessionInv, ClientInv
<1>16. AnswerInv'
  <2>1. AnswerInv
    BY DEF IInv, SessionInv
  <2>2. \A k \in DOMAIN inbox'[c] : \E l \in DOMAIN inbox[c] : inbox'[c][k] = inbox[c][l]
    BY <1>1, <1>4, AnswerRead
  <2>3. ASSUME NEW d \in Clients
        PROVE  /\ inbox'[d] # <<>> /\ ~EndsServer(d)' =>
                     cpc'[d] = "reply" /\ \E v \in Int : inbox'[d] = <<[op |-> call'[d], val |-> v]>>
               /\ EndsServer(d)' => \A k \in DOMAIN inbox'[d] : inbox'[d][k].val \in {0, -1}
               /\ \A k \in DOMAIN inbox'[d] :
                     /\ inbox'[d][k].op = "MOUNT" => inbox'[d][k].val \in Slots \cup {-1}
                     /\ inbox'[d][k].op = "OPEN" => inbox'[d][k].val \in Handle \cup {-1}
    <3>1. CASE d = c
      BY <1>5, <1>11, <2>1, <2>2, <3>1 DEF AnswerInv
    <3>2. CASE d # c
      BY <1>4, <1>7, <1>11, <2>1, <2>3, <3>2 DEF AnswerInv, Answer
    <3> QED
      BY <3>1, <3>2
  <2> QED
    BY <2>3 DEF AnswerInv, Answer
<1>17. up => UnmountInv' /\ MountInv' /\ GrantInv' /\ OwnerInv' /\ ServedInv'
  <2>1. SUFFICES ASSUME up
        PROVE  UnmountInv' /\ MountInv' /\ GrantInv' /\ OwnerInv' /\ ServedInv'
    OBVIOUS
  <2>2. call[c] = "MOUNT" => Answer(c, "MOUNT", val) /\ inbox'[c] = <<>> /\ val \in Slots \cup {-1}
    BY <1>5, <1>6, <1>9, <2>1, EndsOwnServer
  <2>3. call[c] = "MOUNT" /\ val \in Slots =>
            free_sessions[val] = "TAKEN_POS" /\ fhandler[val] = Pipe(c) /\ ~Busy(val) /\ ~Pending(val)
    BY <2>1, <2>2 DEF IInv, SessionInv, GrantInv
  <2>4. ASSUME call[c] = "MOUNT", NEW j \in Slots, fhandler[j] = Pipe(c)
        PROVE  j = val
    <3>1. worker[j] # "mount_answer"
      <4>1. worker[j] = "mount_answer" => MountIn(j)
        BY DEF IInv, WorkerInv, MountIn, Busy, Ending
      <4> QED
        BY <1>9, <2>1, <2>4, <4>1 DEF IInv, SessionInv, MountInv
    <3>2. Answer(c, "MOUNT", j)
      BY <1>9, <2>1, <2>4, <3>1 DEF IInv, SessionInv, OwnerInv
    <3> QED
      BY <2>2, <2>4, <3>2, AnswerUnique DEF IInv
  <2>5. call[c] # "MOUNT" => /\ session_id[c] \in Slots /\ Served(c, session_id[c])
                             /\ \A j \in Slots : fhandler[j] = Pipe(c) => j = session_id[c]
    BY <1>9, <2>1 DEF IInv, SessionInv, ServedInv, OwnerInv
  <2>6. \A j \in Slots : NoClientOf(j) /\ (call[c] = "MOUNT" => j # val) => NoClientOf(j)'
    BY <1>7, <1>8, <1>9 DEF NoClientOf
  <2>7. UnmountInv'
    <3>1. ASSUME NEW j \in Slots, j \in Leaving
          PROVE  ~Pending(j) /\ NoClientOf(j)'
      <4>1. Busy(j)
        BY <3>1 DEF Leaving
      <4> QED
        BY <2>1, <2>3, <2>6, <3>1, <4>1 DEF IInv, SessionInv, UnmountInv
    <3>2. ASSUME NEW j \in Slots, NEW k \in DOMAIN server_pipe, For(k, j), server_pipe[k].op = "UNMOUNT"
          PROVE  NoClientOf(j)' /\ \A l \in DOMAIN server_pipe : For(l, j) => l <= k
      <4>1. Pending(j)
        BY <3>2 DEF Pending
      <4>2. NoClientOf(j) /\ \A l \in DOMAIN server_pipe : For(l, j) => l <= k
        BY <2>1, <3>2 DEF IInv, SessionInv, UnmountInv
      <4> QED
        BY <2>3, <2>6, <4>1, <4>2
    <3> QED
      BY <1>1, <3>1, <3>2, SameServer, SamePipe DEF UnmountInv
  <2>8. MountInv'
    BY <1>1, <1>8, <1>9, <1>10, <2>1, SameServer DEF IInv, SessionInv, MountInv
  <2>9. GrantInv'
    BY <1>1, <1>7, <1>8, <1>10, <2>1, SameServer, SamePipe DEF IInv, SessionInv, GrantInv
  <2>10. OwnerInv'
    <3>1. SUFFICES ASSUME NEW d \in Clients, NEW j \in Slots, fhandler[j] = Pipe(d), HasPipe(d)'
          PROVE  \/ Mounted(d)' /\ session_id'[d] = j
                 \/ cpc'[d] = "reply" /\ call'[d] = "MOUNT" /\ (worker[j] = "mount_answer" \/ Answer(d, "MOUNT", j)')
      BY <1>8, <1>9, <1>10 DEF OwnerInv
    <3>2. CASE d # c
      BY <1>7, <1>8, <2>1, <3>1, <3>2 DEF IInv, SessionInv, OwnerInv
    <3>3. CASE d = c /\ call[c] = "MOUNT"
      <4>1. j = val /\ ~(val < 0)
        BY <2>4, <3>1, <3>3, SlotFacts
      <4> QED
        BY <1>7, <1>9, <3>3, <4>1
    <3>4. CASE d = c /\ call[c] # "MOUNT"
      BY <1>7, <1>9, <2>5, <3>1, <3>4
    <3> QED
      BY <3>2, <3>3, <3>4
  <2>11. ServedInv'
    <3>1. SUFFICES ASSUME NEW d \in Clients, Mounted(d)'
          PROVE  session_id'[d] \in Slots /\ Served(d, session_id[d])'
      BY DEF ServedInv
    <3>2. CASE d # c
      <4>1. PICK i : i = session_id[d]
        OBVIOUS
      <4>2. i \in Slots /\ Served(d, i) /\ session_id'[d] = i
        BY <1>7, <1>8, <2>1, <3>1, <3>2, <4>1 DEF IInv, SessionInv, ServedInv
      <4>3. Served(d, i)'
        BY <1>1, <1>8, <1>10, <3>2, <4>2, SameServer, SamePipe DEF Served
      <4> QED
        BY <4>2, <4>3
    <3>3. CASE d = c
      <4>1. PICK i : i = session_id'[c]
        OBVIOUS
      <4>2. /\ i \in Slots /\ free_sessions[i] = "TAKEN_POS" /\ fhandler[i] = Pipe(c)
            /\ ~Ending(i) => ~Busy(i) /\ ~Pending(i)
        <5>1. CASE call[c] = "MOUNT"
          <6>1. val \in Slots
            BY <1>9, <2>2, <3>1, <3>3, <5>1
          <6> QED
            BY <1>7, <2>3, <4>1, <5>1, <6>1
        <5>2. CASE call[c] # "MOUNT"
          BY <1>7, <1>9, <2>5, <4>1, <5>2 DEF Served, Pending
        <5> QED
          BY <5>1, <5>2
      <4>3. Served(c, i)'
        BY <1>1, <1>9, <1>10, <4>2, SameServer, SamePipe DEF Served, Pending
      <4> QED
        BY <3>3, <4>1, <4>2, <4>3
    <3> QED
      BY <3>2, <3>3
  <2> QED
    BY <2>7, <2>8, <2>9, <2>10, <2>11
<1>18. UnmountInv' /\ MountInv' /\ GrantInv' /\ OwnerInv' /\ ServedInv'
    BY <1>1, <1>17 DEF UnmountInv, MountInv, GrantInv, OwnerInv, ServedInv
<1>19. HandleInv'
  <2>1. SUFFICES ASSUME up, ~down
        PROVE  HandleInv'
    BY <1>1, <1>10 DEF HandleInv
  <2>2. ~EndsServer(c)
    BY <2>1 DEF IInv, ShutdownInv, Ending, EndsServer
  <2>3. \A op, v : ~Answer(c, op, v)'
    <3>1. inbox'[c] = <<>>
      BY <1>5, <2>2
    <3> QED
      BY <3>1 DEF Answer
  <2>4. \A d \in Clients : \A x : Holds(d, x)' => Holds(d, x)
    BY <1>5, <1>7, <1>8, <2>2, <2>3 DEF Holds
  <2> QED
    BY <1>1, <1>10, <2>1, <2>4, SamePipe DEF IInv, HandleInv
<1>20. SessionInv'
    BY <1>13, <1>14, <1>15, <1>16, <1>18 DEF SessionInv
<1> QED
    BY <1>12, <1>13, <1>19, <1>20 DEF IInv

(***************************************************************************)
(* The theorems.                                                           *)
(***************************************************************************)
\* server_init: every slot is free, and nothing is under way.
LEMMA InitInvariant ==
    ASSUME Init
    PROVE  IInv
<1> USE DEF Init
<1>1. /\ \A i \in Slots : ~Busy(i) /\ ~Ending(i) /\ ~MountIn(i) /\ ~Pending(i) /\ fhandler[i] = NoPipe
      /\ Leaving = {} /\ DOMAIN server_pipe = {}
  <2>1. DOMAIN server_pipe = {}
    OBVIOUS
  <2> QED
    BY <2>1 DEF Busy, Ending, MountIn, Pending, Leaving
<1>2. \A c \in Clients : /\ cpc[c] = "out" /\ ~Mounted(c) /\ ~HasPipe(c) /\ inbox[c] = <<>> /\ DOMAIN inbox[c] = {}
                         /\ \A op, val : ~Answer(c, op, val)
  <2>1. \A c \in Clients : inbox[c] = <<>> /\ cpc[c] = "out"
    OBVIOUS
  <2> QED
    BY <2>1 DEF Mounted, HasPipe, Answer
<1>3. open = {} /\ shutting = FALSE /\ down = FALSE
    BY DEF FileSystem!Init
<1>4. TypeOK
  <2>1. /\ up \in BOOLEAN /\ main \in {"read", "slait_open", "find_free_pos", "mount_post", "mount_count", "unmount_count"}
        /\ name \in Clients \cup {NoClient} /\ fcli \in Pipes /\ slot \in Slots \cup {-1} /\ global_mutex \in {"none", "main"}
        /\ open \subseteq Handle /\ shutting \in BOOLEAN /\ down \in BOOLEAN
    BY <1>3 DEF Pipes
  <2>2. server_pipe \in Seq(Requests) /\ inbox \in [Clients -> Seq([op : Ops, val : Int])]
    <3>1. <<>> \in Seq(Requests) /\ <<>> \in Seq([op : Ops, val : Int])
      OBVIOUS
    <3> QED
      BY <3>1
  <2>3. /\ free_sessions \in [Slots -> {"FREE_POS", "TAKEN_POS"}] /\ fhandler \in [Slots -> Pipes]
        /\ wake_up \in [Slots -> BOOLEAN] /\ ret \in [Slots -> Handle \cup {-1, 0, 1}]
    BY DEF Pipes
  <2>4. request \in [Slots -> [op : Ops \cup {"none"}, fcli : Pipes, fhandler : Handle \cup {-1, OutsideTable}]]
    BY DEF Pipes
  <2>5. worker \in [Slots -> Ops \cup {"wait", "switch", "answer", "mount_answer", "free_pos", "destroying",
                                       "shutdown_answer", "shutdown_again", "shutdown_exit", "exit"}]
    OBVIOUS
  <2>6. /\ cpc \in [Clients -> {"out", "mkfifo", "mkfifo_again", "opening", "reply", "in", "rejected", "dead"}]
        /\ call \in [Clients -> Ops \cup {"none"}] /\ session_id \in [Clients -> Slots \cup {-1}]
        /\ handles \in [Clients -> SUBSET Handle] /\ fd \in [Clients -> Handle \cup {-1, OutsideTable}]
        /\ mounts \in [Clients -> 0 .. MaxMounts] /\ calls \in [Clients -> 0 .. MaxCalls]
    OBVIOUS
  <2>7. open_sessions \in 0 .. S
    OBVIOUS
  <2> QED
    BY <2>1, <2>2, <2>3, <2>4, <2>5, <2>6, <2>7 DEF TypeOK
<1>5. SessionsCounted
  <2>1. FreeSlots = Slots
    BY DEF FreeSlots
  <2>2. Slots \ FreeSlots = {} /\ Leaving = {}
    BY <1>1, <2>1
  <2>3. Cardinality({}) = 0
    BY FS_EmptySet
  <2>4. open_sessions = 0 /\ main = "read"
    OBVIOUS
  <2>5. Cardinality(Slots \ FreeSlots) = 0 /\ Cardinality(Leaving) = 0
    BY <2>2, <2>3
  <2> QED
    BY <2>4, <2>5, SMT DEF SessionsCounted
<1>6. ShutdownInv /\ WorkerInv
    BY <1>1, <1>3 DEF ShutdownInv, WorkerInv, Busy, Ops
<1>7. MessageInv /\ PipeInv /\ ClientInv /\ SlotInv /\ RequestInv /\ UnmountInv
    BY <1>1, <1>2 DEF MessageInv, PipeInv, Made, ClientInv, SlotInv, Unused, RequestInv, UnmountInv
<1>8. MountInv /\ GrantInv /\ OwnerInv /\ ServedInv /\ AnswerInv
    BY <1>1, <1>2 DEF MountInv, GrantInv, OwnerInv, ServedInv, AnswerInv
<1>9. HandleInv
    BY <1>1, <1>2 DEF HandleInv, Holds, Carries, Busy
<1>10. SessionInv
    BY <1>5, <1>7, <1>8 DEF SessionInv
<1> QED
    BY <1>4, <1>6, <1>9, <1>10 DEF IInv

\* Nothing happens.
LEMMA StutterStep ==
    ASSUME IInv, UNCHANGED vars
    PROVE  IInv'
<1>1. UNCHANGED <<up, server_pipe, mainV, sessionV, workerV, fs, clientV, inbox>>
    BY DEF vars
<1>2. TypeOK'
    BY <1>1 DEF IInv, TypeOK, mainV, sessionV, workerV, fs, clientV
<1>3. ShutdownInv' /\ WorkerInv'
    BY <1>1, SameServer DEF IInv
<1>4. SessionInv'
    BY <1>1, QuietStep, SameServer DEF workerV
<1>5. HandleInv'
    BY <1>1, QuietHandles, SamePipe DEF workerV, fs
<1> QED
    BY <1>2, <1>3, <1>4, <1>5 DEF IInv

\* Every step of the main thread.
LEMMA MainInvariant ==
    ASSUME IInv, MainStep
    PROVE  IInv'
<1>1. CASE HandleMount
    BY <1>1, HandleMountStep
<1>2. CASE MountOpen
    BY <1>2, MountOpenStep
<1>3. CASE MountOpenStale
    BY <1>3, MountOpenStaleStep
<1>4. CASE FindFreePos
    BY <1>4, FindFreePosStep
<1>5. CASE FindFreePosFails
    BY <1>5, FindFreePosFailsStep
<1>6. CASE MountPost
    BY <1>6, MountPostStep
<1>7. CASE MountCount
    BY <1>7, MountCountStep
<1>8. CASE HandleUnmount
    BY <1>8, HandleUnmountStep
<1>9. CASE UnmountCount
    BY <1>9, UnmountCountStep
<1>10. CASE HandleOpen
    BY <1>10, HandleOpenStep
<1>11. ASSUME NEW op \in {"CLOSE", "WRITE", "READ"}, HandleFileOp(op)
       PROVE  IInv'
    BY <1>11, HandleFileOpStep
<1>12. CASE HandleShutdown
    BY <1>12, HandleShutdownStep
<1> QED
    BY <1>1, <1>2, <1>3, <1>4, <1>5, <1>6, <1>7, <1>8, <1>9, <1>10, <1>11, <1>12 DEF MainStep

\* Every step of a worker.
LEMMA WorkerInvariant ==
    ASSUME IInv, NEW i \in Slots, WorkerStep(i)
    PROVE  IInv'
<1>1. CASE Take(i)
    BY <1>1, TakeStep
<1>2. CASE Switch(i)
    BY <1>2, SwitchStep
<1>3. CASE ThreadReply(i)
    BY <1>3, ThreadReplyStep
<1>4. CASE ThreadMount(i)
    BY <1>4, ThreadMountStep
<1>5. CASE ThreadMountReply(i)
    BY <1>5, ThreadMountReplyStep
<1>6. CASE ThreadUnmount(i)
    BY <1>6, ThreadUnmountStep
<1>7. CASE ThreadFreePos(i)
    BY <1>7, ThreadFreePosStep
<1>8. CASE ThreadOpen(i)
    BY <1>8, ThreadOpenStep
<1>9. CASE ThreadOpenFails(i)
    BY <1>9, ThreadOpenFailsStep
<1>10. CASE ThreadClose(i)
    BY <1>10, ThreadCloseStep
<1>11. CASE ThreadAccess(i)
    BY <1>11, ThreadAccessStep
<1>12. CASE ThreadReadFails(i)
    BY <1>12, ThreadReadFailsStep
<1>13. CASE ThreadWriteFails(i)
    BY <1>13, ThreadWriteFailsStep
<1>14. CASE ThreadShutdown(i)
    BY <1>14, ThreadShutdownStep
<1>15. CASE ThreadDestroyed(i)
    BY <1>15, ThreadDestroyedStep
<1>16. CASE ThreadShutdownReply(i)
    BY <1>16, ThreadShutdownReplyStep
<1>17. CASE ThreadExit(i)
    BY <1>17, ThreadExitStep
<1> QED
    BY <1>1, <1>2, <1>3, <1>4, <1>5, <1>6, <1>7, <1>8, <1>9, <1>10, <1>11, <1>12, <1>13, <1>14, <1>15, <1>16,
       <1>17 DEF WorkerStep

\* Every step of a client.
LEMMA ClientInvariant ==
    ASSUME IInv, NEW c \in Clients, NewCall(c) \/ ClientStep(c)
    PROVE  IInv'
<1>1. CASE Mount(c)
    BY <1>1, MountStep
<1>2. CASE OpenFile(c) \/ AccessFile(c) \/ Shutdown(c)
    BY <1>2, OtherCallStep
<1>3. CASE CloseFile(c)
    BY <1>3, CloseFileStep
<1>4. CASE Unmount(c)
    BY <1>4, UnmountStep
<1>5. CASE BrokenPipe(c)
    BY <1>5, BrokenPipeStep
<1>6. CASE MakeFifo(c)
    BY <1>6, MakeFifoStep
<1>7. CASE Receive(c)
    BY <1>7, ReceiveStep
<1>8. CASE EndOfFile(c)
    BY <1>8, EndOfFileStep
<1> QED
    BY <1>1, <1>2, <1>3, <1>4, <1>5, <1>6, <1>7, <1>8 DEF NewCall, ClientStep

\* The invariant above, however many clients, sessions, handles, mounts and calls there are.
THEOREM Invariance == Spec => []IInv
<1>1. Init => IInv
    BY InitInvariant
<1>2. IInv /\ [Next]_vars => IInv'
  <2>1. ASSUME IInv, Next
        PROVE  IInv'
    BY <2>1, MainInvariant, WorkerInvariant, ClientInvariant DEF Next
  <2> QED
    BY <2>1, StutterStep
<1> QED
    BY <1>1, <1>2, PTL DEF Spec

\* open_sessions stays within the limit, every message and every answer has its fields in
\* range, and so has everything else.
THEOREM TypeCorrect == Spec => []TypeOK
<1>1. IInv => TypeOK
    BY DEF IInv
<1> QED
    BY <1>1, Invariance, PTL

\* Two mounted clients have different sessions, each taken and answering on its client's
\* pipe: the slot of a session being unmounted is not given away too early.
THEOREM SessionsApart == Spec => []SessionsKeptApart
<1>1. ASSUME IInv, up, NEW c \in Clients, Mounted(c)
      PROVE  /\ free_sessions[session_id[c]] = "TAKEN_POS" /\ fhandler[session_id[c]] = Pipe(c)
             /\ \A d \in Clients \ {c} : Mounted(d) => session_id[c] # session_id[d]
  <2>1. \A d \in Clients : Mounted(d) =>
            free_sessions[session_id[d]] = "TAKEN_POS" /\ fhandler[session_id[d]] = Pipe(d)
    BY <1>1 DEF IInv, SessionInv, ServedInv, Served
  <2>2. \A d \in Clients : Pipe(c) = Pipe(d) => c = d
    BY <1>1, PipeFacts DEF IInv
  <2> QED
    BY <1>1, <2>1, <2>2
<1>2. IInv => SessionsKeptApart
    BY <1>1 DEF SessionsKeptApart, Pipe
<1> QED
    BY <1>2, Invariance, PTL

\* open_sessions is the number of taken slots, up to the mount or unmount main is in the
\* middle of and the unmounts whose workers are behind.
THEOREM Counted == Spec => []SessionsCounted
<1>1. IInv => SessionsCounted
    BY DEF IInv, SessionInv
<1> QED
    BY <1>1, Invariance, PTL

\* A client finds on its pipe one answer, when it waits for one, to the call it is in.
THEOREM Answers == Spec => []AnswersMatchCalls
<1>1. ASSUME IInv, NEW c \in Clients, inbox[c] # <<>>, ~EndsServer(c)
      PROVE  cpc[c] = "reply" /\ Len(inbox[c]) = 1 /\ Head(inbox[c]).op = call[c]
  <2>1. cpc[c] = "reply"
    BY <1>1 DEF IInv, SessionInv, AnswerInv
  <2>2. PICK val \in Int : Answer(c, call[c], val)
    BY <1>1 DEF IInv, SessionInv, AnswerInv
  <2> QED
    BY <1>1, <2>1, <2>2, InboxFacts DEF IInv
<1>2. IInv => AnswersMatchCalls
    BY <1>1 DEF AnswersMatchCalls
<1> QED
    BY <1>2, Invariance, PTL

\* The handles a client holds are open, no other client holds them, and what a worker is
\* about to close is open.
THEOREM Handles == Spec => []HandlesStayOpen
<1>1. ASSUME IInv, up, ~down
      PROVE  /\ \A c \in Clients : handles[c] \subseteq open
             /\ \A c, d \in Clients : c # d => handles[c] \cap handles[d] = {}
             /\ \A i \in Slots : worker[i] = "CLOSE" => request[i].fhandler \in open
  <2>1. \A c \in Clients : \A h \in handles[c] : h \in Handle /\ Holds(c, h)
    BY <1>1 DEF IInv, TypeOK, Holds
  <2>2. (\A c \in Clients : handles[c] \subseteq open)
        /\ \A c, d \in Clients : c # d => handles[c] \cap handles[d] = {}
    BY <1>1, <2>1 DEF IInv, HandleInv
  <2>3. ASSUME NEW i \in Slots, worker[i] = "CLOSE"
        PROVE  request[i].fhandler \in open
    <3>1. ~Ending(i)
      BY <2>3 DEF Ending
    <3>2. request[i].op = "CLOSE"
      BY <1>1, <2>3, <3>1 DEF IInv, WorkerInv, Ops
    <3>3. Carries(i, request[i].fhandler) /\ request[i].fhandler \in Handle \cup {-1, OutsideTable}
      BY <1>1, <2>3, <3>2, RequestType DEF Carries, IInv, TypeOK
    <3> QED
      BY <1>1, <3>3 DEF IInv, HandleInv
  <2> QED
    BY <2>2, <2>3
<1>2. IInv => HandlesStayOpen
    BY <1>1 DEF HandlesStayOpen
<1> QED
    BY <1>2, Invariance, PTL

\* A server that did not exit over a failed write leaves no file open.
THEOREM Exit == Spec => []ExitWithNothingOpen
<1>1. IInv => ExitWithNothingOpen
    BY DEF IInv, ShutdownInv, ExitWithNothingOpen
<1> QED
    BY <1>1, Invariance, PTL

\* main hands a message to a worker that is done with the last one.
LEMMA PostsToIdle ==
    ASSUME IInv, ~down, NEW op, Read(op), NEW i \in Slots, i = Head(server_pipe).session_id
    PROVE  ~Busy(i)
<1>1. up /\ 1 \in DOMAIN server_pipe /\ Head(server_pipe) = server_pipe[1]
    BY ReadFacts DEF IInv, Read
<1>2. For(1, i) /\ ~Ending(i)
    BY <1>1 DEF For, IInv, ShutdownInv
<1> QED
    BY <1>1, <1>2 DEF IInv, SessionInv, RequestInv

\* Until the file system is down, main never writes to a request its worker has not
\* finished with, although the worker reads it after giving up slave_mutex.
THEOREM Stable == Spec => RequestsStable
<1>1. ASSUME IInv, ~down, NEW i \in Slots, Busy(i), MainStep
      PROVE  request'[i] = request[i]
  <2>1. \A j, r : Post(j, r) /\ j # i => request'[i] = request[i]
    BY DEF Post, IInv, TypeOK
  <2>2. CASE HandleMount \/ MountOpen \/ MountOpenStale \/ FindFreePos \/ FindFreePosFails
    BY <2>2 DEF HandleMount, MountOpen, MountOpenStale, MountOpened, FindFreePos, FindFreePosFails, workerV
  <2>3. CASE MountCount \/ UnmountCount
    BY <2>3 DEF MountCount, UnmountCount, workerV
  <2>4. CASE MountPost
    <3>1. slot # i
      BY <1>1, <2>4 DEF MountPost, IInv, SessionInv, SlotInv, Unused
    <3> QED
      BY <2>1, <2>4, <3>1 DEF MountPost
  <2>5. CASE HandleUnmount
    <3>1. Read("UNMOUNT")
      BY <2>5 DEF HandleUnmount
    <3>2. Head(server_pipe).session_id # i
      BY <1>1, <3>1, PostsToIdle
    <3> QED
      BY <2>1, <2>5, <3>2 DEF HandleUnmount, workerV
  <2>6. CASE HandleOpen
    <3>1. Head(server_pipe).session_id # i
      BY <1>1, <2>6, PostsToIdle DEF HandleOpen
    <3> QED
      BY <2>1, <2>6, <3>1 DEF HandleOpen
  <2>7. ASSUME NEW op \in {"CLOSE", "WRITE", "READ"}, HandleFileOp(op)
        PROVE  request'[i] = request[i]
    <3>1. Head(server_pipe).session_id # i
      BY <1>1, <2>7, PostsToIdle DEF HandleFileOp
    <3> QED
      BY <2>1, <2>7, <3>1 DEF HandleFileOp, workerV
  <2>8. CASE HandleShutdown
    <3>1. Head(server_pipe).session_id # i
      BY <1>1, <2>8, PostsToIdle DEF HandleShutdown
    <3> QED
      BY <2>1, <2>8, <3>1 DEF HandleShutdown
  <2> QED
    BY <1>1, <2>2, <2>3, <2>4, <2>5, <2>6, <2>7, <2>8 DEF MainStep
<1>2. ASSUME NEW i \in Slots, WorkerStep(i)
      PROVE  request' = request
    BY <1>2 DEF WorkerStep, Take, Switch, ThreadReply, ThreadMount, ThreadMountReply, ThreadUnmount, ThreadFreePos,
                ThreadOpen, ThreadOpenFails, ThreadClose, ThreadAccess, ThreadReadFails, ThreadWriteFails,
                ThreadShutdown, ThreadDestroyed, ThreadShutdownReply, ThreadExit
<1>3. ASSUME NEW c \in Clients, NewCall(c) \/ ClientStep(c)
      PROVE  request' = request
    BY <1>3 DEF NewCall, ClientStep, Mount, OpenFile, CloseFile, AccessFile, Shutdown, Request, Unmount, BrokenPipe,
                MakeFifo, Receive, EndOfFile, workerV
<1>4. IInv /\ [Next]_vars => [\A i \in Slots : Busy(i) /\ ~down => request'[i] = request[i]]_vars
    BY <1>1, <1>2, <1>3 DEF Next
<1> QED
    BY <1>4, Invariance, PTL DEF Spec, RequestsStable
=============================================================================
