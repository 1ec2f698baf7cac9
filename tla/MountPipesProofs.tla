-------------------------- MODULE MountPipesProofs --------------------------
(***************************************************************************)
(* A mounted client never meets a closed server pipe, no mount request is  *)
(* lost when main closes and reopens it, and the sessions the server keeps *)
(* are those of its clients: for every number of clients, every session    *)
(* limit and any number of crashes.                                        *)
(***************************************************************************)
EXTENDS MountPipes, PipeLemmas

USE SessionsAssumption, ClientsAssumption, BoundsAssumption
USE DEF slotV

(***************************************************************************)
(* The inductive invariant.                                                *)
(***************************************************************************)
\* The server has gone exactly when main has, and main works on a request of some client.
MainConsistent ==
    /\ up <=> main # "gone"
    /\ main = "slait_open" => name \in Clients
    /\ main = "answer" => fcli \in Pipes
    /\ main = "gone" => sessions = {}

\* Only tfs_mount names a client, and only tfs_unmount a session.
MessagesConsistent ==
    \A k \in DOMAIN server_pipe :
        IF server_pipe[k].op = "MOUNT"
        THEN server_pipe[k].name \in Clients /\ server_pipe[k].sid = NoPipe
        ELSE server_pipe[k].name = NoClient

\* A client has the server's pipe open from the open of tfs_mount to tfs_unmount, and the
\* newest of its own pipes from mkfifo on.
PipesHeld ==
    \A c \in Clients :
        /\ fserv[c] <= mounts[c] /\ path[c] <= mounts[c]
        /\ cpc[c] \notin {"out", "dead"} => fserv[c] > 0
        /\ \A m \in reading[c] : m <= mounts[c]
        /\ mounts[c] \in reading[c] => cpc[c] \in {"open", "reply", "in", "rejected"}

\* Main is about to open the client's pipe.
Waiting(c) == main = "slait_open" /\ name = c

\* The message at k is the client's mount request.
SentBy(k, c) == server_pipe[k].op = "MOUNT" /\ server_pipe[k].name = c

\* A client has at most one mount request under way, and only until its pipe is opened.
RequestsSingle ==
    \A c \in Clients :
        /\ Waiting(c) => cpc[c] \in {"mkfifo", "open", "dead"}
        /\ \A k \in DOMAIN server_pipe : SentBy(k, c) =>
              /\ cpc[c] \in {"mkfifo", "open", "dead"} /\ ~Waiting(c)
              /\ \A l \in DOMAIN server_pipe : SentBy(l, c) => k = l

\* Until its pipe has been opened a client has a request under way, unless that was spent
\* on the pipe of a rejected attempt.
RequestUnderWay ==
    \A c \in Clients : up /\ cpc[c] \in {"mkfifo", "open"} /\ Fresh(c) =>
        Waiting(c) \/ \E k \in DOMAIN server_pipe : SentBy(k, c)

\* What a client knows of its session is what the server has told it.
AnswersConsistent ==
    \A c \in Clients : up =>
        /\ cpc[c] \in {"opening", "write", "mkfifo", "open"} => reply[c] = "none"
        /\ cpc[c] = "reply" /\ reply[c] = "yes" => <<c, mounts[c]>> \in sessions \ leaving
        /\ cpc[c] = "in" => sid[c] = <<c, mounts[c]>>
        /\ cpc[c] = "rejected" => sid[c] = NoPipe

\* The pipe main is about to answer on is one a client waits at, or an old one.
AnswerExpected ==
    main = "answer" =>
        LET c == fcli[1] IN
            /\ fcli[2] <= mounts[c] /\ fcli \notin sessions
            /\ \/ fcli[2] = mounts[c] /\ cpc[c] = "reply" /\ reply[c] = "none"
               \/ cpc[c] = "dead"
               \/ fcli[2] \in reading[c] \ {mounts[c]}

\* An unmount is under way only for a session its client has left, and only while main
\* reads, so that it is not lost at a close.
UnmountsConsistent ==
    \A k \in DOMAIN server_pipe :
        /\ server_pipe[k].op = "UNMOUNT" => main \notin {"eof", "closed", "opening"}
        /\ server_pipe[k].sid # NoPipe =>
              LET p == server_pipe[k].sid IN
                  p[2] <= mounts[p[1]] /\ (p[2] = mounts[p[1]] => cpc[p[1]] \in {"out", "dead"})

\* A client hears of the session given to its newest pipe.
SessionsKnown ==
    \A p \in sessions :
        /\ p[2] <= mounts[p[1]]
        /\ p[2] = mounts[p[1]] => p \in coming \/ reply[p[1]] = "yes" \/ cpc[p[1]] = "dead"

\* An unmount is for a session that has been answered and that no other unmount is for.  A
\* worker frees the slots of clients that have left, and answers clients that wait.
SlotsConsistent ==
    /\ \A k \in DOMAIN server_pipe : server_pipe[k].sid # NoPipe =>
          /\ up => server_pipe[k].sid \in sessions \ (leaving \cup coming)
          /\ \A l \in DOMAIN server_pipe : server_pipe[l].sid = server_pipe[k].sid => k = l
    /\ \A p \in leaving :
          p \notin coming /\ (p[2] = mounts[p[1]] => cpc[p[1]] \in {"out", "dead"})
    /\ \A p \in coming : p[2] = mounts[p[1]] =>
          cpc[p[1]] = "dead" \/ (cpc[p[1]] = "reply" /\ reply[p[1]] = "none")

\* Main counts the sessions for which it has read no unmount, and is one ahead until it has
\* counted the last unmount.
SessionsCounted ==
    up => open_sessions = Cardinality(sessions \ leaving)
                              + (IF main = "unmount_count" THEN 1 ELSE 0)

\* The pipe m of a rejected attempt of c has the session, or is about to be answered.
Spent(c, m) == <<c, m>> \in sessions \/ (main = "answer" /\ fcli = <<c, m>>)

\* Then the client's last request is spent: it has none under way, and waits for ever.
RequestSpent ==
    \A c \in Clients : \A m \in reading[c] \ {mounts[c]} : Spent(c, m) =>
        /\ cpc[c] \in {"mkfifo", "open", "dead"} /\ ~Waiting(c)
        /\ \A k \in DOMAIN server_pipe : ~SentBy(k, c)

IInv ==
    /\ TypeOK /\ MainConsistent /\ MessagesConsistent /\ PipesHeld /\ RequestsSingle
    /\ RequestUnderWay /\ AnswersConsistent /\ AnswerExpected /\ UnmountsConsistent
    /\ SessionsReachServer /\ MountedHasSession /\ SessionsKnown /\ SessionsOwned
    /\ SlotsConsistent /\ SessionsCounted /\ RequestSpent

(***************************************************************************)
(* What the types say of pipes and of messages.                            *)
(***************************************************************************)
LEMMA PipeFacts ==
    /\ NoPipe \notin Pipes
    /\ \A p \in Pipes : p[1] \in Clients /\ p[2] \in 1 .. MaxMounts /\ p = <<p[1], p[2]>>
    /\ \A c \in Clients, m \in 1 .. MaxMounts : <<c, m>> \in Pipes
BY DEF Pipes, NoPipe

\* What main can find in its pipe.
LEMMA MessageFacts ==
    ASSUME TypeOK
    PROVE  /\ server_pipe \in Seq(Messages)
           /\ DOMAIN server_pipe \subseteq Nat \ {0}
           /\ \A k \in DOMAIN server_pipe :
                 /\ server_pipe[k].op \in {"MOUNT", "UNMOUNT"}
                 /\ server_pipe[k].sid \in Pipes \cup {NoPipe}
<1>1. server_pipe \in Seq(Messages)
    BY DEF TypeOK
<1>2. DOMAIN server_pipe \subseteq Nat \ {0} /\ \A k \in DOMAIN server_pipe : server_pipe[k] \in Messages
    BY <1>1, PipePositions
<1> QED
    BY <1>1, <1>2 DEF Messages

\* A client that is not out or dead has begun a mount.
LEMMA MountBegun ==
    ASSUME TypeOK, PipesHeld, NEW c \in Clients, cpc[c] \notin {"out", "dead"}
    PROVE  mounts[c] \in 1 .. MaxMounts /\ fserv[c] \in 1 .. MaxMounts
<1>1. mounts[c] \in 0 .. MaxMounts /\ fserv[c] \in 0 .. MaxMounts
    BY DEF TypeOK
<1>2. fserv[c] > 0 /\ fserv[c] <= mounts[c]
    BY DEF PipesHeld
<1> QED
    BY <1>1, <1>2

\* No unmount is under way for the session of a client that has not left it.
LEMMA NotUnmounted ==
    ASSUME UnmountsConsistent, NEW c \in Clients, cpc[c] \notin {"out", "dead"},
           NEW k \in DOMAIN server_pipe
    PROVE  server_pipe[k].sid # <<c, mounts[c]>>
<1> DEFINE p == <<c, mounts[c]>>
<1>1. p # NoPipe /\ p[1] = c /\ p[2] = mounts[c]
    BY DEF NoPipe
<1> HIDE DEF p
<1>2. server_pipe[k].sid # p
    BY <1>1 DEF UnmountsConsistent
<1> QED
    BY <1>2 DEF p

\* The pipes are finitely many, so the sessions can be counted.
LEMMA PipesFinite == IsFiniteSet(Pipes)
<1>1. IsFiniteSet(1 .. MaxMounts)
    BY FS_Interval
<1> QED
    BY <1>1, FS_Product DEF Pipes

\* A client that was refused has no session, nor has one that has begun its next mount.
LEMMA NoSessionLeft ==
    ASSUME IInv, NEW c \in Clients, cpc[c] \notin {"reply", "in", "out", "dead"}
    PROVE  <<c, mounts[c]>> \notin sessions
<1> DEFINE p == <<c, mounts[c]>>
<1>1. p[1] = c /\ p[2] = mounts[c] /\ p # NoPipe
    BY DEF NoPipe
<1> HIDE DEF p
<1> SUFFICES ASSUME p \in sessions PROVE FALSE
    BY DEF p
<1>2. p \notin leaving
    BY <1>1 DEF IInv, SlotsConsistent
<1>3. \A k \in DOMAIN server_pipe : server_pipe[k].sid # p
    BY <1>1 DEF IInv, UnmountsConsistent
<1> QED
    BY <1>1, <1>2, <1>3 DEF IInv, SessionsOwned

\* A step that leaves the server's sessions and what is in its pipe alone, and the clients
\* that wait for an answer or have left.
LEMMA SlotsKept ==
    ASSUME TypeOK, SlotsConsistent,
           UNCHANGED <<up, sessions, coming, leaving, server_pipe, mounts>>,
           \A d \in Clients :
              /\ cpc[d] \in {"out", "dead"} => cpc'[d] = cpc[d]
              /\ cpc[d] = "reply" /\ reply[d] = "none"
                    => cpc'[d] = "dead" \/ (cpc'[d] = "reply" /\ reply'[d] = "none")
    PROVE  SlotsConsistent'
<1>1. \A p \in leaving \cup coming : p[1] \in Clients
    BY PipeFacts DEF TypeOK
<1> QED
    BY <1>1 DEF SlotsConsistent

\* A step after which no slot is taken for an old pipe, and no request is new.
LEMMA SpentKept ==
    ASSUME RequestSpent,
           UNCHANGED <<main, name, fcli, sessions, mounts>>,
           \A d \in Clients :
              /\ \A m \in reading'[d] : m \in reading[d] \/ m = mounts[d]
              /\ cpc[d] \in {"mkfifo", "open", "dead"} => cpc'[d] \in {"mkfifo", "open", "dead"}
              /\ \A k \in DOMAIN server_pipe' :
                    SentBy(k, d)' => \E l \in DOMAIN server_pipe : SentBy(l, d)
    PROVE  RequestSpent'
BY DEF RequestSpent, Spent, Waiting

(***************************************************************************)
(* Every step preserves the invariant.                                     *)
(***************************************************************************)
LEMMA MountOpenStep ==
    ASSUME IInv, NEW c \in Clients, MountOpen(c)
    PROVE  IInv'
<1>1. MessagesConsistent'
    BY DEF IInv, MessagesConsistent, MountOpen
<1>2. TypeOK'
  <2>1. mounts' \in [Clients -> 0 .. MaxMounts] /\ fserv' \in [Clients -> 0 .. MaxMounts]
    BY DEF IInv, TypeOK, PipesHeld, MountOpen
  <2> QED
    BY <2>1 DEF IInv, TypeOK, MountOpen
<1>3. MainConsistent'
    BY DEF IInv, MainConsistent, MountOpen
<1>4. PipesHeld'
    BY DEF IInv, PipesHeld, TypeOK, MountOpen
<1>5. RequestsSingle'
    BY DEF IInv, RequestsSingle, Waiting, SentBy, MountOpen
<1>6. RequestUnderWay'
    BY DEF IInv, RequestUnderWay, Waiting, SentBy, Fresh, MountOpen
<1>7. AnswersConsistent'
    BY DEF IInv, AnswersConsistent, TypeOK, MountOpen
<1>8. AnswerExpected'
    BY SMTT(60) DEF IInv, AnswerExpected, TypeOK, MountOpen
<1>9. UnmountsConsistent'
  <2>1. mounts \in [Clients -> Nat] /\ mounts' = [mounts EXCEPT ![c] = @ + 1]
    BY DEF IInv, TypeOK, MountOpen
  <2>2. ASSUME NEW p \in Pipes, p[2] <= mounts[p[1]]
        PROVE  p[2] <= mounts'[p[1]] /\ (p[2] = mounts'[p[1]] => p[1] # c)
    BY <2>1, <2>2, PipeFacts
  <2>3. \A d \in Clients : d # c => cpc'[d] = cpc[d] /\ mounts'[d] = mounts[d]
    BY DEF IInv, TypeOK, MountOpen
  <2>4. main \notin {"eof", "closed", "opening"} => main' = main
    BY DEF MountOpen
  <2>5. server_pipe' = server_pipe
    BY DEF MountOpen
  <2>6. TypeOK /\ UnmountsConsistent
    BY DEF IInv
  <2> QED
    BY <2>2, <2>3, <2>4, <2>5, <2>6, MessageFacts, PipeFacts DEF UnmountsConsistent
<1>10. SessionsReachServer'
    BY DEF IInv, SessionsReachServer, MountOpen
<1>11. MountedHasSession'
    BY DEF IInv, MountedHasSession, MountOpen
<1>12. SessionsKnown'
  <2>1. mounts \in [Clients -> Nat] /\ mounts' = [mounts EXCEPT ![c] = @ + 1]
    BY DEF IInv, TypeOK, MountOpen
  <2>2. \A d \in Clients : d # c => cpc'[d] = cpc[d] /\ mounts'[d] = mounts[d] /\ reply'[d] = reply[d]
    BY DEF IInv, TypeOK, MountOpen
  <2>3. sessions' = sessions /\ coming' = coming /\ sessions \subseteq Pipes /\ SessionsKnown
    BY DEF IInv, TypeOK, MountOpen
  <2> QED
    BY <2>1, <2>2, <2>3, PipeFacts DEF SessionsKnown
<1>13. SessionsOwned'
  <2>1. mounts \in [Clients -> Nat] /\ mounts' = [mounts EXCEPT ![c] = @ + 1]
    BY DEF IInv, TypeOK, MountOpen
  <2>2. \A m \in reading[c] : m <= mounts[c]
    BY DEF IInv, PipesHeld
  <2>3. \A d \in Clients : d # c => cpc'[d] = cpc[d] /\ mounts'[d] = mounts[d]
    BY DEF IInv, TypeOK, MountOpen
  <2>4. \A p \in sessions : p[1] \in Clients
    BY PipeFacts DEF IInv, TypeOK
  <2>5. /\ UNCHANGED <<server_pipe, sessions, leaving, reading>>
        /\ cpc[c] \in {"out", "rejected"} /\ reading \in [Clients -> SUBSET Nat]
    BY DEF IInv, TypeOK, MountOpen
  <2> QED
    BY <2>1, <2>2, <2>3, <2>4, <2>5 DEF IInv, SessionsOwned
<1>14. SlotsConsistent'
  <2>1. mounts \in [Clients -> Nat] /\ mounts' = [mounts EXCEPT ![c] = @ + 1]
    BY DEF IInv, TypeOK, MountOpen
  <2>2. \A d \in Clients : d # c => cpc'[d] = cpc[d] /\ mounts'[d] = mounts[d] /\ reply'[d] = reply[d]
    BY DEF IInv, TypeOK, MountOpen
  <2>3. \A p \in sessions : p[1] \in Clients /\ p[2] <= mounts[p[1]]
    BY PipeFacts DEF IInv, TypeOK, SessionsKnown
  <2>4. \A p \in leaving \cup coming : p[1] \in Clients /\ (p[2] = mounts'[p[1]] => p[1] # c)
    BY <2>1, <2>3, PipeFacts DEF IInv, TypeOK
  <2>5. UNCHANGED <<up, sessions, coming, leaving, server_pipe>>
    BY DEF MountOpen
  <2> QED
    BY <2>2, <2>4, <2>5 DEF IInv, SlotsConsistent
<1>15. SessionsCounted'
    BY DEF IInv, SessionsCounted, MountOpen, serverV
<1>16. RequestSpent'
  <2>1. mounts[c] \in Nat /\ cpc[c] \in {"out", "rejected"}
        /\ \A d \in Clients : d # c => cpc'[d] = cpc[d] /\ mounts'[d] = mounts[d]
    BY DEF IInv, TypeOK, MountOpen
  <2>2. UNCHANGED <<name, fcli, sessions, server_pipe, reading>> /\ (main' \in {"slait_open", "answer"} => main' = main)
        /\ (main = "slait_open" => main' = main)
    BY DEF MountOpen
  <2>3. ASSUME mounts[c] \in reading[c] PROVE ~Spent(c, mounts[c])
    <3>1. cpc[c] = "rejected"
      BY <2>1, <2>3 DEF IInv, PipesHeld
    <3>2. <<c, mounts[c]>> \notin sessions
      BY <3>1, NoSessionLeft DEF IInv
    <3>3. ~(main = "answer" /\ fcli = <<c, mounts[c]>>)
      BY <3>1 DEF IInv, AnswerExpected
    <3> QED
      BY <3>2, <3>3 DEF Spent
  <2>4. \A m \in reading[c] : ~Spent(c, m)
    BY <2>1, <2>3 DEF IInv, RequestSpent
  <2>5. \A d \in Clients, m \in Nat : Spent(d, m)' => Spent(d, m)
    BY <2>2 DEF Spent
  <2> QED
    BY <2>1, <2>2, <2>4, <2>5 DEF IInv, RequestSpent, Spent, Waiting, SentBy
<1> QED
    BY <1>1, <1>2, <1>3, <1>4, <1>5, <1>6, <1>7, <1>8, <1>9, <1>10, <1>11, <1>12, <1>13, <1>14, <1>15, <1>16 DEF IInv

\* tfs_mount writes its request.
LEMMA MountWriteStep ==
    ASSUME IInv, NEW c \in Clients, MountWrite(c)
    PROVE  IInv'
<1> DEFINE m == [op |-> "MOUNT", name |-> c, sid |-> NoPipe]
<1>1. server_pipe \in Seq(Messages) /\ m \in Messages /\ server_pipe' = Append(server_pipe, m)
    BY DEF IInv, TypeOK, Messages, Pipes, MountWrite
<1>2. server_pipe' \in Seq(Messages)
    BY <1>1, Written
<1>3. PICK n \in Nat \ {0} :
        /\ n \notin DOMAIN server_pipe /\ DOMAIN server_pipe' = DOMAIN server_pipe \cup {n}
        /\ server_pipe'[n] = m /\ \A k \in DOMAIN server_pipe : server_pipe'[k] = server_pipe[k]
    BY <1>1, Written
<1> HIDE DEF m
<1>4. MainConsistent'
    BY DEF IInv, MainConsistent, MountWrite, serverV, fileV
<1>5. TypeOK'
    BY <1>2 DEF IInv, TypeOK, MountWrite, serverV, fileV
<1>6. MessagesConsistent'
    BY <1>3 DEF IInv, MessagesConsistent, m
<1>7. PipesHeld'
    BY DEF IInv, PipesHeld, MountWrite, fileV
<1>8. RequestsSingle'
  <2>1. /\ cpc' = [cpc EXCEPT ![c] = "mkfifo"] /\ cpc[c] = "write"
        /\ main' = main /\ name' = name /\ DOMAIN cpc = Clients
    BY DEF IInv, TypeOK, MountWrite, serverV
  <2>2. \A d \in Clients : cpc'[d] = IF d = c THEN "mkfifo" ELSE cpc[d]
    BY <2>1
  <2>3. \A d \in Clients : Waiting(d)' <=> Waiting(d)
    BY <2>1 DEF Waiting
  <2>4. \A d \in Clients : /\ \A k \in DOMAIN server_pipe : SentBy(k, d)' <=> SentBy(k, d)
                           /\ SentBy(n, d)' <=> d = c
    BY <1>3 DEF SentBy, m
  <2>5. ~Waiting(c) /\ \A k \in DOMAIN server_pipe : ~SentBy(k, c)
    BY <2>1 DEF IInv, RequestsSingle
  <2>6. ASSUME NEW d \in Clients, Waiting(d)' PROVE cpc'[d] \in {"mkfifo", "open", "dead"}
    BY <2>2, <2>3, <2>6 DEF IInv, RequestsSingle
  <2>7. ASSUME NEW d \in Clients, NEW k \in DOMAIN server_pipe', SentBy(k, d)'
        PROVE  /\ cpc'[d] \in {"mkfifo", "open", "dead"} /\ ~Waiting(d)'
               /\ \A l \in DOMAIN server_pipe' : SentBy(l, d)' => k = l
    <3>1. CASE d = c
        BY <1>3, <2>2, <2>3, <2>4, <2>5, <2>7, <3>1
    <3>2. CASE d # c
        BY <1>3, <2>2, <2>3, <2>4, <2>7, <3>2 DEF IInv, RequestsSingle
    <3> QED
        BY <3>1, <3>2
  <2> QED
    BY <2>6, <2>7 DEF RequestsSingle
<1>9. RequestUnderWay'
  <2>1. \E k \in DOMAIN server_pipe' : SentBy(k, c)'
    BY <1>3 DEF SentBy, m
  <2>2. \A d \in Clients : d # c => cpc'[d] = cpc[d]
    BY DEF IInv, TypeOK, MountWrite
  <2>3. \A k \in DOMAIN server_pipe, d \in Clients : SentBy(k, d) => k \in DOMAIN server_pipe' /\ SentBy(k, d)'
    BY <1>3 DEF SentBy
  <2> QED
    BY <2>1, <2>2, <2>3 DEF IInv, RequestUnderWay, Waiting, Fresh, MountWrite, serverV, fileV
<1>10. AnswersConsistent'
    BY DEF IInv, AnswersConsistent, MountWrite, serverV
<1>11. AnswerExpected'
    BY DEF IInv, AnswerExpected, MountWrite, serverV, fileV
<1>12. UnmountsConsistent'
  <2>1. server_pipe'[n].op = "MOUNT" /\ server_pipe'[n].sid = NoPipe
    BY <1>3 DEF m
  <2>2. \A d \in Clients : cpc[d] \in {"out", "dead"} => cpc'[d] = cpc[d]
    BY DEF IInv, TypeOK, MountWrite
  <2> QED
    BY <1>3, <2>1, <2>2, MessageFacts, PipeFacts DEF IInv, UnmountsConsistent, MountWrite, serverV
<1>13. SessionsReachServer'
    BY DEF IInv, SessionsReachServer, MountWrite, serverV
<1>14. MountedHasSession'
    BY DEF IInv, MountedHasSession, MountWrite, serverV
<1>15. SessionsKnown'
    BY DEF IInv, SessionsKnown, MountWrite, serverV
<1>16. SessionsOwned'
  <2>1. /\ UNCHANGED <<sessions, leaving, reading, mounts>>
        /\ \A d \in Clients : cpc'[d] = cpc[d] \/ (d = c /\ cpc[d] = "write")
    BY DEF IInv, TypeOK, MountWrite, serverV, fileV
  <2>2. \A p \in sessions : p[1] \in Clients
    BY PipeFacts DEF IInv, TypeOK
  <2> QED
    BY <1>3, <2>1, <2>2 DEF IInv, SessionsOwned
<1>17. SlotsConsistent'
  <2>1. server_pipe'[n].sid = NoPipe
    BY <1>3 DEF m
  <2>2. \A d \in Clients : cpc'[d] = cpc[d] \/ (d = c /\ cpc[d] = "write")
    BY DEF IInv, TypeOK, MountWrite
  <2>3. UNCHANGED <<up, sessions, coming, leaving, reply, mounts>>
    BY DEF MountWrite, serverV
  <2>4. \A p \in leaving \cup coming : p[1] \in Clients
    BY PipeFacts DEF IInv, TypeOK
  <2> QED
    BY <1>3, <2>1, <2>2, <2>3, <2>4 DEF IInv, SlotsConsistent
<1>18. SessionsCounted'
    BY DEF IInv, SessionsCounted, MountWrite, serverV
<1>19. RequestSpent'
  <2>1. cpc[c] = "write" /\ \A d \in Clients : d # c => cpc'[d] = cpc[d]
    BY DEF IInv, TypeOK, MountWrite
  <2>2. UNCHANGED <<main, name, fcli, sessions, mounts, reading>>
    BY DEF MountWrite, serverV, fileV
  <2>3. \A d \in Clients : d # c => \A k \in DOMAIN server_pipe' :
            SentBy(k, d)' => k \in DOMAIN server_pipe /\ SentBy(k, d)
    BY <1>3 DEF SentBy, m
  <2> QED
    BY <2>1, <2>2, <2>3 DEF IInv, RequestSpent, Spent, Waiting
<1> QED
    BY <1>4, <1>5, <1>6, <1>7, <1>8, <1>9, <1>10, <1>11, <1>12, <1>13, <1>14, <1>15, <1>16, <1>17, <1>18, <1>19 DEF IInv

\* tfs_mount makes the pipe of its client.
LEMMA MakeFifoStep ==
    ASSUME IInv, NEW c \in Clients, MakeFifo(c)
    PROVE  IInv'
<1>1. MainConsistent' /\ MessagesConsistent'
    BY DEF IInv, MainConsistent, MessagesConsistent, MakeFifo, serverV
<1>2. TypeOK'
  <2>1. mounts[c] \in 1 .. MaxMounts
    BY MountBegun DEF IInv, MakeFifo
  <2>2. path' \in [Clients -> 0 .. MaxMounts] /\ reading' \in [Clients -> SUBSET (1 .. MaxMounts)]
    BY <2>1 DEF IInv, TypeOK, MakeFifo
  <2> QED
    BY <2>2 DEF IInv, TypeOK, MakeFifo, serverV
<1>3. PipesHeld'
    BY DEF IInv, PipesHeld, TypeOK, MakeFifo
<1>4. RequestsSingle'
    BY DEF IInv, RequestsSingle, Waiting, SentBy, MakeFifo, serverV
<1>5. RequestUnderWay'
  <2>1. \A d \in Clients : Fresh(d)' => Fresh(d)
    BY DEF IInv, TypeOK, Fresh, MakeFifo
  <2>2. \A d \in Clients : cpc'[d] \in {"mkfifo", "open"} => cpc[d] \in {"mkfifo", "open"}
    BY DEF IInv, TypeOK, MakeFifo
  <2> QED
    BY <2>1, <2>2 DEF IInv, RequestUnderWay, Waiting, SentBy, MakeFifo, serverV
<1>6. AnswersConsistent'
    BY DEF IInv, AnswersConsistent, MakeFifo, serverV
<1>7. AnswerExpected'
    BY DEF IInv, AnswerExpected, MakeFifo, serverV
<1>8. UnmountsConsistent'
  <2>1. /\ UNCHANGED <<server_pipe, main, mounts>>
        /\ \A d \in Clients : cpc[d] \in {"out", "dead"} => cpc'[d] = cpc[d]
    BY DEF IInv, TypeOK, MakeFifo, serverV
  <2>2. \A k \in DOMAIN server_pipe : server_pipe[k].sid # NoPipe => server_pipe[k].sid[1] \in Clients
    BY MessageFacts, PipeFacts DEF IInv
  <2> QED
    BY <2>1, <2>2 DEF IInv, UnmountsConsistent
<1>9. SessionsReachServer'
    BY DEF IInv, SessionsReachServer, MakeFifo, serverV
<1>10. MountedHasSession'
    BY DEF IInv, MountedHasSession, MakeFifo, serverV
<1>11. SessionsKnown'
    BY DEF IInv, SessionsKnown, MakeFifo, serverV
<1>12. SessionsOwned'
  <2>1. /\ UNCHANGED <<sessions, leaving, server_pipe, mounts>>
        /\ \A d \in Clients : cpc'[d] = cpc[d] \/ (d = c /\ cpc[d] = "mkfifo")
        /\ \A d \in Clients : reading[d] \subseteq reading'[d]
    BY DEF IInv, TypeOK, MakeFifo, serverV
  <2>2. \A p \in sessions : p[1] \in Clients
    BY PipeFacts DEF IInv, TypeOK
  <2> QED
    BY <2>1, <2>2 DEF IInv, SessionsOwned
<1>13. SlotsConsistent'
  <2>1. \A d \in Clients :
            /\ cpc[d] \in {"out", "dead"} => cpc'[d] = cpc[d]
            /\ cpc[d] = "reply" /\ reply[d] = "none"
                  => cpc'[d] = "dead" \/ (cpc'[d] = "reply" /\ reply'[d] = "none")
    BY DEF IInv, TypeOK, MakeFifo
  <2>2. UNCHANGED <<up, sessions, coming, leaving, server_pipe, mounts>>
    BY DEF MakeFifo, serverV
  <2> QED
    BY <2>1, <2>2, SlotsKept DEF IInv
<1>14. SessionsCounted'
    BY DEF IInv, SessionsCounted, MakeFifo, serverV
<1>15. RequestSpent'
  <2>1. \A d \in Clients :
            /\ \A m \in reading'[d] : m \in reading[d] \/ m = mounts[d]
            /\ cpc[d] \in {"mkfifo", "open", "dead"} => cpc'[d] \in {"mkfifo", "open", "dead"}
    BY DEF IInv, TypeOK, MakeFifo, fileV
  <2>2. \A d \in Clients : \A k \in DOMAIN server_pipe' :
            SentBy(k, d)' => \E l \in DOMAIN server_pipe : SentBy(l, d)
    BY DEF SentBy, MakeFifo
  <2>3. UNCHANGED <<main, name, fcli, sessions, mounts>>
    BY DEF MakeFifo, serverV
  <2> QED
    BY <2>1, <2>2, <2>3, SpentKept DEF IInv
<1> QED
    BY <1>1, <1>2, <1>3, <1>4, <1>5, <1>6, <1>7, <1>8, <1>9, <1>10, <1>11, <1>12, <1>13, <1>14, <1>15 DEF IInv

\* tfs_mount reads the answer.
LEMMA ReceiveStep ==
    ASSUME IInv, NEW c \in Clients, Receive(c)
    PROVE  IInv'
<1>1. MainConsistent' /\ MessagesConsistent'
    BY DEF IInv, MainConsistent, MessagesConsistent, Receive, serverV
<1>2. TypeOK'
  <2>1. mounts[c] \in 1 .. MaxMounts
    BY MountBegun DEF IInv, Receive
  <2>2. sid' \in [Clients -> Pipes \cup {NoPipe}]
    BY <2>1, PipeFacts DEF IInv, TypeOK, Receive
  <2> QED
    BY <2>2 DEF IInv, TypeOK, Receive, serverV, fileV
<1>3. PipesHeld'
    BY DEF IInv, PipesHeld, Receive, fileV
<1>4. RequestsSingle'
    BY DEF IInv, RequestsSingle, Waiting, SentBy, Receive, serverV
<1>5. RequestUnderWay'
  <2>1. \A d \in Clients : cpc'[d] \in {"mkfifo", "open"} => cpc[d] \in {"mkfifo", "open"}
    BY DEF IInv, TypeOK, Receive
  <2> QED
    BY <2>1 DEF IInv, RequestUnderWay, Waiting, SentBy, Fresh, Receive, serverV, fileV
<1>6. AnswersConsistent'
    BY DEF IInv, AnswersConsistent, TypeOK, Receive, serverV
<1>7. AnswerExpected'
    BY DEF IInv, AnswerExpected, Receive, serverV, fileV
<1>8. UnmountsConsistent'
  <2>1. /\ UNCHANGED <<server_pipe, main, mounts>>
        /\ \A d \in Clients : cpc[d] \in {"out", "dead"} => cpc'[d] = cpc[d]
    BY DEF IInv, TypeOK, Receive, serverV
  <2>2. \A k \in DOMAIN server_pipe : server_pipe[k].sid # NoPipe => server_pipe[k].sid[1] \in Clients
    BY MessageFacts, PipeFacts DEF IInv
  <2> QED
    BY <2>1, <2>2 DEF IInv, UnmountsConsistent
<1>9. SessionsReachServer'
    BY DEF IInv, SessionsReachServer, Receive, serverV
<1>10. MountedHasSession'
    BY DEF IInv, MountedHasSession, AnswersConsistent, Receive, serverV
<1>11. SessionsKnown'
    BY DEF IInv, SessionsKnown, Receive, serverV
<1>12. SessionsOwned'
  <2>1. \A d \in Clients : d # c => cpc'[d] = cpc[d]
    BY DEF IInv, TypeOK, Receive
  <2>2. cpc[c] = "reply" /\ (reply[c] = "yes" => cpc'[c] = "in")
    BY DEF IInv, TypeOK, Receive
  <2>3. UNCHANGED <<sessions, leaving, server_pipe, reading, mounts>>
    BY DEF Receive, serverV, fileV
  <2>4. ASSUME NEW p \in sessions, p[1] = c, p[2] = mounts[c]
        PROVE  reply[c] = "yes"
    <3>1. reply[c] # "none"
      BY DEF Receive
    <3>2. p \notin coming
      BY <2>2, <2>4, <3>1 DEF IInv, SlotsConsistent
    <3> QED
      BY <2>2, <2>4, <3>2 DEF IInv, SessionsKnown
  <2>5. \A p \in sessions : p[1] \in Clients
    BY PipeFacts DEF IInv, TypeOK
  <2>6. \A p \in sessions : p[2] = mounts[p[1]] /\ cpc[p[1]] \in {"reply", "in"}
            => cpc'[p[1]] \in {"reply", "in"}
    BY <2>1, <2>2, <2>4, <2>5
  <2>7. \A p \in sessions : cpc[p[1]] = "dead" => cpc'[p[1]] = "dead"
    BY <2>1, <2>2, <2>5
  <2> QED
    BY <2>3, <2>6, <2>7 DEF IInv, SessionsOwned
<1>13. SlotsConsistent'
  <2>1. \A d \in Clients :
            /\ cpc[d] \in {"out", "dead"} => cpc'[d] = cpc[d]
            /\ cpc[d] = "reply" /\ reply[d] = "none"
                  => cpc'[d] = "dead" \/ (cpc'[d] = "reply" /\ reply'[d] = "none")
    BY DEF IInv, TypeOK, Receive
  <2>2. UNCHANGED <<up, sessions, coming, leaving, server_pipe, mounts>>
    BY DEF Receive, serverV
  <2> QED
    BY <2>1, <2>2, SlotsKept DEF IInv
<1>14. SessionsCounted'
    BY DEF IInv, SessionsCounted, Receive, serverV
<1>15. RequestSpent'
  <2>1. \A d \in Clients :
            /\ \A m \in reading'[d] : m \in reading[d] \/ m = mounts[d]
            /\ cpc[d] \in {"mkfifo", "open", "dead"} => cpc'[d] \in {"mkfifo", "open", "dead"}
    BY DEF IInv, TypeOK, Receive, fileV
  <2>2. \A d \in Clients : \A k \in DOMAIN server_pipe' :
            SentBy(k, d)' => \E l \in DOMAIN server_pipe : SentBy(l, d)
    BY DEF SentBy, Receive
  <2>3. UNCHANGED <<main, name, fcli, sessions, mounts>>
    BY DEF Receive, serverV
  <2> QED
    BY <2>1, <2>2, <2>3, SpentKept DEF IInv
<1> QED
    BY <1>1, <1>2, <1>3, <1>4, <1>5, <1>6, <1>7, <1>8, <1>9, <1>10, <1>11, <1>12, <1>13, <1>14, <1>15 DEF IInv

\* tfs_mount reads nothing: the server is gone.
LEMMA EndOfFileStep ==
    ASSUME IInv, NEW c \in Clients, EndOfFile(c)
    PROVE  IInv'
<1>1. MainConsistent' /\ MessagesConsistent'
    BY DEF IInv, MainConsistent, MessagesConsistent, EndOfFile, serverV
<1>2. TypeOK'
    BY DEF IInv, TypeOK, EndOfFile, serverV, fileV
<1>3. PipesHeld'
    BY DEF IInv, PipesHeld, EndOfFile, fileV
<1>4. RequestsSingle'
    BY DEF IInv, RequestsSingle, Waiting, SentBy, EndOfFile, serverV
<1>5. RequestUnderWay'
    BY DEF IInv, RequestUnderWay, EndOfFile, serverV
<1>6. AnswersConsistent'
    BY DEF IInv, AnswersConsistent, EndOfFile, serverV
<1>7. AnswerExpected'
    BY DEF IInv, AnswerExpected, MainConsistent, EndOfFile, serverV
<1>8. UnmountsConsistent'
  <2>1. \A d \in Clients : cpc[d] \in {"out", "dead"} => cpc'[d] = cpc[d]
    BY DEF IInv, TypeOK, EndOfFile
  <2>2. TypeOK
    BY DEF IInv
  <2> QED
    BY <2>1, <2>2, MessageFacts, PipeFacts DEF IInv, UnmountsConsistent, EndOfFile, serverV
<1>9. SessionsReachServer'
    BY DEF IInv, SessionsReachServer, EndOfFile, serverV
<1>10. MountedHasSession'
    BY DEF IInv, MountedHasSession, EndOfFile, serverV
<1>11. SessionsKnown'
    BY DEF IInv, SessionsKnown, EndOfFile, serverV
<1>12. SessionsOwned'
    BY DEF IInv, SessionsOwned, EndOfFile, serverV, fileV
<1>13. SlotsConsistent'
  <2>1. ~up /\ coming = {} /\ leaving = {}
    BY DEF IInv, TypeOK, MainConsistent, EndOfFile
  <2>2. UNCHANGED <<up, sessions, coming, leaving, server_pipe, mounts>>
    BY DEF EndOfFile, serverV
  <2> QED
    BY <2>1, <2>2 DEF IInv, SlotsConsistent
<1>14. SessionsCounted'
    BY DEF IInv, SessionsCounted, EndOfFile, serverV
<1>15. RequestSpent'
  <2>1. \A d \in Clients :
            /\ \A m \in reading'[d] : m \in reading[d] \/ m = mounts[d]
            /\ cpc[d] \in {"mkfifo", "open", "dead"} => cpc'[d] \in {"mkfifo", "open", "dead"}
    BY DEF IInv, TypeOK, EndOfFile, fileV
  <2>2. \A d \in Clients : \A k \in DOMAIN server_pipe' :
            SentBy(k, d)' => \E l \in DOMAIN server_pipe : SentBy(l, d)
    BY DEF SentBy, EndOfFile
  <2>3. UNCHANGED <<main, name, fcli, sessions, mounts>>
    BY DEF EndOfFile, serverV
  <2> QED
    BY <2>1, <2>2, <2>3, SpentKept DEF IInv
<1> QED
    BY <1>1, <1>2, <1>3, <1>4, <1>5, <1>6, <1>7, <1>8, <1>9, <1>10, <1>11, <1>12, <1>13, <1>14, <1>15 DEF IInv

\* tfs_unmount.
LEMMA UnmountStep ==
    ASSUME IInv, NEW c \in Clients, Unmount(c)
    PROVE  IInv'
<1> DEFINE m == [op |-> "UNMOUNT", name |-> NoClient, sid |-> sid[c]]
<1>1. server_pipe \in Seq(Messages) /\ m \in Messages /\ server_pipe' = Append(server_pipe, m)
    BY DEF IInv, TypeOK, Messages, Pipes, Unmount
<1>2. server_pipe' \in Seq(Messages)
    BY <1>1, Written
<1>3. PICK n \in Nat \ {0} :
        /\ n \notin DOMAIN server_pipe /\ DOMAIN server_pipe' = DOMAIN server_pipe \cup {n}
        /\ server_pipe'[n] = m /\ \A k \in DOMAIN server_pipe : server_pipe'[k] = server_pipe[k]
    BY <1>1, Written
<1> HIDE DEF m
<1>4. MainConsistent'
    BY DEF IInv, MainConsistent, Unmount, serverV, fileV
<1>5. TypeOK'
  <2>1. fserv[c] \in 1 .. MaxMounts
    BY MountBegun DEF IInv, Unmount
  <2>2. fserv' \in [Clients -> 0 .. MaxMounts] /\ reading' \in [Clients -> SUBSET (1 .. MaxMounts)]
    BY <2>1 DEF IInv, TypeOK, Unmount
  <2> QED
    BY <1>2, <2>2 DEF IInv, TypeOK, Unmount, serverV
<1>6. MessagesConsistent'
    BY <1>3 DEF IInv, MessagesConsistent, m
<1>7. PipesHeld'
    BY DEF IInv, PipesHeld, TypeOK, Unmount
<1>8. RequestsSingle'
    BY <1>3 DEF IInv, RequestsSingle, Waiting, SentBy, Unmount, serverV
<1>9. RequestUnderWay'
  <2>1. \A d \in Clients : cpc'[d] \in {"mkfifo", "open"} =>
            cpc[d] = cpc'[d] /\ reading'[d] = reading[d]
    BY DEF IInv, TypeOK, Unmount
  <2>2. \A k \in DOMAIN server_pipe, d \in Clients :
            SentBy(k, d) => k \in DOMAIN server_pipe' /\ SentBy(k, d)'
    BY <1>3 DEF SentBy
  <2> QED
    BY <2>1, <2>2 DEF IInv, RequestUnderWay, Waiting, Fresh, Unmount, serverV
<1>10. AnswersConsistent'
    BY DEF IInv, AnswersConsistent, Unmount, serverV
<1>11. AnswerExpected'
    BY DEF IInv, AnswerExpected, Unmount, serverV
<1>12. UnmountsConsistent'
  <2>1. main \in {"read", "slait_open", "answer", "unmount_count"} /\ up
    BY DEF IInv, SessionsReachServer, MainConsistent, Unmount, HasReader
  <2>2. sid[c] = NoPipe \/ sid[c] = <<c, mounts[c]>>
    BY <2>1 DEF IInv, AnswersConsistent, Unmount
  <2>3. \A d \in Clients : (cpc[d] \in {"out", "dead"} => cpc'[d] = cpc[d]) /\ mounts[d] \in Nat
    BY DEF IInv, TypeOK, Unmount
  <2>4. cpc'[c] = "out" /\ mounts' = mounts /\ main' = main
    BY DEF IInv, TypeOK, Unmount, serverV
  <2>5. server_pipe'[n].op = "UNMOUNT" /\ server_pipe'[n].sid = sid[c]
    BY <1>3 DEF m
  <2>6. TypeOK /\ UnmountsConsistent
    BY DEF IInv
  <2> QED
    BY <1>3, <2>1, <2>2, <2>3, <2>4, <2>5, <2>6, MessageFacts, PipeFacts DEF UnmountsConsistent
<1>13. SessionsReachServer'
    BY DEF IInv, SessionsReachServer, Unmount, serverV
<1>14. MountedHasSession'
    BY DEF IInv, MountedHasSession, Unmount, serverV
<1>15. SessionsKnown'
    BY DEF IInv, SessionsKnown, Unmount, serverV
<1>16. SessionsOwned'
  <2>1. up
    BY DEF IInv, MainConsistent, Unmount, HasReader
  <2>2. \A p \in sessions : p[1] \in Clients /\ p = <<p[1], p[2]>>
    BY PipeFacts DEF IInv, TypeOK
  <2>3. \A k \in DOMAIN server_pipe : k \in DOMAIN server_pipe' /\ server_pipe'[k].sid = server_pipe[k].sid
    BY <1>3
  <2>4. n \in DOMAIN server_pipe' /\ server_pipe'[n].sid = sid[c]
    BY <1>3 DEF m
  <2>5. cpc[c] = "in" => server_pipe'[n].sid = <<c, mounts[c]>>
    BY <2>1, <2>4 DEF IInv, AnswersConsistent
  <2>6. cpc[c] \in {"in", "rejected"} /\ reading'[c] = reading[c] \ {mounts[c]}
    BY DEF IInv, TypeOK, Unmount
  <2>7. \A d \in Clients : d # c => cpc'[d] = cpc[d] /\ reading'[d] = reading[d]
    BY DEF IInv, TypeOK, Unmount
  <2>8. UNCHANGED <<sessions, leaving, mounts>>
    BY DEF Unmount, serverV
  <2>9. ASSUME NEW p \in sessions, p[1] = c, p[2] = mounts[c], cpc[c] = "in"
        PROVE  \E k \in DOMAIN server_pipe' : server_pipe'[k].sid = p
    BY <2>2, <2>4, <2>5, <2>9
  <2> QED
    BY <2>2, <2>3, <2>6, <2>7, <2>8, <2>9 DEF IInv, SessionsOwned
<1>17. SlotsConsistent'
  <2>1. up /\ HasReader
    BY DEF IInv, MainConsistent, Unmount, HasReader
  <2>2. sid[c] # NoPipe => cpc[c] = "in" /\ sid[c] = <<c, mounts[c]>>
    BY <2>1 DEF IInv, AnswersConsistent, Unmount
  <2>3. sid[c] # NoPipe => sid[c] \in sessions \ (leaving \cup coming)
    <3>1. cpc[c] = "in" => <<c, mounts[c]>> \notin coming
      BY DEF IInv, SlotsConsistent
    <3> QED
      BY <2>1, <2>2, <3>1 DEF IInv, MountedHasSession
  <2>4. sid[c] # NoPipe => \A k \in DOMAIN server_pipe : server_pipe[k].sid # sid[c]
    BY <2>2, NotUnmounted DEF IInv
  <2>5. server_pipe'[n].sid = sid[c]
    BY <1>3 DEF m
  <2>6. \A d \in Clients : cpc'[d] = cpc[d] \/ (d = c /\ cpc'[d] = "out" /\ cpc[d] \in {"in", "rejected"})
    BY DEF IInv, TypeOK, Unmount
  <2>7. UNCHANGED <<up, sessions, coming, leaving, reply, mounts>>
    BY DEF Unmount, serverV
  <2>8. \A p \in leaving \cup coming : p[1] \in Clients
    BY PipeFacts DEF IInv, TypeOK
  <2>9. \A p \in leaving : p \notin coming /\ (p[2] = mounts[p[1]] => cpc'[p[1]] \in {"out", "dead"})
    BY <2>6, <2>8 DEF IInv, SlotsConsistent
  <2>10. \A p \in coming : p[2] = mounts[p[1]] =>
            cpc'[p[1]] = "dead" \/ (cpc'[p[1]] = "reply" /\ reply[p[1]] = "none")
    BY <2>6, <2>8 DEF IInv, SlotsConsistent
  <2>11. ASSUME NEW k \in DOMAIN server_pipe', server_pipe'[k].sid # NoPipe
         PROVE  /\ server_pipe'[k].sid \in sessions \ (leaving \cup coming)
                /\ \A l \in DOMAIN server_pipe' : server_pipe'[l].sid = server_pipe'[k].sid => k = l
    BY <1>3, <2>1, <2>3, <2>4, <2>5, <2>11 DEF IInv, SlotsConsistent
  <2> QED
    BY <2>7, <2>9, <2>10, <2>11 DEF SlotsConsistent
<1>18. SessionsCounted'
    BY DEF IInv, SessionsCounted, Unmount, serverV
<1>19. RequestSpent'
  <2>1. \A d \in Clients :
            /\ \A k \in reading'[d] : k \in reading[d] \/ k = mounts[d]
            /\ cpc[d] \in {"mkfifo", "open", "dead"} => cpc'[d] \in {"mkfifo", "open", "dead"}
    BY DEF IInv, TypeOK, Unmount
  <2>2. \A d \in Clients : \A k \in DOMAIN server_pipe' :
            SentBy(k, d)' => \E l \in DOMAIN server_pipe : SentBy(l, d)
    BY <1>3 DEF SentBy, m
  <2>3. UNCHANGED <<main, name, fcli, sessions, mounts>>
    BY DEF Unmount, serverV
  <2> QED
    BY <2>1, <2>2, <2>3, SpentKept DEF IInv
<1> QED
    BY <1>4, <1>5, <1>6, <1>7, <1>8, <1>9, <1>10, <1>11, <1>12, <1>13, <1>14, <1>15, <1>16, <1>17, <1>18, <1>19 DEF IInv

\* A client dies.
LEMMA DieStep ==
    ASSUME IInv, NEW c \in Clients, Die(c), crashes' \in 0 .. MaxCrashes
    PROVE  IInv'
<1>1. server_pipe' = server_pipe \/ (server_pipe' = <<>> /\ DOMAIN server_pipe' = {})
    BY DEF Die, Kept, HasReader
<1>2. server_pipe' \in Seq(Messages)
  <2>1. server_pipe \in Seq(Messages) /\ <<>> \in Seq(Messages)
    BY EmptySeq DEF IInv, TypeOK
  <2> QED
    BY <1>1, <2>1
<1>3. MainConsistent'
    BY DEF IInv, MainConsistent, Die, serverV, fileV
<1>4. TypeOK'
  <2>1. fserv' \in [Clients -> 0 .. MaxMounts] /\ reading' \in [Clients -> SUBSET (1 .. MaxMounts)]
    BY DEF IInv, TypeOK, Die
  <2> QED
    BY <1>2, <2>1 DEF IInv, TypeOK, Die, serverV
<1>5. MessagesConsistent'
    BY <1>1 DEF IInv, MessagesConsistent
<1>6. PipesHeld'
    BY DEF IInv, PipesHeld, TypeOK, Die
<1>7. RequestsSingle'
    BY <1>1 DEF IInv, RequestsSingle, Waiting, SentBy, Die, Kept, serverV
<1>8. RequestUnderWay'
  <2>1. ASSUME NEW d \in Clients, cpc'[d] \in {"mkfifo", "open"}
        PROVE  /\ cpc'[d] = cpc[d] /\ server_pipe' = server_pipe
               /\ (Fresh(d)' <=> Fresh(d)) /\ (Waiting(d)' <=> Waiting(d)) /\ up' = up
    <3>1. d # c /\ cpc'[d] = cpc[d] /\ reading'[d] = reading[d] /\ mounts' = mounts
        BY <2>1 DEF IInv, TypeOK, Die
    <3>2. fserv[d] > 0
        BY <2>1, <3>1 DEF IInv, PipesHeld
    <3>3. server_pipe' = server_pipe
        BY <3>1, <3>2 DEF Die, Kept
    <3>4. up' = up /\ main' = main /\ name' = name
        BY DEF Die, serverV
    <3> QED
        BY <3>1, <3>3, <3>4 DEF Fresh, Waiting
  <2> QED
    BY <2>1 DEF IInv, RequestUnderWay, SentBy
<1>9. AnswersConsistent'
    BY DEF IInv, AnswersConsistent, Die, serverV
<1>10. AnswerExpected'
    BY DEF IInv, AnswerExpected, TypeOK, Die, serverV
<1>11. UnmountsConsistent'
  <2>1. \A d \in Clients : cpc[d] \in {"out", "dead"} => cpc'[d] \in {"out", "dead"}
    BY DEF IInv, TypeOK, Die
  <2>2. main' = main /\ mounts' = mounts
    BY DEF Die, serverV
  <2>3. TypeOK /\ UnmountsConsistent
    BY DEF IInv
  <2> QED
    BY <1>1, <2>1, <2>2, <2>3, MessageFacts, PipeFacts DEF UnmountsConsistent
<1>12. SessionsReachServer'
    BY DEF IInv, SessionsReachServer, Die, serverV
<1>13. MountedHasSession'
    BY DEF IInv, MountedHasSession, Die, serverV
<1>14. SessionsKnown'
    BY DEF IInv, SessionsKnown, Die, serverV
<1>15. SessionsOwned'
  <2>1. \A p \in sessions : p[1] \in Clients /\ p # NoPipe
    BY PipeFacts DEF IInv, TypeOK
  <2>2. cpc'[c] = "dead" /\ UNCHANGED <<sessions, leaving, mounts>>
    BY DEF IInv, TypeOK, Die, serverV
  <2>3. \A d \in Clients : d # c => cpc'[d] = cpc[d] /\ reading'[d] = reading[d]
    BY DEF IInv, TypeOK, Die
  <2>4. ASSUME NEW p \in sessions, NEW k \in DOMAIN server_pipe, server_pipe[k].sid = p
        PROVE  server_pipe' = server_pipe
    <3>1. server_pipe[k].op = "UNMOUNT"
      BY <2>1, <2>4, MessageFacts DEF IInv, MessagesConsistent
    <3>2. main \notin {"closed", "gone"}
      BY <2>4, <3>1 DEF IInv, UnmountsConsistent, MainConsistent
    <3> QED
      BY <3>2 DEF Die, Kept, HasReader
  <2> QED
    BY <2>1, <2>2, <2>3, <2>4 DEF IInv, SessionsOwned
<1>16. SlotsConsistent'
  <2>1. \A d \in Clients : cpc'[d] = cpc[d] \/ (d = c /\ cpc'[d] = "dead")
    BY DEF IInv, TypeOK, Die
  <2>2. UNCHANGED <<up, sessions, coming, leaving, reply, mounts>>
    BY DEF Die, serverV
  <2>3. \A p \in leaving \cup coming : p[1] \in Clients
    BY PipeFacts DEF IInv, TypeOK
  <2> QED
    BY <1>1, <2>1, <2>2, <2>3 DEF IInv, SlotsConsistent
<1>17. SessionsCounted'
    BY DEF IInv, SessionsCounted, Die, serverV
<1>18. RequestSpent'
  <2>1. \A d \in Clients :
            /\ \A m \in reading'[d] : m \in reading[d] \/ m = mounts[d]
            /\ cpc[d] \in {"mkfifo", "open", "dead"} => cpc'[d] \in {"mkfifo", "open", "dead"}
    BY DEF IInv, TypeOK, Die
  <2>2. \A d \in Clients : \A k \in DOMAIN server_pipe' :
            SentBy(k, d)' => \E l \in DOMAIN server_pipe : SentBy(l, d)
    BY <1>1 DEF SentBy
  <2>3. UNCHANGED <<main, name, fcli, sessions, mounts>>
    BY DEF Die, serverV
  <2> QED
    BY <2>1, <2>2, <2>3, SpentKept DEF IInv
<1> QED
    BY <1>3, <1>4, <1>5, <1>6, <1>7, <1>8, <1>9, <1>10, <1>11, <1>12, <1>13, <1>14, <1>15, <1>16, <1>17, <1>18 DEF IInv

\* main opens its pipe.
LEMMA OpenServerPipeStep ==
    ASSUME IInv, OpenServerPipe
    PROVE  IInv'
<1>1. MessagesConsistent'
    BY DEF IInv, MessagesConsistent, OpenServerPipe
<1>2. TypeOK'
    BY DEF IInv, TypeOK, OpenServerPipe, fileV
<1>3. MainConsistent'
    BY DEF IInv, MainConsistent, OpenServerPipe
<1>4. PipesHeld'
    BY DEF IInv, PipesHeld, OpenServerPipe, fileV
<1>5. RequestsSingle'
    BY DEF IInv, RequestsSingle, Waiting, SentBy, OpenServerPipe
<1>6. RequestUnderWay'
    BY DEF IInv, RequestUnderWay, Waiting, SentBy, Fresh, OpenServerPipe, fileV
<1>7. AnswersConsistent'
    BY DEF IInv, AnswersConsistent, OpenServerPipe
<1>8. AnswerExpected'
    BY DEF IInv, AnswerExpected, OpenServerPipe
<1>9. UnmountsConsistent'
  <2>1. \A d \in Clients : cpc[d] \in {"out", "dead"} => cpc'[d] = cpc[d]
    BY DEF IInv, TypeOK, OpenServerPipe
  <2>2. main = "closed" /\ server_pipe' = server_pipe /\ mounts' = mounts
    BY DEF OpenServerPipe
  <2>3. TypeOK /\ UnmountsConsistent
    BY DEF IInv
  <2> QED
    BY <2>1, <2>2, <2>3, MessageFacts, PipeFacts DEF UnmountsConsistent
<1>10. SessionsReachServer'
    BY DEF IInv, SessionsReachServer, OpenServerPipe
<1>11. MountedHasSession'
    BY DEF IInv, MountedHasSession, OpenServerPipe
<1>12. SessionsKnown'
  <2>1. \A d \in Clients : cpc[d] = "dead" => cpc'[d] = "dead"
    BY DEF IInv, TypeOK, OpenServerPipe
  <2>2. \A p \in sessions : p[1] \in Clients
    BY PipeFacts DEF IInv, TypeOK
  <2> QED
    BY <2>1, <2>2 DEF IInv, SessionsKnown, OpenServerPipe
<1>13. SessionsOwned'
    BY DEF IInv, SessionsOwned, TypeOK, Pipes, OpenServerPipe, fileV
<1>14. SlotsConsistent'
  <2>1. \A d \in Clients :
            /\ cpc[d] \in {"out", "dead"} => cpc'[d] = cpc[d]
            /\ cpc[d] = "reply" => cpc'[d] = "reply"
    BY DEF IInv, TypeOK, OpenServerPipe
  <2>2. UNCHANGED <<up, sessions, coming, leaving, server_pipe, mounts, reply>>
    BY DEF OpenServerPipe
  <2> QED
    BY <2>1, <2>2, SlotsKept DEF IInv
<1>15. SessionsCounted'
    BY DEF IInv, SessionsCounted, OpenServerPipe
<1>16. RequestSpent'
  <2>1. \A d \in Clients : cpc[d] \in {"mkfifo", "open", "dead"} => cpc'[d] = cpc[d]
    BY DEF IInv, TypeOK, OpenServerPipe
  <2>2. UNCHANGED <<name, fcli, sessions, mounts, server_pipe, reading>>
        /\ main = "closed" /\ main' \notin {"answer", "slait_open"}
    BY DEF OpenServerPipe, fileV
  <2> QED
    BY <2>1, <2>2 DEF IInv, RequestSpent, Spent, Waiting, SentBy
<1> QED
    BY <1>1, <1>2, <1>3, <1>4, <1>5, <1>6, <1>7, <1>8, <1>9, <1>10, <1>11, <1>12, <1>13, <1>14, <1>15, <1>16 DEF IInv

\* main reads a mount.
LEMMA ReadMountStep ==
    ASSUME IInv, ReadMount
    PROVE  IInv'
<1>1. server_pipe \in Seq(Messages) /\ server_pipe # <<>> /\ server_pipe' = Tail(server_pipe)
    BY DEF IInv, TypeOK, ReadMount
<1>2. /\ server_pipe' \in Seq(Messages)
      /\ 1 \in DOMAIN server_pipe /\ Head(server_pipe) = server_pipe[1] /\ server_pipe[1] \in Messages
      /\ \A k \in DOMAIN server_pipe' :
            k \in Nat \ {0} /\ k + 1 \in DOMAIN server_pipe /\ server_pipe'[k] = server_pipe[k + 1]
      /\ \A k \in DOMAIN server_pipe :
            k = 1 \/ (k - 1 \in DOMAIN server_pipe' /\ server_pipe'[k - 1] = server_pipe[k])
    BY <1>1, TakenFirst
<1>3. DOMAIN server_pipe \subseteq Nat \ {0}
    BY <1>1, PipePositions
<1>4. PipesHeld' /\ AnswersConsistent' /\ MountedHasSession' /\ SessionsKnown'
    BY DEF IInv, PipesHeld, AnswersConsistent, MountedHasSession, SessionsKnown, ReadMount,
        fileV
<1>5. TypeOK'
    BY <1>2 DEF IInv, TypeOK, Messages, ReadMount, fileV
<1>6. MainConsistent'
    BY <1>2, <1>3 DEF IInv, MainConsistent, MessagesConsistent, ReadMount
<1>7. MessagesConsistent'
    BY <1>2, <1>3 DEF IInv, MessagesConsistent
<1>8. RequestsSingle'
    BY <1>2, <1>3 DEF IInv, RequestsSingle, Waiting, SentBy, ReadMount
<1>9. RequestUnderWay'
  <2>1. ASSUME NEW d \in Clients, NEW k \in DOMAIN server_pipe, SentBy(k, d)
        PROVE  Waiting(d)' \/ \E l \in DOMAIN server_pipe' : SentBy(l, d)'
    <3>1. CASE k = 1
      BY <1>2, <2>1, <3>1 DEF ReadMount, Waiting, SentBy
    <3>2. CASE k # 1
      BY <1>2, <2>1, <3>2 DEF SentBy
    <3> QED
      BY <3>1, <3>2
  <2>2. \A d \in Clients : ~Waiting(d)
    BY DEF ReadMount, Waiting
  <2> QED
    BY <2>1, <2>2 DEF IInv, RequestUnderWay, Fresh, ReadMount, fileV
<1>10. AnswerExpected'
    BY DEF IInv, AnswerExpected, ReadMount
<1>11. UnmountsConsistent'
    BY <1>2, <1>3 DEF IInv, UnmountsConsistent, ReadMount
<1>12. SessionsReachServer'
    BY DEF IInv, SessionsReachServer, ReadMount
<1>13. SessionsOwned'
  <2>1. \A p \in sessions : p # NoPipe
    BY PipeFacts DEF IInv, TypeOK
  <2>2. server_pipe[1].sid = NoPipe
    BY <1>2 DEF IInv, MessagesConsistent, ReadMount
  <2>3. ASSUME NEW p \in sessions, NEW k \in DOMAIN server_pipe, server_pipe[k].sid = p
        PROVE  \E l \in DOMAIN server_pipe' : server_pipe'[l].sid = p
    BY <1>2, <2>1, <2>2, <2>3
  <2> QED
    BY <2>3 DEF IInv, SessionsOwned, ReadMount, fileV
<1>14. SlotsConsistent'
  <2>1. UNCHANGED <<up, sessions, coming, leaving, mounts, cpc, reply>>
    BY DEF ReadMount
  <2>2. ASSUME NEW k \in DOMAIN server_pipe', server_pipe'[k].sid # NoPipe
        PROVE  /\ up => server_pipe'[k].sid \in sessions \ (leaving \cup coming)
               /\ \A l \in DOMAIN server_pipe' : server_pipe'[l].sid = server_pipe'[k].sid => k = l
    <3>1. up => server_pipe'[k].sid \in sessions \ (leaving \cup coming)
      BY <1>2, <2>2 DEF IInv, SlotsConsistent
    <3>2. ASSUME NEW l \in DOMAIN server_pipe', server_pipe'[l].sid = server_pipe'[k].sid
          PROVE  k = l
      <4>1. k + 1 = l + 1
        BY <1>2, <2>2, <3>2 DEF IInv, SlotsConsistent
      <4> QED
        BY <1>2, <4>1
    <3> QED
      BY <3>1, <3>2
  <2>3. \A p \in leaving' :
            p \notin coming' /\ (p[2] = mounts'[p[1]] => cpc'[p[1]] \in {"out", "dead"})
    BY <2>1 DEF IInv, SlotsConsistent
  <2>4. \A p \in coming' : p[2] = mounts'[p[1]] =>
            cpc'[p[1]] = "dead" \/ (cpc'[p[1]] = "reply" /\ reply'[p[1]] = "none")
    BY <2>1 DEF IInv, SlotsConsistent
  <2>5. \A k \in DOMAIN server_pipe' : server_pipe'[k].sid # NoPipe =>
            /\ up' => server_pipe'[k].sid \in sessions' \ (leaving' \cup coming')
            /\ \A l \in DOMAIN server_pipe' : server_pipe'[l].sid = server_pipe'[k].sid => k = l
    BY <2>1, <2>2
  <2> QED
    BY <2>3, <2>4, <2>5 DEF SlotsConsistent
<1>15. SessionsCounted'
    BY DEF IInv, SessionsCounted, ReadMount
<1>16. RequestSpent'
  <2>1. UNCHANGED <<sessions, mounts, reading, cpc, fcli>> /\ main' = "slait_open" /\ main = "read"
        /\ name' = server_pipe[1].name /\ server_pipe[1].op = "MOUNT"
    BY <1>2 DEF ReadMount, fileV
  <2>2. \A d \in Clients : Waiting(d)' => SentBy(1, d)
    BY <2>1 DEF Waiting, SentBy
  <2>3. \A d \in Clients : \A k \in DOMAIN server_pipe' : SentBy(k, d)' => SentBy(k + 1, d)
    BY <1>2 DEF SentBy
  <2>4. SUFFICES ASSUME NEW d \in Clients, NEW m \in reading[d] \ {mounts[d]}, Spent(d, m)'
                 PROVE  /\ cpc[d] \in {"mkfifo", "open", "dead"} /\ ~Waiting(d)'
                        /\ \A k \in DOMAIN server_pipe' : ~SentBy(k, d)'
    BY <2>1 DEF RequestSpent
  <2>5. Spent(d, m)
    BY <2>1, <2>4 DEF Spent
  <2>6. cpc[d] \in {"mkfifo", "open", "dead"} /\ \A k \in DOMAIN server_pipe : ~SentBy(k, d)
    BY <2>4, <2>5 DEF IInv, RequestSpent
  <2> QED
    BY <1>2, <2>2, <2>3, <2>6
<1> QED
    BY <1>4, <1>5, <1>6, <1>7, <1>8, <1>9, <1>10, <1>11, <1>12, <1>13, <1>14, <1>15, <1>16 DEF IInv

\* main reads an unmount, and posts it if it is for a session.
LEMMA ReadUnmountStep ==
    ASSUME IInv, ReadUnmount
    PROVE  IInv'
<1>1. server_pipe \in Seq(Messages) /\ server_pipe # <<>> /\ server_pipe' = Tail(server_pipe)
    BY DEF IInv, TypeOK, ReadUnmount
<1>2. /\ server_pipe' \in Seq(Messages)
      /\ 1 \in DOMAIN server_pipe /\ Head(server_pipe) = server_pipe[1] /\ server_pipe[1] \in Messages
      /\ \A k \in DOMAIN server_pipe' :
            k \in Nat \ {0} /\ k + 1 \in DOMAIN server_pipe /\ server_pipe'[k] = server_pipe[k + 1]
      /\ \A k \in DOMAIN server_pipe :
            k = 1 \/ (k - 1 \in DOMAIN server_pipe' /\ server_pipe'[k - 1] = server_pipe[k])
    BY <1>1, TakenFirst
<1>3. DOMAIN server_pipe \subseteq Nat \ {0}
    BY <1>1, PipePositions
<1> DEFINE p == server_pipe[1].sid
<1>4. /\ up /\ main = "read" /\ server_pipe[1].op = "UNMOUNT" /\ p \in Pipes \cup {NoPipe}
      /\ UNCHANGED <<up, sigint, name, fcli, open_sessions, sessions, coming, global_mutex, cpc,
                     fserv, path, reading, reply, sid, mounts, crashes>>
      /\ main' \in {"read", "unmount_count"}
    BY <1>2 DEF ReadUnmount, Running, Messages, fileV
<1>5. p # NoPipe => /\ p \in sessions \ (leaving \cup coming)
                    /\ p[2] = mounts[p[1]] => cpc[p[1]] \in {"out", "dead"}
                    /\ \A k \in DOMAIN server_pipe' : server_pipe'[k].sid # p
    BY <1>2, <1>3, <1>4 DEF IInv, SlotsConsistent, UnmountsConsistent
<1>6. p # NoPipe => /\ open_sessions = Cardinality(sessions \ (leaving \cup {p})) + 1
                    /\ open_sessions # 0
  <2> SUFFICES ASSUME p # NoPipe
               PROVE  /\ open_sessions = Cardinality(sessions \ (leaving \cup {p})) + 1
                      /\ open_sessions # 0
    OBVIOUS
  <2> DEFINE rest == sessions \ (leaving \cup {p})
  <2>1. IsFiniteSet(rest)
    BY PipesFinite, FS_Subset DEF IInv, TypeOK
  <2>2. p \notin rest /\ sessions \ leaving = rest \cup {p}
    BY <1>5
  <2>3. Cardinality(sessions \ leaving) = Cardinality(rest) + 1
    BY <2>1, <2>2, FS_AddElement
  <2>4. PICK n \in Nat : n = Cardinality(rest)
    BY <2>1, FS_CardinalityType
  <2>5. open_sessions = (n + 1) + 0
    BY <1>4, <2>3, <2>4 DEF IInv, SessionsCounted
  <2>6. open_sessions = n + 1 /\ open_sessions # 0
    BY <2>5
  <2> QED
    BY <2>4, <2>6
<1>7. IF p = NoPipe
      THEN main' = "read" /\ leaving' = leaving
      ELSE main' = "unmount_count" /\ leaving' = leaving \cup {p}
    BY <1>2, <1>4, <1>6 DEF ReadUnmount
<1> HIDE DEF p
<1>8. PipesHeld'
    BY <1>4 DEF IInv, PipesHeld
<1>9. AnswerExpected'
    BY <1>4 DEF IInv, AnswerExpected
<1>10. SessionsReachServer'
    BY <1>4 DEF IInv, SessionsReachServer
<1>11. TypeOK'
  <2>1. leaving' \subseteq sessions'
    BY <1>4, <1>5, <1>7 DEF IInv, TypeOK
  <2> QED
    BY <1>2, <1>4, <2>1 DEF IInv, TypeOK
<1>12. MainConsistent'
    BY <1>4 DEF IInv, MainConsistent
<1>13. MessagesConsistent'
    BY <1>2, <1>3 DEF IInv, MessagesConsistent
<1>14. RequestsSingle'
    BY <1>2, <1>3, <1>4 DEF IInv, RequestsSingle, Waiting, SentBy
<1>15. RequestUnderWay'
  <2>1. ASSUME NEW d \in Clients, NEW k \in DOMAIN server_pipe, SentBy(k, d)
        PROVE  \E l \in DOMAIN server_pipe' : SentBy(l, d)'
    BY <1>2, <1>4, <2>1 DEF SentBy
  <2> QED
    BY <1>4, <2>1 DEF IInv, RequestUnderWay, Waiting, Fresh
<1>16. \A d \in Clients : cpc[d] \in {"reply", "in"} => p # <<d, mounts[d]>>
    BY <1>2, NotUnmounted DEF IInv, p
<1>17. AnswersConsistent'
    BY <1>4, <1>7, <1>16 DEF IInv, AnswersConsistent
<1>18. UnmountsConsistent'
    BY <1>2, <1>3, <1>4 DEF IInv, UnmountsConsistent
<1>19. MountedHasSession'
    BY <1>4, <1>7, <1>16 DEF IInv, MountedHasSession
<1>20. SessionsKnown'
    BY <1>4 DEF IInv, SessionsKnown
<1>21. SessionsOwned'
  <2>1. ASSUME NEW q \in sessions, NEW k \in DOMAIN server_pipe, server_pipe[k].sid = q
        PROVE  q \in leaving' \/ \E l \in DOMAIN server_pipe' : server_pipe'[l].sid = q
    <3>1. CASE k = 1
      <4>1. q = p /\ q # NoPipe
        BY <2>1, <3>1, PipeFacts DEF IInv, TypeOK, p
      <4> QED
        BY <1>7, <4>1
    <3>2. CASE k # 1
      BY <1>2, <2>1, <3>2
    <3> QED
      BY <3>1, <3>2
  <2>2. leaving \subseteq leaving'
    BY <1>7
  <2> QED
    BY <1>4, <2>1, <2>2 DEF IInv, SessionsOwned
<1>22. SlotsConsistent'
  <2>1. ASSUME NEW k \in DOMAIN server_pipe', server_pipe'[k].sid # NoPipe
        PROVE  /\ server_pipe'[k].sid \in sessions \ (leaving' \cup coming)
               /\ \A l \in DOMAIN server_pipe' : server_pipe'[l].sid = server_pipe'[k].sid => k = l
    <3>1. server_pipe'[k].sid \in sessions \ (leaving \cup coming)
      BY <1>2, <1>4, <2>1 DEF IInv, SlotsConsistent
    <3>2. server_pipe'[k].sid \in sessions \ (leaving' \cup coming)
      BY <1>5, <1>7, <3>1
    <3>3. ASSUME NEW l \in DOMAIN server_pipe', server_pipe'[l].sid = server_pipe'[k].sid
          PROVE  k = l
      <4>1. k + 1 = l + 1
        BY <1>2, <2>1, <3>3 DEF IInv, SlotsConsistent
      <4> QED
        BY <1>2, <4>1
    <3> QED
      BY <3>2, <3>3
  <2>2. \A q \in leaving' : q \notin coming /\ (q[2] = mounts[q[1]] => cpc[q[1]] \in {"out", "dead"})
    BY <1>5, <1>7 DEF IInv, SlotsConsistent
  <2> QED
    BY <1>4, <2>1, <2>2 DEF IInv, SlotsConsistent
<1>23. SessionsCounted'
  <2>1. CASE p = NoPipe
    BY <1>4, <1>7, <2>1 DEF IInv, SessionsCounted
  <2>2. CASE p # NoPipe
    BY <1>4, <1>6, <1>7, <2>2 DEF SessionsCounted
  <2> QED
    BY <2>1, <2>2
<1>24. RequestSpent'
  <2>1. \A d \in Clients : \A k \in DOMAIN server_pipe' : SentBy(k, d)' => SentBy(k + 1, d)
    BY <1>2 DEF SentBy
  <2> QED
    BY <1>2, <1>4, <2>1 DEF IInv, RequestSpent, Spent, Waiting
<1> QED
    BY <1>8, <1>9, <1>10, <1>11, <1>12, <1>13, <1>14, <1>15, <1>17, <1>18, <1>19, <1>20, <1>21, <1>22,
       <1>23, <1>24 DEF IInv

\* main counts the unmount.
LEMMA UnmountCountStep ==
    ASSUME IInv, UnmountCount
    PROVE  IInv'
<1>1. /\ up /\ main = "unmount_count" /\ main' = "read" /\ open_sessions' = open_sessions - 1
      /\ UNCHANGED <<up, sigint, name, fcli, sessions, coming, leaving, global_mutex, server_pipe,
                     cpc, fserv, path, reading, reply, sid, mounts, crashes>>
    BY DEF UnmountCount, Running, fileV
<1>2. SessionsCounted'
    <2>1. Cardinality(sessions \ leaving) \in Nat
      BY PipesFinite, FS_Subset, FS_CardinalityType DEF IInv, TypeOK
    <2> QED
      BY <1>1, <2>1 DEF IInv, SessionsCounted
<1>3. TypeOK'
  <2>1. Cardinality(sessions \ leaving) \in Nat
    BY PipesFinite, FS_Subset, FS_CardinalityType DEF IInv, TypeOK
  <2>2. open_sessions' \in 0 .. S
    BY <1>1, <2>1 DEF IInv, TypeOK, SessionsCounted
  <2> QED
    BY <1>1, <2>2 DEF IInv, TypeOK
<1>4. MessagesConsistent' /\ PipesHeld' /\ AnswersConsistent' /\ MountedHasSession'
      /\ SessionsKnown' /\ SessionsOwned' /\ SlotsConsistent'
    BY <1>1 DEF IInv, MessagesConsistent, PipesHeld, AnswersConsistent, MountedHasSession,
        SessionsKnown, SessionsOwned, SlotsConsistent
<1>5. MainConsistent' /\ AnswerExpected' /\ UnmountsConsistent' /\ SessionsReachServer'
    BY <1>1 DEF IInv, MainConsistent, AnswerExpected, UnmountsConsistent, SessionsReachServer
<1>6. RequestsSingle' /\ RequestUnderWay' /\ RequestSpent'
    BY <1>1 DEF IInv, RequestsSingle, RequestUnderWay, RequestSpent, Spent, Waiting, SentBy, Fresh
<1> QED
    BY <1>2, <1>3, <1>4, <1>5, <1>6 DEF IInv

\* main reads end of file: nobody has the pipe open.
LEMMA EofStep ==
    ASSUME IInv, Eof
    PROVE  IInv'
<1>1. MessagesConsistent' /\ PipesHeld' /\ AnswersConsistent' /\ MountedHasSession'
      /\ SessionsKnown' /\ SessionsOwned'
    BY DEF IInv, MessagesConsistent, PipesHeld, AnswersConsistent, MountedHasSession,
        SessionsKnown, SessionsOwned, Eof, fileV
<1>2. TypeOK'
    BY DEF IInv, TypeOK, Eof, fileV
<1>3. MainConsistent'
    BY DEF IInv, MainConsistent, Eof
<1>4. RequestsSingle'
    BY DEF IInv, RequestsSingle, Waiting, Eof
<1>5. RequestUnderWay'
    BY DEF IInv, RequestUnderWay, Waiting, Fresh, Eof, fileV
<1>6. AnswerExpected'
    BY DEF IInv, AnswerExpected, Eof
<1>7. UnmountsConsistent'
    BY DEF IInv, UnmountsConsistent, Eof
<1>8. SessionsReachServer'
    BY DEF IInv, SessionsReachServer, PipesHeld, Eof, HasWriter
<1>9. SlotsConsistent'
    BY DEF IInv, SlotsConsistent, Eof
<1>10. SessionsCounted'
    BY DEF IInv, SessionsCounted, Eof
<1>11. RequestSpent'
    BY DEF IInv, RequestSpent, Spent, Waiting, SentBy, Eof, fileV
<1> QED
    BY <1>1, <1>2, <1>3, <1>4, <1>5, <1>6, <1>7, <1>8, <1>9, <1>10, <1>11 DEF IInv

\* main closes its pipe, to open it again.
LEMMA CloseServerPipeStep ==
    ASSUME IInv, CloseServerPipe
    PROVE  IInv'
<1>1. server_pipe' = server_pipe \/ (server_pipe' = <<>> /\ DOMAIN server_pipe' = {})
    BY DEF CloseServerPipe, Running, Kept, HasWriter
<1>2. server_pipe' \in Seq(Messages)
  <2>1. server_pipe \in Seq(Messages) /\ <<>> \in Seq(Messages)
    BY EmptySeq DEF IInv, TypeOK
  <2> QED
    BY <1>1, <2>1
<1>3. PipesHeld' /\ AnswersConsistent' /\ MountedHasSession' /\ SessionsKnown'
    BY DEF IInv, PipesHeld, AnswersConsistent, MountedHasSession, SessionsKnown,
        CloseServerPipe, fileV
<1>4. TypeOK'
    BY <1>2 DEF IInv, TypeOK, CloseServerPipe, fileV
<1>5. MainConsistent'
    BY DEF IInv, MainConsistent, CloseServerPipe
<1>6. MessagesConsistent'
    BY <1>1 DEF IInv, MessagesConsistent
<1>7. RequestsSingle'
    BY <1>1 DEF IInv, RequestsSingle, Waiting, SentBy, CloseServerPipe, Kept
<1>8. RequestUnderWay'
    BY <1>1 DEF IInv, RequestUnderWay, PipesHeld, Waiting, SentBy, Fresh, CloseServerPipe, Kept,
        HasWriter, fileV
<1>9. AnswerExpected'
    BY DEF IInv, AnswerExpected, CloseServerPipe
<1>10. UnmountsConsistent'
    BY <1>1 DEF IInv, UnmountsConsistent, CloseServerPipe
<1>11. SessionsReachServer'
    BY DEF IInv, SessionsReachServer, CloseServerPipe
<1>12. SessionsOwned'
  <2>1. \A p \in sessions : p # NoPipe
    BY PipeFacts DEF IInv, TypeOK
  <2>2. ASSUME NEW p \in sessions, NEW k \in DOMAIN server_pipe, server_pipe[k].sid = p
        PROVE  FALSE
    <3>1. server_pipe[k].op = "UNMOUNT"
      BY <2>1, <2>2, MessageFacts DEF IInv, MessagesConsistent
    <3> QED
      BY <3>1 DEF IInv, UnmountsConsistent, CloseServerPipe
  <2> QED
    BY <2>2 DEF IInv, SessionsOwned, CloseServerPipe, fileV
<1>13. SlotsConsistent'
  <2>1. UNCHANGED <<up, sessions, coming, leaving, mounts, cpc, reply>>
    BY DEF CloseServerPipe
  <2> QED
    BY <1>1, <2>1 DEF IInv, SlotsConsistent
<1>14. SessionsCounted'
    BY DEF IInv, SessionsCounted, CloseServerPipe
<1>15. RequestSpent'
  <2>1. UNCHANGED <<sessions, mounts, reading, cpc, name, fcli>> /\ main' = "closed"
    BY DEF CloseServerPipe, fileV
  <2>2. \A d \in Clients : \A k \in DOMAIN server_pipe' : SentBy(k, d)' => SentBy(k, d) /\ k \in DOMAIN server_pipe
    BY <1>1 DEF SentBy
  <2>3. \A d \in Clients, m \in Int : Spent(d, m)' => Spent(d, m)
    BY <2>1 DEF Spent
  <2>4. \A d \in Clients : reading[d] \subseteq Int
    BY DEF IInv, TypeOK
  <2> QED
    BY <2>1, <2>2, <2>3, <2>4 DEF IInv, RequestSpent, Waiting
<1> QED
    BY <1>3, <1>4, <1>5, <1>6, <1>7, <1>8, <1>9, <1>10, <1>11, <1>12, <1>13, <1>14, <1>15 DEF IInv

\* main opens the pipe of a client.
LEMMA SlaitOpenStep ==
    ASSUME IInv, SlaitOpen
    PROVE  IInv'
<1>1. MessagesConsistent'
    BY DEF IInv, MessagesConsistent, SlaitOpen
<1>2. TypeOK'
    BY DEF IInv, TypeOK, MainConsistent, Pipes, SlaitOpen, fileV
<1>3. MainConsistent'
  <2>1. name \in Clients /\ path[name] \in 1 .. MaxMounts
    BY DEF IInv, TypeOK, MainConsistent, SlaitOpen
  <2>2. fcli' \in Pipes
    BY <2>1, PipeFacts DEF SlaitOpen
  <2> QED
    BY <2>2 DEF IInv, MainConsistent, SlaitOpen, Running
<1>4. PipesHeld'
    BY DEF IInv, PipesHeld, SlaitOpen, fileV
<1>5. RequestsSingle'
    BY DEF IInv, RequestsSingle, Waiting, SentBy, SlaitOpen
<1>6. RequestUnderWay'
  <2>1. name \in Clients
    BY DEF IInv, MainConsistent, SlaitOpen
  <2>2. \A d \in Clients : cpc'[d] \in {"mkfifo", "open"} => cpc'[d] = cpc[d]
    BY DEF IInv, TypeOK, SlaitOpen
  <2>3. Fresh(name) => cpc'[name] = "reply"
    BY <2>1 DEF IInv, TypeOK, Fresh, SlaitOpen
  <2>4. \A d \in Clients : Waiting(d) => d = name
    BY DEF Waiting
  <2> QED
    BY <2>2, <2>3, <2>4 DEF IInv, RequestUnderWay, Fresh, SentBy, SlaitOpen, fileV
<1>7. AnswersConsistent'
    BY DEF IInv, AnswersConsistent, RequestsSingle, PipesHeld, Waiting, SlaitOpen
<1>8. AnswerExpected'
  <2>1. /\ name \in Clients /\ path[name] <= mounts[name] /\ path[name] \in reading[name]
        /\ fcli' = <<name, path[name]>> /\ up /\ Waiting(name)
        /\ UNCHANGED <<mounts, reply, reading, sessions>>
    BY DEF IInv, MainConsistent, PipesHeld, Waiting, SlaitOpen, Running, fileV
  <2>2. fcli'[1] = name /\ fcli'[2] = path[name]
    BY <2>1
  <2>3. ASSUME path[name] = mounts[name] PROVE cpc'[name] = "reply" /\ reply[name] = "none"
    <3>1. cpc[name] = "open"
        BY <2>1, <2>3 DEF IInv, RequestsSingle, PipesHeld
    <3> QED
        BY <2>1, <2>3, <3>1 DEF IInv, AnswersConsistent, TypeOK, SlaitOpen
  <2>4. <<name, path[name]>> \notin sessions
    <3>1. CASE path[name] = mounts[name]
      <4>1. cpc[name] = "open"
        BY <2>1, <3>1 DEF IInv, RequestsSingle, PipesHeld
      <4> QED
        BY <2>1, <3>1, <4>1, NoSessionLeft
    <3>2. CASE path[name] # mounts[name]
      BY <2>1, <3>2 DEF IInv, RequestSpent, Spent
    <3> QED
      BY <3>1, <3>2
  <2> QED
    BY <2>1, <2>2, <2>3, <2>4 DEF AnswerExpected
<1>9. UnmountsConsistent'
  <2>1. \A d \in Clients : cpc[d] \in {"out", "dead"} => cpc'[d] = cpc[d]
    BY DEF IInv, TypeOK, PipesHeld, SlaitOpen
  <2>2. main' = "answer" /\ server_pipe' = server_pipe /\ mounts' = mounts
    BY DEF SlaitOpen
  <2>3. TypeOK /\ UnmountsConsistent
    BY DEF IInv
  <2> QED
    BY <2>1, <2>2, <2>3, MessageFacts, PipeFacts DEF UnmountsConsistent
<1>10. SessionsReachServer'
    BY DEF IInv, SessionsReachServer, SlaitOpen
<1>11. MountedHasSession'
    BY DEF IInv, MountedHasSession, SlaitOpen
<1>12. SessionsKnown'
  <2>1. \A d \in Clients : cpc[d] = "dead" => cpc'[d] = "dead"
    BY DEF IInv, TypeOK, PipesHeld, SlaitOpen
  <2>2. \A p \in sessions : p[1] \in Clients
    BY PipeFacts DEF IInv, TypeOK
  <2> QED
    BY <2>1, <2>2 DEF IInv, SessionsKnown, SlaitOpen
<1>13. SessionsOwned'
  <2>1. \A d \in Clients : cpc[d] \in {"reply", "in", "dead"} => cpc'[d] = cpc[d]
    BY DEF IInv, PipesHeld, RequestsSingle, Waiting, SlaitOpen
  <2>2. \A p \in sessions : p[1] \in Clients
    BY PipeFacts DEF IInv, TypeOK
  <2> QED
    BY <2>1, <2>2 DEF IInv, SessionsOwned, SlaitOpen, fileV
<1>14. SlotsConsistent'
  <2>1. name \in Clients /\ (path[name] = mounts[name] => cpc[name] = "open")
    BY DEF IInv, MainConsistent, RequestsSingle, PipesHeld, Waiting, SlaitOpen
  <2>2. \A d \in Clients :
            /\ cpc[d] \in {"out", "dead"} => cpc'[d] = cpc[d]
            /\ cpc[d] = "reply" => cpc'[d] = "reply"
    BY <2>1 DEF IInv, TypeOK, SlaitOpen
  <2>3. UNCHANGED <<up, sessions, coming, leaving, server_pipe, mounts, reply>>
    BY DEF SlaitOpen
  <2> QED
    BY <2>2, <2>3, SlotsKept DEF IInv
<1>15. SessionsCounted'
    BY DEF IInv, SessionsCounted, SlaitOpen
<1>16. RequestSpent'
  <2>1. name \in Clients /\ Waiting(name) /\ path[name] \in reading[name]
    BY DEF IInv, MainConsistent, SlaitOpen, Waiting
  <2>2. cpc[name] \in {"mkfifo", "open", "dead"} /\ \A k \in DOMAIN server_pipe : ~SentBy(k, name)
    BY <2>1 DEF IInv, RequestsSingle
  <2>3. /\ UNCHANGED <<sessions, mounts, reading, server_pipe>> /\ main = "slait_open" /\ main' = "answer"
        /\ fcli' = <<name, path[name]>>
    BY DEF SlaitOpen, fileV
  <2>4. \A d \in Clients : cpc'[d] = cpc[d] \/ (d = name /\ path[name] = mounts[name])
    BY DEF IInv, TypeOK, SlaitOpen
  <2>5. ASSUME NEW d \in Clients, NEW m \in reading[d] \ {mounts[d]}, Spent(d, m)'
        PROVE  /\ cpc'[d] \in {"mkfifo", "open", "dead"} /\ ~Waiting(d)'
               /\ \A k \in DOMAIN server_pipe : ~SentBy(k, d)
    <3>1. CASE <<d, m>> \in sessions
      BY <2>1, <2>3, <2>4, <3>1 DEF IInv, RequestSpent, Spent, Waiting
    <3>2. CASE d = name /\ m = path[name]
      BY <2>2, <2>3, <2>4, <3>2 DEF Waiting
    <3> QED
      BY <2>3, <2>5, <3>1, <3>2 DEF Spent
  <2> QED
    BY <2>3, <2>5 DEF RequestSpent, SentBy
<1> QED
    BY <1>1, <1>2, <1>3, <1>4, <1>5, <1>6, <1>7, <1>8, <1>9, <1>10, <1>11, <1>12, <1>13, <1>14, <1>15, <1>16 DEF IInv

\* main takes a slot for the client and counts it.
LEMMA AcceptStep ==
    ASSUME IInv, Accept
    PROVE  IInv'
<1>1. /\ up /\ main = "answer" /\ main' = "read"
      /\ sessions' = sessions \cup {fcli} /\ coming' = coming \cup {fcli}
      /\ open_sessions # S /\ open_sessions' = open_sessions + 1
      /\ UNCHANGED <<up, sigint, name, fcli, leaving, global_mutex, server_pipe,
                     cpc, fserv, path, reading, reply, sid, mounts, crashes>>
    BY DEF Accept, Running, fileV
<1>2. /\ fcli \in Pipes /\ fcli[1] \in Clients /\ fcli \notin sessions /\ fcli # NoPipe
      /\ fcli = <<fcli[1], fcli[2]>> /\ fcli[2] <= mounts[fcli[1]]
      /\ \/ fcli[2] = mounts[fcli[1]] /\ cpc[fcli[1]] = "reply" /\ reply[fcli[1]] = "none"
         \/ cpc[fcli[1]] = "dead"
         \/ fcli[2] \in reading[fcli[1]] \ {mounts[fcli[1]]}
    BY <1>1, PipeFacts DEF IInv, MainConsistent, AnswerExpected
<1>3. TypeOK'
  <2>1. open_sessions + 1 \in 0 .. S
    BY <1>1 DEF IInv, TypeOK
  <2>2. coming' \subseteq sessions' /\ leaving' \subseteq sessions' /\ sessions' \subseteq Pipes
    BY <1>1, <1>2 DEF IInv, TypeOK
  <2> QED
    BY <1>1, <2>1, <2>2 DEF IInv, TypeOK
<1>4. MainConsistent' /\ MessagesConsistent' /\ PipesHeld' /\ AnswerExpected'
    BY <1>1 DEF IInv, MainConsistent, MessagesConsistent, PipesHeld, AnswerExpected
<1>5. RequestsSingle' /\ RequestUnderWay'
    BY <1>1 DEF IInv, RequestsSingle, RequestUnderWay, Waiting, SentBy, Fresh
<1>6. AnswersConsistent' /\ MountedHasSession'
    BY <1>1 DEF IInv, AnswersConsistent, MountedHasSession
<1>7. UnmountsConsistent' /\ SessionsReachServer'
    BY <1>1 DEF IInv, UnmountsConsistent, SessionsReachServer
<1>8. SessionsKnown'
    BY <1>1, <1>2 DEF IInv, SessionsKnown
<1>9. SessionsOwned'
    BY <1>1, <1>2 DEF IInv, SessionsOwned
<1>10. SlotsConsistent'
  <2>1. \A k \in DOMAIN server_pipe : server_pipe[k].sid # fcli
    BY <1>1, <1>2 DEF IInv, SlotsConsistent
  <2>2. fcli \notin leaving
    BY <1>2 DEF IInv, TypeOK
  <2> QED
    BY <1>1, <1>2, <2>1, <2>2 DEF IInv, SlotsConsistent
<1>11. SessionsCounted'
  <2>1. fcli \notin sessions \ leaving /\ sessions' \ leaving' = (sessions \ leaving) \cup {fcli}
    BY <1>1, <1>2 DEF IInv, TypeOK
  <2>2. IsFiniteSet(sessions \ leaving)
    BY PipesFinite, FS_Subset DEF IInv, TypeOK
  <2>3. Cardinality(sessions' \ leaving') = Cardinality(sessions \ leaving) + 1
    BY <2>1, <2>2, FS_AddElement
  <2>4. Cardinality(sessions \ leaving) \in Nat
    BY <2>2, FS_CardinalityType
  <2>5. open_sessions = Cardinality(sessions \ leaving)
    BY <1>1, <2>4 DEF IInv, SessionsCounted
  <2> QED
    BY <1>1, <2>3, <2>4, <2>5 DEF SessionsCounted
<1>12. RequestSpent'
  <2>1. \A d \in Clients, m \in Nat : Spent(d, m)' => Spent(d, m)
    BY <1>1 DEF Spent
  <2>2. \A d \in Clients : reading[d] \subseteq Nat
    BY DEF IInv, TypeOK
  <2> QED
    BY <1>1, <2>1, <2>2 DEF IInv, RequestSpent, Waiting, SentBy
<1> QED
    BY <1>3, <1>4, <1>5, <1>6, <1>7, <1>8, <1>9, <1>10, <1>11, <1>12 DEF IInv

\* main refuses the client a session, at the limit or for want of a slot.
LEMMA RejectStep ==
    ASSUME IInv, Reject \/ NoFreePos
    PROVE  IInv'
<1>1. /\ up /\ main = "answer" /\ main' = "read" /\ Answer(fcli, "no")
      /\ global_mutex' \in {"free", "kept"}
      /\ UNCHANGED <<up, sigint, name, fcli, open_sessions, sessions, coming, leaving, server_pipe,
                     cpc, fserv, path, reading, sid, mounts, crashes>>
    BY DEF IInv, TypeOK, Reject, NoFreePos, Running, fileV
<1>2. fcli \notin sessions
    BY <1>1 DEF IInv, AnswerExpected
<1>3. \A d \in Clients : reply'[d] = reply[d] \/ (fcli = <<d, mounts[d]>> /\ cpc[d] = "reply" /\ reply'[d] = "no")
    BY <1>1 DEF IInv, TypeOK, Answer
<1>4. \A d \in Clients : reply[d] = "yes" => reply'[d] = "yes"
  <2>1. ASSUME NEW d \in Clients, fcli = <<d, mounts[d]>>, cpc[d] = "reply"
        PROVE  reply[d] = "none"
    BY <1>1, <2>1 DEF IInv, AnswerExpected
  <2> QED
    BY <1>3, <2>1
<1>5. \A p \in sessions : p[1] \in Clients /\ p = <<p[1], p[2]>>
    BY PipeFacts DEF IInv, TypeOK
<1>6. TypeOK'
  <2>1. reply' \in [Clients -> {"none", "yes", "no"}]
    BY <1>1 DEF IInv, TypeOK, Answer
  <2> QED
    BY <1>1, <2>1 DEF IInv, TypeOK
<1>7. MessagesConsistent' /\ PipesHeld' /\ MountedHasSession' /\ SessionsOwned'
    BY <1>1 DEF IInv, MessagesConsistent, PipesHeld, MountedHasSession, SessionsOwned
<1>8. MainConsistent' /\ AnswerExpected' /\ UnmountsConsistent' /\ SessionsReachServer'
    BY <1>1 DEF IInv, MainConsistent, AnswerExpected, UnmountsConsistent, SessionsReachServer
<1>9. RequestsSingle' /\ RequestUnderWay'
    BY <1>1 DEF IInv, RequestsSingle, RequestUnderWay, Waiting, SentBy, Fresh
<1>10. AnswersConsistent'
    BY <1>1, <1>3 DEF IInv, AnswersConsistent
<1>11. SessionsKnown'
    BY <1>1, <1>4, <1>5 DEF IInv, SessionsKnown
<1>12. SlotsConsistent'
  <2>1. ASSUME NEW p \in coming, p[2] = mounts[p[1]] PROVE reply'[p[1]] = reply[p[1]]
    <3>1. p \in sessions
      BY DEF IInv, TypeOK
    <3>2. p # fcli
      BY <1>2, <3>1
    <3> QED
      BY <1>3, <1>5, <2>1, <3>1, <3>2
  <2> QED
    BY <1>1, <2>1 DEF IInv, SlotsConsistent
<1>13. SessionsCounted'
    BY <1>1 DEF IInv, SessionsCounted
<1>14. RequestSpent'
  <2>1. \A d \in Clients, m \in Nat : Spent(d, m)' => Spent(d, m)
    BY <1>1 DEF Spent
  <2>2. \A d \in Clients : reading[d] \subseteq Nat
    BY DEF IInv, TypeOK
  <2> QED
    BY <1>1, <2>1, <2>2 DEF IInv, RequestSpent, Waiting, SentBy
<1> QED
    BY <1>6, <1>7, <1>8, <1>9, <1>10, <1>11, <1>12, <1>13, <1>14 DEF IInv

\* A worker answers a mount.
LEMMA ThreadMountStep ==
    ASSUME IInv, NEW p \in Pipes, ThreadMount(p)
    PROVE  IInv'
<1>1. /\ up /\ p \in coming /\ coming' = coming \ {p} /\ Answer(p, "yes")
      /\ UNCHANGED <<up, sigint, main, name, fcli, open_sessions, sessions, leaving, global_mutex,
                     server_pipe, cpc, fserv, path, reading, sid, mounts, crashes>>
    BY DEF ThreadMount, fileV
<1>2. p \in sessions /\ p \notin leaving
    BY <1>1 DEF IInv, TypeOK, SlotsConsistent
<1>3. \A d \in Clients : reply'[d] = reply[d] \/ (p = <<d, mounts[d]>> /\ cpc[d] = "reply" /\ reply'[d] = "yes")
    BY <1>1 DEF IInv, TypeOK, Answer
<1>4. /\ p[1] \in Clients /\ p = <<p[1], p[2]>>
      /\ \A q \in sessions : q[1] \in Clients /\ q = <<q[1], q[2]>>
    BY PipeFacts DEF IInv, TypeOK
<1>5. TypeOK'
  <2>1. reply' \in [Clients -> {"none", "yes", "no"}]
    BY <1>1 DEF IInv, TypeOK, Answer
  <2> QED
    BY <1>1, <2>1 DEF IInv, TypeOK
<1>6. MainConsistent' /\ MessagesConsistent' /\ PipesHeld' /\ MountedHasSession' /\ SessionsOwned'
    BY <1>1 DEF IInv, MainConsistent, MessagesConsistent, PipesHeld, MountedHasSession, SessionsOwned
<1>7. UnmountsConsistent' /\ SessionsReachServer' /\ SessionsCounted'
    BY <1>1 DEF IInv, UnmountsConsistent, SessionsReachServer, SessionsCounted
<1>8. RequestsSingle' /\ RequestUnderWay' /\ RequestSpent'
    BY <1>1 DEF IInv, RequestsSingle, RequestUnderWay, RequestSpent, Spent, Waiting, SentBy, Fresh
<1>9. AnswersConsistent'
    BY <1>1, <1>2, <1>3 DEF IInv, AnswersConsistent
<1>10. AnswerExpected'
  <2>1. CASE main = "answer"
    <3>1. fcli \notin sessions /\ fcli # p /\ fcli[1] \in Clients /\ fcli = <<fcli[1], fcli[2]>>
      BY <1>2, <2>1, PipeFacts DEF IInv, AnswerExpected, MainConsistent
    <3>2. fcli[2] = mounts[fcli[1]] => reply'[fcli[1]] = reply[fcli[1]]
      BY <1>3, <3>1
    <3> QED
      BY <1>1, <2>1, <3>2 DEF IInv, AnswerExpected
  <2>2. CASE main # "answer"
    BY <1>1, <2>2 DEF AnswerExpected
  <2> QED
    BY <2>1, <2>2
<1>11. SessionsKnown'
  <2>1. p[2] = mounts[p[1]] => reply'[p[1]] = "yes" \/ cpc[p[1]] = "dead"
    <3>1. p[2] = mounts[p[1]] => cpc[p[1]] \in {"reply", "dead"}
      BY <1>1 DEF IInv, SlotsConsistent
    <3>2. p[2] = mounts[p[1]] => p = <<p[1], mounts[p[1]]>>
      BY <1>4
    <3> QED
      BY <1>1, <1>4, <3>1, <3>2 DEF Answer
  <2>2. \A d \in Clients : reply[d] = "yes" => reply'[d] = "yes"
    BY <1>3
  <2> QED
    BY <1>1, <1>4, <2>1, <2>2 DEF IInv, SessionsKnown
<1>12. SlotsConsistent'
  <2>1. ASSUME NEW q \in coming', q[2] = mounts[q[1]] PROVE reply'[q[1]] = reply[q[1]]
    <3>1. q \in sessions /\ q # p
      BY <1>1 DEF IInv, TypeOK
    <3> QED
      BY <1>3, <1>4, <2>1, <3>1
  <2> QED
    BY <1>1, <2>1 DEF IInv, SlotsConsistent
<1> QED
    BY <1>5, <1>6, <1>7, <1>8, <1>9, <1>10, <1>11, <1>12 DEF IInv

\* A worker frees the slot of a session.
LEMMA ThreadUnmountStep ==
    ASSUME IInv, NEW p \in Pipes, ThreadUnmount(p)
    PROVE  IInv'
<1>1. /\ up /\ p \in leaving /\ leaving' = leaving \ {p} /\ sessions' = sessions \ {p}
      /\ UNCHANGED <<up, sigint, main, name, fcli, open_sessions, coming, global_mutex,
                     server_pipe, cpc, fserv, path, reading, reply, sid, mounts, crashes>>
    BY DEF ThreadUnmount, fileV
<1>2. sessions' \ leaving' = sessions \ leaving /\ p \notin coming
    BY <1>1 DEF IInv, SlotsConsistent
<1>3. TypeOK'
    BY <1>1, <1>2 DEF IInv, TypeOK
<1>4. MainConsistent' /\ MessagesConsistent' /\ PipesHeld' /\ AnswerExpected'
    BY <1>1 DEF IInv, MainConsistent, MessagesConsistent, PipesHeld, AnswerExpected
<1>5. RequestsSingle' /\ RequestUnderWay'
    BY <1>1 DEF IInv, RequestsSingle, RequestUnderWay, Waiting, SentBy, Fresh
<1>6. AnswersConsistent' /\ MountedHasSession'
    BY <1>1, <1>2 DEF IInv, AnswersConsistent, MountedHasSession
<1>7. UnmountsConsistent' /\ SessionsReachServer' /\ SessionsCounted'
    BY <1>1, <1>2 DEF IInv, UnmountsConsistent, SessionsReachServer, SessionsCounted
<1>8. SessionsKnown' /\ SessionsOwned'
    BY <1>1 DEF IInv, SessionsKnown, SessionsOwned
<1>9. SlotsConsistent'
    BY <1>1, <1>2 DEF IInv, SlotsConsistent
<1>10. RequestSpent'
    BY <1>1 DEF IInv, RequestSpent, Spent, Waiting, SentBy
<1> QED
    BY <1>3, <1>4, <1>5, <1>6, <1>7, <1>8, <1>9, <1>10 DEF IInv

\* The user or a worker ends the server.
LEMMA ExitStep ==
    ASSUME IInv, Exit
    PROVE  IInv'
<1>1. server_pipe' = server_pipe \/ (server_pipe' = <<>> /\ DOMAIN server_pipe' = {})
    BY DEF Exit, Kept, HasWriter
<1>2. server_pipe' \in Seq(Messages)
  <2>1. server_pipe \in Seq(Messages) /\ <<>> \in Seq(Messages)
    BY EmptySeq DEF IInv, TypeOK
  <2> QED
    BY <1>1, <2>1
<1>3. PipesHeld'
    BY DEF IInv, PipesHeld, Exit, serverV, fileV
<1>4. TypeOK'
  <2>1. 0 \in 0 .. S
    OBVIOUS
  <2> QED
    BY <1>2, <2>1 DEF IInv, TypeOK, Exit, fileV
<1>5. MainConsistent'
    BY DEF IInv, MainConsistent, Exit
<1>6. MessagesConsistent'
    BY <1>1 DEF IInv, MessagesConsistent
<1>7. RequestsSingle'
    BY <1>1 DEF IInv, RequestsSingle, Waiting, SentBy, Exit, Kept
<1>8. RequestUnderWay'
    BY <1>1 DEF IInv, RequestUnderWay, Exit
<1>9. AnswersConsistent'
    BY DEF IInv, AnswersConsistent, Exit
<1>10. AnswerExpected'
    BY DEF IInv, AnswerExpected, Exit
<1>11. UnmountsConsistent'
    BY <1>1 DEF IInv, UnmountsConsistent, Exit
<1>12. SessionsReachServer'
    BY DEF IInv, SessionsReachServer, Exit
<1>13. MountedHasSession'
    BY DEF IInv, MountedHasSession, Exit
<1>14. SessionsKnown'
    BY DEF IInv, SessionsKnown, Exit
<1>15. SessionsOwned'
    BY <1>1 DEF IInv, SessionsOwned, Exit
<1>16. SlotsConsistent'
  <2>1. ~up' /\ coming' = {} /\ leaving' = {}
    BY DEF Exit
  <2>2. \A k \in DOMAIN server_pipe' : k \in DOMAIN server_pipe /\ server_pipe'[k] = server_pipe[k]
    BY <1>1
  <2> QED
    BY <2>1, <2>2 DEF IInv, SlotsConsistent
<1>17. SessionsCounted'
    BY DEF SessionsCounted, Exit
<1>18. RequestSpent'
    BY <1>1 DEF IInv, RequestSpent, Spent, Waiting, SentBy, Exit, fileV
<1> QED
    BY <1>3, <1>4, <1>5, <1>6, <1>7, <1>8, <1>9, <1>10, <1>11, <1>12, <1>13, <1>14, <1>15, <1>16, <1>17, <1>18 DEF IInv

(***************************************************************************)
(* The theorems.                                                           *)
(***************************************************************************)
LEMMA InitInvariant ==
    ASSUME Init
    PROVE  IInv
<1>1. DOMAIN server_pipe = {} /\ server_pipe \in Seq(Messages)
    BY EmptySeq DEF Init
<1>2. TypeOK
    BY <1>1 DEF Init, TypeOK
<1>3. MainConsistent /\ PipesHeld /\ AnswersConsistent /\ AnswerExpected /\ SessionsReachServer
      /\ MountedHasSession /\ SessionsKnown /\ SessionsOwned
    BY DEF Init, MainConsistent, PipesHeld, AnswersConsistent, AnswerExpected, SessionsReachServer,
        MountedHasSession, SessionsKnown, SessionsOwned
<1>4. MessagesConsistent /\ RequestsSingle /\ RequestUnderWay /\ UnmountsConsistent
    BY <1>1 DEF Init, MessagesConsistent, RequestsSingle, RequestUnderWay, UnmountsConsistent, Waiting
<1>5. SlotsConsistent /\ RequestSpent
    BY <1>1 DEF Init, SlotsConsistent, RequestSpent
<1>6. SessionsCounted
  <2>1. sessions \ leaving = {} /\ Cardinality({}) = 0
    BY FS_EmptySet DEF Init
  <2> QED
    BY <2>1 DEF Init, SessionsCounted
<1> QED
    BY <1>2, <1>3, <1>4, <1>5, <1>6 DEF IInv

\* A client writes while the server has the pipe closed.
LEMMA BrokenPipeStep ==
    ASSUME IInv, NEW c \in Clients, BrokenPipe(c)
    PROVE  IInv'
<1>1. Die(c) /\ crashes' \in 0 .. MaxCrashes
    BY DEF IInv, TypeOK, BrokenPipe
<1> QED
    BY <1>1, DieStep

\* A client crashes.
LEMMA CrashStep ==
    ASSUME IInv, NEW c \in Clients, Crash(c)
    PROVE  IInv'
<1>1. Die(c) /\ crashes' \in 0 .. MaxCrashes
    BY DEF IInv, TypeOK, Crash
<1> QED
    BY <1>1, DieStep

\* The handler of SIGINT changes nothing but the disposition of the signal.
LEMMA SigintStep ==
    ASSUME IInv, Interrupt \/ GoOn
    PROVE  IInv'
<1>1. TypeOK'
    BY DEF IInv, TypeOK, Interrupt, GoOn, fileV
<1>2. MainConsistent' /\ PipesHeld' /\ AnswersConsistent' /\ AnswerExpected' /\ SessionsReachServer'
      /\ MountedHasSession' /\ SessionsKnown' /\ SessionsOwned'
  <2>1. UNCHANGED <<up, main, name, fcli, slotV, server_pipe, cpc, fileV, reply, sid, mounts>>
    BY DEF Interrupt, GoOn
  <2> QED
    BY <2>1 DEF IInv, MainConsistent, PipesHeld, AnswersConsistent, AnswerExpected,
        SessionsReachServer, MountedHasSession, SessionsKnown, SessionsOwned, fileV
<1>3. MessagesConsistent' /\ RequestsSingle' /\ RequestUnderWay' /\ UnmountsConsistent'
    BY DEF IInv, MessagesConsistent, RequestsSingle, RequestUnderWay, UnmountsConsistent, Waiting,
        SentBy, Fresh, Interrupt, GoOn, fileV
<1>4. SlotsConsistent' /\ SessionsCounted' /\ RequestSpent'
  <2>1. UNCHANGED <<up, main, name, fcli, open_sessions, slotV, server_pipe, cpc, fileV, reply, sid,
                    mounts>>
    BY DEF Interrupt, GoOn
  <2> QED
    BY <2>1 DEF IInv, SlotsConsistent, SessionsCounted, RequestSpent, Spent, Waiting, SentBy, fileV
<1> QED
    BY <1>1, <1>2, <1>3, <1>4 DEF IInv

\* Nothing happens.
LEMMA StutterStep ==
    ASSUME IInv, UNCHANGED vars
    PROVE  IInv'
<1>1. TypeOK'
    BY DEF IInv, TypeOK, vars, serverV, fileV
<1>2. MainConsistent' /\ PipesHeld' /\ AnswersConsistent' /\ AnswerExpected' /\ SessionsReachServer'
      /\ MountedHasSession' /\ SessionsKnown' /\ SessionsOwned'
    BY DEF IInv, MainConsistent, PipesHeld, AnswersConsistent, AnswerExpected, SessionsReachServer,
        MountedHasSession, SessionsKnown, SessionsOwned, vars, serverV, fileV
<1>3. MessagesConsistent' /\ RequestsSingle' /\ RequestUnderWay' /\ UnmountsConsistent'
    BY DEF IInv, MessagesConsistent, RequestsSingle, RequestUnderWay, UnmountsConsistent, Waiting,
        SentBy, Fresh, vars, serverV, fileV
<1>4. SlotsConsistent' /\ SessionsCounted' /\ RequestSpent'
    BY DEF IInv, SlotsConsistent, SessionsCounted, RequestSpent, Spent, Waiting, SentBy, vars, serverV, fileV
<1> QED
    BY <1>1, <1>2, <1>3, <1>4 DEF IInv

\* The invariant holds in every state the pipes, the clients and the server can reach.
THEOREM Invariance == Spec => []IInv
<1>1. Init => IInv
    BY InitInvariant
<1>2. IInv /\ [Next]_vars => IInv'
  <2> SUFFICES ASSUME IInv, [Next]_vars PROVE IInv'
    OBVIOUS
  <2>1. CASE \E c \in Clients : ClientStep(c)
    BY <2>1, MountWriteStep, MakeFifoStep, ReceiveStep, EndOfFileStep, BrokenPipeStep DEF ClientStep
  <2>2. CASE \E c \in Clients : MountOpen(c) \/ Unmount(c) \/ BrokenPipe(c) \/ Crash(c)
    BY <2>2, MountOpenStep, UnmountStep, BrokenPipeStep, CrashStep
  <2>3. CASE MainStep
    BY <2>3, OpenServerPipeStep, ReadMountStep, ReadUnmountStep, UnmountCountStep, EofStep,
        CloseServerPipeStep, SlaitOpenStep, AcceptStep, RejectStep DEF MainStep
  <2>4. CASE Interrupt \/ GoOn \/ Exit
    BY <2>4, SigintStep, ExitStep
  <2>5. CASE UNCHANGED vars
    BY <2>5, StutterStep
  <2>6. CASE \E p \in Pipes : WorkerStep(p)
    BY <2>6, ThreadMountStep, ThreadUnmountStep DEF WorkerStep
  <2> QED
    BY <2>1, <2>2, <2>3, <2>4, <2>5, <2>6 DEF Next
<1> QED
    BY <1>1, <1>2, PTL DEF Spec

\* Every variable keeps its type: no descriptor of the server's pipe is closed twice, and
\* none is counted that no tfs_mount has opened.
THEOREM TypeCorrect == Spec => []TypeOK
<1>1. IInv => TypeOK
    BY DEF IInv
<1> QED
    BY <1>1, Invariance, PTL

\* However many clients come, go and die, and however often main meets end of file and
\* reopens the pipe, a client with a session, or one refused one, finds the server's pipe
\* open while the server runs.
THEOREM SessionsReach == Spec => []SessionsReachServer
<1>1. IInv => SessionsReachServer
    BY DEF IInv
<1> QED
    BY <1>1, Invariance, PTL

\* A client whose tfs_mount has returned 0 has a session as long as the server runs.
THEOREM SessionsHeld == Spec => []MountedHasSession
<1>1. IInv => MountedHasSession
    BY DEF IInv
<1> QED
    BY <1>1, Invariance, PTL

\* The server keeps no session nobody can end, except those of dead clients and of the
\* pipes of rejected attempts.
THEOREM SessionsHaveOwners == Spec => []SessionsOwned
<1>1. IInv => SessionsOwned
    BY DEF IInv
<1> QED
    BY <1>1, Invariance, PTL

\* The positions of the messages still to be handled: main's own request first.
LEMMA PendingPositions ==
    ASSUME IInv
    PROVE  IF main = "slait_open"
           THEN /\ 1 \in DOMAIN Pending /\ Pending[1].op = "MOUNT" /\ Pending[1].name = name
                /\ \A k \in DOMAIN Pending : k \in Nat /\ (k = 1 \/ k - 1 \in DOMAIN server_pipe)
                /\ \A k \in DOMAIN server_pipe :
                      k \in Nat \ {0} /\ k + 1 \in DOMAIN Pending /\ Pending[k + 1] = server_pipe[k]
           ELSE Pending = server_pipe
<1>1. server_pipe \in Seq(Messages) /\ Len(server_pipe) \in Nat
      /\ DOMAIN server_pipe = 1 .. Len(server_pipe)
    BY LenProperties DEF IInv, TypeOK
<1>2. CASE main = "slait_open"
  <2> DEFINE r == [op |-> "MOUNT", name |-> name, sid |-> NoPipe]
  <2>1. Pending = <<r>> \o server_pipe
    BY <1>2 DEF Pending
  <2>2. r \in Messages /\ <<r>> \in Seq(Messages) /\ Len(<<r>>) = 1 /\ <<r>>[1] = r
    BY <1>2 DEF IInv, MainConsistent, Messages
  <2> HIDE DEF r
  <2>3. /\ Len(Pending) = 1 + Len(server_pipe) /\ Pending \in Seq(Messages)
        /\ \A k \in 1 .. 1 + Len(server_pipe) :
              Pending[k] = IF k <= 1 THEN <<r>>[k] ELSE server_pipe[k - 1]
    BY <1>1, <2>1, <2>2, ConcatProperties
  <2>4. DOMAIN Pending = 1 .. 1 + Len(server_pipe)
    BY <2>3, LenProperties
  <2>5. Pending[1] = r
    BY <1>1, <2>2, <2>3
  <2>6. \A k \in DOMAIN server_pipe :
            k \in Nat \ {0} /\ k + 1 \in DOMAIN Pending /\ Pending[k + 1] = server_pipe[k]
    BY <1>1, <2>3, <2>4
  <2>7. 1 \in DOMAIN Pending
        /\ \A k \in DOMAIN Pending : k \in Nat /\ (k = 1 \/ k - 1 \in DOMAIN server_pipe)
    BY <1>1, <2>4
  <2> QED
    BY <1>2, <2>5, <2>6, <2>7 DEF r
<1>3. CASE main # "slait_open"
    BY <1>1, <1>3, ConcatEmptySeq DEF Pending
<1> QED
    BY <1>2, <1>3

\* No mount request is lost or doubled by main's closes and reopens of the pipe or by the
\* deaths of other clients.
THEOREM RequestsSurvive == Spec => []RequestsKept
<1>1. IInv => RequestsKept
  <2> SUFFICES ASSUME IInv, NEW c \in Clients, up, cpc[c] \in {"mkfifo", "open"}, Fresh(c)
               PROVE  Cardinality({k \in DOMAIN Pending :
                                       Pending[k].op = "MOUNT" /\ Pending[k].name = c}) = 1
    BY DEF RequestsKept
  <2> DEFINE mine == {k \in DOMAIN Pending : Pending[k].op = "MOUNT" /\ Pending[k].name = c}
  <2>1. Waiting(c) \/ \E k \in DOMAIN server_pipe : SentBy(k, c)
    BY DEF IInv, RequestUnderWay
  <2>2. \E n \in DOMAIN Pending : mine = {n}
    <3>1. CASE Waiting(c)
      <4>1. \A k \in DOMAIN server_pipe : ~SentBy(k, c)
        BY <3>1 DEF IInv, RequestsSingle
      <4>2. mine = {1} /\ 1 \in DOMAIN Pending
        BY <3>1, <4>1, PendingPositions DEF Waiting, SentBy
      <4> QED
        BY <4>2
    <3>2. CASE main = "slait_open" /\ ~Waiting(c)
      <4>1. PICK k \in DOMAIN server_pipe : SentBy(k, c)
        BY <2>1, <3>2
      <4>2. \A l \in DOMAIN server_pipe : SentBy(l, c) => l = k
        BY <4>1 DEF IInv, RequestsSingle
      <4>3. mine = {k + 1} /\ k + 1 \in DOMAIN Pending
        BY <3>2, <4>1, <4>2, PendingPositions DEF Waiting, SentBy
      <4> QED
        BY <4>3
    <3>3. CASE main # "slait_open"
      <4>1. PICK k \in DOMAIN server_pipe : SentBy(k, c)
        BY <2>1, <3>3 DEF Waiting
      <4>2. \A l \in DOMAIN server_pipe : SentBy(l, c) => l = k
        BY <4>1 DEF IInv, RequestsSingle
      <4>3. Pending = server_pipe
        BY <3>3, PendingPositions
      <4> QED
        BY <4>1, <4>2, <4>3 DEF SentBy
    <3> QED
      BY <3>1, <3>2, <3>3 DEF Waiting
  <2> QED
    BY <2>2, FS_Singleton
<1> QED
    BY <1>1, Invariance, PTL
=============================================================================
