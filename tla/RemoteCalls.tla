---------------------------- MODULE RemoteCalls -----------------------------
(***************************************************************************)
(* What the client library promises of a call on a session: the server     *)
(* performs the call that was made, once, with the arguments it was made   *)
(* with, and the call returns what the server answered to it.              *)
(*                                                                         *)
(* call[c], done[c] and answer[c] hold a call, what was performed for it   *)
(* and what was answered, each as a sequence of at most one element.       *)
(***************************************************************************)
EXTENDS Integers, Sequences

CONSTANTS Clients, Access    \* the operations that read or write through a handle

VARIABLES call, done, answer, returned,
          void    \* a call outside the contract has been made: nothing is promised any more

vars == <<call, done, answer, returned, void>>

Init ==
    /\ call = [c \in Clients |-> <<>>]
    /\ done = call /\ answer = call /\ returned = call
    /\ void = FALSE

\* A call is made, of which nothing has been performed or returned yet.
Call(c) ==
    /\ call[c] = <<>> /\ Len(call'[c]) = 1
    /\ call' = [call EXCEPT ![c] = call'[c]]
    /\ returned' = [returned EXCEPT ![c] = <<>>]
    /\ UNCHANGED <<done, answer, void>>

\* A long read may be cut short; everything else is performed as it was called.
Fits(r, p) == p = [r EXCEPT !.len = p.len] /\ (p.len = r.len \/ (r.op = "READ" /\ p.len < r.len))

Perform(c) ==
    /\ call[c] # <<>> /\ done[c] = <<>>
    /\ Len(done'[c]) = 1 /\ Fits(call[c][1], done'[c][1])
    /\ done' = [done EXCEPT ![c] = done'[c]]
    /\ Len(answer'[c]) = 1
    /\ answer' = [answer EXCEPT ![c] = answer'[c]]
    /\ UNCHANGED <<call, returned, void>>

Return(c) ==
    /\ done[c] # <<>>
    /\ call' = [call EXCEPT ![c] = <<>>]
    /\ done' = [done EXCEPT ![c] = <<>>]
    /\ answer' = [answer EXCEPT ![c] = <<>>]
    /\ returned' = [returned EXCEPT ![c] = answer[c]]
    /\ UNCHANGED void

\* A read or a write through the handle -1 of a failed tfs_open ends the promise, for
\* every client; only such a call does.
Leave ==
    /\ void'
    /\ void \/ \E c \in Clients : /\ call[c] # <<>>
                                  /\ call[c][1].op \in Access /\ call[c][1].fhandle = -1

Next == Leave \/ \E c \in Clients : Call(c) \/ Perform(c) \/ Return(c)

Spec == Init /\ [][Next]_vars
=============================================================================
