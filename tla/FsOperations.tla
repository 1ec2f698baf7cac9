---------------------------- MODULE FsOperations ----------------------------
(***************************************************************************)
(* fs/operations.c: the public calls of TecnicoFS as the threads of the    *)
(* server run them.  Every lock, unlock, load and store that the calls     *)
(* make on the shared state is a step of its own, so the calls interleave  *)
(* as the C threads do; what happens to inodes and blocks inside the       *)
(* unsynchronized bodies belongs to FsState and shows here only as success *)
(* or failure.                                                             *)
(*                                                                         *)
(* A pthread mutex of the default kind is modelled by its holder.  Such a  *)
(* mutex does not check who unlocks it: an unlock frees it whoever holds   *)
(* it, which the failing path of tfs_close relies on.                      *)
(***************************************************************************)
EXTENDS Integers, FiniteSets

CONSTANTS
    Threads,          \* the threads that call the operations
    NoThread,         \* the holder of a free mutex
    MAX_OPEN_FILES,   \* fs/config.h: entries of the open file table
    MaxCalls,         \* bound: calls made, and spurious wake-ups seen, by one thread
    BadClose          \* callers may also close a handle that is not open

ASSUME ThreadsAssumption == NoThread \notin Threads
ASSUME TableAssumption == MAX_OPEN_FILES \in Nat \ {0}
ASSUME CallsAssumption == MaxCalls \in Nat
ASSUME BadCloseAssumption == BadClose \in BOOLEAN

Handle == 0 .. MAX_OPEN_FILES - 1

VARIABLES
    single_global_lock,     \* holder of the mutex, or NoThread
    called_destroy_mutex,   \* holder of the mutex, or NoThread
    called_destroy,         \* "INIT" or "DESTROY"
    open_files,             \* the counter guarded by called_destroy_mutex
    taken,                  \* the TAKEN entries of the open file table
    pc,                     \* where each thread is
    fh,                     \* each thread's handle: close's argument, open's result
    reg,                    \* the value of open_files a thread has loaded
    calls,                  \* what is left to each thread of MaxCalls
    held,                   \* history: handles returned to callers, not yet given to close
    destroyed               \* history: a tfs_destroy_after_all_closed got past its wait

vars == <<single_global_lock, called_destroy_mutex, called_destroy, open_files,
          taken, pc, fh, reg, calls, held, destroyed>>

locks == <<single_global_lock, called_destroy_mutex>>
gate  == <<called_destroy, open_files, taken, destroyed>>
local == <<fh, reg, calls, held>>

OpenLabels    == {"open_lock", "open_dlock", "open_check", "open_table", "open_load",
                  "open_store", "open_dunlock", "open_unlock"}
CloseLabels   == {"close_lock", "close_dlock", "close_remove", "bad_unlock", "bad_dunlock",
                  "close_load", "close_store", "close_signal", "close_unlock",
                  "close_dunlock"}
AccessLabels  == {"access_lock", "access_body"}
DestroyLabels == {"destroy_lock", "destroy_set", "destroy_test", "destroy_wait",
                  "destroy_relock"}
Labels == {"idle"} \cup OpenLabels \cup CloseLabels \cup AccessLabels \cup DestroyLabels

\* tfs_init: nothing is open and nobody has asked for the shutdown.
Init ==
    /\ single_global_lock = NoThread
    /\ called_destroy_mutex = NoThread
    /\ called_destroy = "INIT"
    /\ open_files = 0
    /\ taken = {}
    /\ pc = [t \in Threads |-> "idle"]
    /\ fh = [t \in Threads |-> -1]
    /\ reg = [t \in Threads |-> 0]
    /\ calls = [t \in Threads |-> MaxCalls]
    /\ held = {}
    /\ destroyed = FALSE

(***************************************************************************)
(* Steps.                                                                  *)
(***************************************************************************)
Goto(t, from, to) ==
    /\ pc[t] = from
    /\ pc' = [pc EXCEPT ![t] = to]

\* pthread_mutex_lock waits until the mutex is free.
Acquire(mutex, t) == mutex = NoThread /\ mutex' = t
\* pthread_mutex_unlock frees it, whoever holds it.
Release(mutex) == mutex' = NoThread

Spend(t) ==
    /\ calls[t] > 0
    /\ calls' = [calls EXCEPT ![t] = @ - 1]

\* A thread starts a call.
Call(t, label) ==
    /\ Spend(t)
    /\ Goto(t, "idle", label)
    /\ UNCHANGED <<locks, gate, reg>>

(***************************************************************************)
(* tfs_open.                                                               *)
(***************************************************************************)
CallOpen(t) ==
    /\ Call(t, "open_lock")
    /\ fh' = [fh EXCEPT ![t] = -1]
    /\ UNCHANGED held

OpenLock(t) ==
    /\ Goto(t, "open_lock", "open_dlock")
    /\ Acquire(single_global_lock, t)
    /\ UNCHANGED <<called_destroy_mutex, gate, local>>

OpenDestroyLock(t) ==
    /\ Goto(t, "open_dlock", "open_check")
    /\ Acquire(called_destroy_mutex, t)
    /\ UNCHANGED <<single_global_lock, gate, local>>

\* Mutant: the test of called_destroy is left out.
MutantOpenCheck(t) ==
    /\ Goto(t, "open_check", "open_table")
    /\ UNCHANGED <<locks, gate, local>>

\* No file is opened once the shutdown has been asked for.
OpenCheck(t) ==
    /\ Goto(t, "open_check",
            IF called_destroy = "DESTROY" THEN "open_dunlock" ELSE "open_table")
    /\ UNCHANGED <<locks, gate, local>>

\* add_to_open_file_table takes the first free entry.
FirstFree(h) == h \in Handle \ taken /\ \A i \in Handle \ taken : h <= i

\* Mutant: the scan of the table runs one entry too far.
MutantOpenTable(t) ==
    /\ Goto(t, "open_table", "open_load")
    /\ \E h \in 0 .. MAX_OPEN_FILES :
          /\ h \notin taken
          /\ taken' = taken \cup {h}
          /\ fh' = [fh EXCEPT ![t] = h]
    /\ UNCHANGED <<locks, called_destroy, open_files, destroyed, reg, calls, held>>

\* _tfs_open_unsynchronized succeeds with a table entry ...
OpenTable(t) ==
    /\ Goto(t, "open_table", "open_load")
    /\ \E h \in Handle :
          /\ FirstFree(h)
          /\ taken' = taken \cup {h}
          /\ fh' = [fh EXCEPT ![t] = h]
    /\ UNCHANGED <<locks, called_destroy, open_files, destroyed, reg, calls, held>>

\* Mutant: open_files is incremented before the result is looked at.
MutantOpenFailCounts(t) ==
    /\ Goto(t, "open_table", "open_load")
    /\ UNCHANGED <<locks, gate, local>>

\* Mutant: the failing path returns without unlocking.
MutantOpenFailReturns(t) ==
    /\ Goto(t, "open_table", "idle")
    /\ UNCHANGED <<locks, gate, local>>

\* ... or fails: no such file, no inode, no directory entry or no table entry.
OpenFail(t) ==
    /\ Goto(t, "open_table", "open_dunlock")
    /\ UNCHANGED <<locks, gate, local>>

\* open_files++ is a load and a store.
OpenLoad(t) ==
    /\ Goto(t, "open_load", "open_store")
    /\ reg' = [reg EXCEPT ![t] = open_files]
    /\ UNCHANGED <<locks, gate, fh, calls, held>>

OpenStore(t) ==
    /\ Goto(t, "open_store", "open_dunlock")
    /\ open_files' = reg[t] + 1
    /\ UNCHANGED <<locks, called_destroy, taken, destroyed, local>>

OpenDestroyUnlock(t) ==
    /\ Goto(t, "open_dunlock", "open_unlock")
    /\ Release(called_destroy_mutex)
    /\ UNCHANGED <<single_global_lock, gate, local>>

\* The last unlock; a handle, if there is one, is returned to the caller.
OpenUnlock(t) ==
    /\ Goto(t, "open_unlock", "idle")
    /\ Release(single_global_lock)
    /\ held' = IF fh[t] = -1 THEN held ELSE held \cup {fh[t]}
    /\ UNCHANGED <<called_destroy_mutex, gate, fh, reg, calls>>

(***************************************************************************)
(* tfs_close.                                                              *)
(***************************************************************************)
CallClose(t) ==
    /\ Call(t, "close_lock")
    /\ \E h \in (IF BadClose THEN Handle ELSE held) :
          /\ fh' = [fh EXCEPT ![t] = h]
          /\ held' = held \ {h}

CloseLock(t) ==
    /\ Goto(t, "close_lock", "close_dlock")
    /\ Acquire(single_global_lock, t)
    /\ UNCHANGED <<called_destroy_mutex, gate, local>>

CloseDestroyLock(t) ==
    /\ Goto(t, "close_dlock", "close_remove")
    /\ Acquire(called_destroy_mutex, t)
    /\ UNCHANGED <<single_global_lock, gate, local>>

\* Mutant: the entry of the table is not freed.
MutantCloseRemove(t) ==
    /\ fh[t] \in taken
    /\ Goto(t, "close_remove", "close_load")
    /\ UNCHANGED <<locks, gate, local>>

\* remove_from_open_file_table on an entry that is TAKEN.
CloseRemove(t) ==
    /\ fh[t] \in taken
    /\ Goto(t, "close_remove", "close_load")
    /\ taken' = taken \ {fh[t]}
    /\ UNCHANGED <<locks, called_destroy, open_files, destroyed, local>>

\* On an entry that is not, the call unlocks both mutexes and goes on: it does
\* not return before the decrement, the test and the second pair of unlocks.
CloseNotOpen(t) ==
    /\ fh[t] \notin taken
    /\ Goto(t, "close_remove", "bad_unlock")
    /\ UNCHANGED <<locks, gate, local>>

BadUnlock(t) ==
    /\ Goto(t, "bad_unlock", "bad_dunlock")
    /\ Release(single_global_lock)
    /\ UNCHANGED <<called_destroy_mutex, gate, local>>

BadDestroyUnlock(t) ==
    /\ Goto(t, "bad_dunlock", "close_load")
    /\ Release(called_destroy_mutex)
    /\ UNCHANGED <<single_global_lock, gate, local>>

\* open_files-- is a load and a store.
CloseLoad(t) ==
    /\ Goto(t, "close_load", "close_store")
    /\ reg' = [reg EXCEPT ![t] = open_files]
    /\ UNCHANGED <<locks, gate, fh, calls, held>>

CloseStore(t) ==
    /\ Goto(t, "close_store", "close_signal")
    /\ open_files' = reg[t] - 1
    /\ UNCHANGED <<locks, called_destroy, taken, destroyed, local>>

\* Mutant: pthread_cond_signal, which wakes one waiter only.
MutantWakeAll(p) ==
    LET waiters == {u \in Threads : p[u] = "destroy_wait"}
    IN  IF waiters = {} THEN p ELSE [p EXCEPT ![CHOOSE u \in waiters : TRUE] = "destroy_relock"]

\* pthread_cond_broadcast: every waiter has to lock the mutex again.
WakeAll(p) == [u \in Threads |-> IF p[u] = "destroy_wait" THEN "destroy_relock" ELSE p[u]]

CloseSignal(t) ==
    /\ pc[t] = "close_signal"
    /\ LET next == [pc EXCEPT ![t] = "close_unlock"]
       IN  pc' = IF open_files = 0 /\ called_destroy = "DESTROY"
                 THEN WakeAll(next) ELSE next
    /\ UNCHANGED <<locks, gate, local>>

CloseUnlock(t) ==
    /\ Goto(t, "close_unlock", "close_dunlock")
    /\ Release(single_global_lock)
    /\ UNCHANGED <<called_destroy_mutex, gate, local>>

CloseDestroyUnlock(t) ==
    /\ Goto(t, "close_dunlock", "idle")
    /\ Release(called_destroy_mutex)
    /\ UNCHANGED <<single_global_lock, gate, local>>

(***************************************************************************)
(* tfs_read, tfs_write and tfs_lookup: a body under single_global_lock     *)
(* alone, which touches nothing of the shutdown's state.                   *)
(***************************************************************************)
CallAccess(t) ==
    /\ Call(t, "access_lock")
    /\ UNCHANGED <<fh, held>>

AccessLock(t) ==
    /\ Goto(t, "access_lock", "access_body")
    /\ Acquire(single_global_lock, t)
    /\ UNCHANGED <<called_destroy_mutex, gate, local>>

AccessUnlock(t) ==
    /\ Goto(t, "access_body", "idle")
    /\ Release(single_global_lock)
    /\ UNCHANGED <<called_destroy_mutex, gate, local>>

(***************************************************************************)
(* tfs_destroy_after_all_closed.                                           *)
(***************************************************************************)
CallDestroy(t) ==
    /\ Call(t, "destroy_lock")
    /\ UNCHANGED <<fh, held>>

\* Mutant: called_destroy is set and open_files tested without the mutex.
MutantDestroyLock(t) ==
    /\ Goto(t, "destroy_lock", "destroy_set")
    /\ UNCHANGED <<locks, gate, local>>

DestroyLock(t) ==
    /\ Goto(t, "destroy_lock", "destroy_set")
    /\ Acquire(called_destroy_mutex, t)
    /\ UNCHANGED <<single_global_lock, gate, local>>

DestroySet(t) ==
    /\ Goto(t, "destroy_set", "destroy_test")
    /\ called_destroy' = "DESTROY"
    /\ UNCHANGED <<locks, open_files, taken, destroyed, local>>

\* Mutant: the waiter keeps the mutex while it sleeps.
MutantDestroyWait(t) ==
    /\ open_files # 0
    /\ Goto(t, "destroy_test", "destroy_wait")
    /\ UNCHANGED <<locks, gate, local>>

\* while (open_files != 0): pthread_cond_wait frees the mutex as it starts to wait ...
DestroyWait(t) ==
    /\ open_files # 0
    /\ Goto(t, "destroy_test", "destroy_wait")
    /\ Release(called_destroy_mutex)
    /\ UNCHANGED <<single_global_lock, gate, local>>

\* ... may return with no broadcast ...
DestroySpuriousWakeup(t) ==
    /\ Spend(t)
    /\ Goto(t, "destroy_wait", "destroy_relock")
    /\ UNCHANGED <<locks, gate, fh, reg, held>>

\* Mutant: `if' instead of `while': the condition is not tested again.
MutantDestroyRelock(t) ==
    /\ Goto(t, "destroy_relock", "idle")
    /\ called_destroy_mutex = NoThread
    /\ destroyed' = TRUE
    /\ UNCHANGED <<locks, called_destroy, open_files, taken, local>>

\* ... and locks the mutex again before the condition is tested again.
DestroyRelock(t) ==
    /\ Goto(t, "destroy_relock", "destroy_test")
    /\ Acquire(called_destroy_mutex, t)
    /\ UNCHANGED <<single_global_lock, gate, local>>

\* The loop ends: unlock, tfs_destroy, return.
DestroyReturn(t) ==
    /\ open_files = 0
    /\ Goto(t, "destroy_test", "idle")
    /\ Release(called_destroy_mutex)
    /\ destroyed' = TRUE
    /\ UNCHANGED <<single_global_lock, called_destroy, open_files, taken, local>>

(***************************************************************************)
(* The system.                                                             *)
(***************************************************************************)
OpenStep(t) ==
    \/ OpenLock(t) \/ OpenDestroyLock(t) \/ OpenCheck(t) \/ OpenTable(t) \/ OpenFail(t)
    \/ OpenLoad(t) \/ OpenStore(t) \/ OpenDestroyUnlock(t) \/ OpenUnlock(t)

CloseStep(t) ==
    \/ CloseLock(t) \/ CloseDestroyLock(t) \/ CloseRemove(t) \/ CloseNotOpen(t)
    \/ BadUnlock(t) \/ BadDestroyUnlock(t) \/ CloseLoad(t) \/ CloseStore(t)
    \/ CloseSignal(t) \/ CloseUnlock(t) \/ CloseDestroyUnlock(t)

AccessStep(t) == AccessLock(t) \/ AccessUnlock(t)

DestroyStep(t) ==
    \/ DestroyLock(t) \/ DestroySet(t) \/ DestroyWait(t) \/ DestroyRelock(t)
    \/ DestroyReturn(t)

\* The steps of a call that has started: the scheduler does not withhold them forever.
Step(t) == OpenStep(t) \/ CloseStep(t) \/ AccessStep(t) \/ DestroyStep(t)

NewCall(t) == CallOpen(t) \/ CallClose(t) \/ CallAccess(t) \/ CallDestroy(t)

Next == \E t \in Threads : NewCall(t) \/ Step(t) \/ DestroySpuriousWakeup(t)

Spec == Init /\ [][Next]_vars

FairSpec == Spec /\ \A t \in Threads : WF_vars(Step(t))

(***************************************************************************)
(* Properties.                                                             *)
(***************************************************************************)
TypeOK ==
    /\ single_global_lock \in Threads \cup {NoThread}
    /\ called_destroy_mutex \in Threads \cup {NoThread}
    /\ called_destroy \in {"INIT", "DESTROY"}
    /\ open_files \in Int
    /\ taken \in SUBSET Handle
    /\ pc \in [Threads -> Labels]
    /\ fh \in [Threads -> Handle \cup {-1}]
    /\ reg \in [Threads -> Int]
    /\ calls \in [Threads -> 0 .. MaxCalls]
    /\ held \in SUBSET Handle
    /\ destroyed \in BOOLEAN

\* Labels at which the code relies on holding single_global_lock ...
UnderGlobalLock ==
    {"open_dlock", "open_check", "open_table", "open_load", "open_store", "open_dunlock",
     "open_unlock", "close_dlock", "close_remove", "close_load", "close_store",
     "close_signal", "close_unlock", "access_body"}
\* ... and at which it relies on holding called_destroy_mutex.
UnderDestroyMutex ==
    {"open_check", "open_table", "open_load", "open_store", "open_dunlock", "close_remove",
     "close_load", "close_store", "close_signal", "close_unlock", "close_dunlock",
     "destroy_set", "destroy_test"}

\* At most one thread is inside the region each of the two mutexes guards: the
\* unsynchronized bodies of operations.c run one at a time, and so do the accesses
\* to called_destroy and open_files, although tfs_close gives its locks up in the
\* order it took them and tfs_open in the reverse order.
MutualExclusion ==
    \A t, u \in Threads : t # u =>
        /\ ~(pc[t] \in UnderGlobalLock /\ pc[u] \in UnderGlobalLock)
        /\ ~(pc[t] \in UnderDestroyMutex /\ pc[u] \in UnderDestroyMutex)

\* Whenever called_destroy_mutex is free, the counter that decides about the shutdown
\* is the number of TAKEN entries of the open file table.
OpenFilesExact ==
    called_destroy_mutex = NoThread => open_files = Cardinality(taken)

\* operations.h: "Waits until no file is open and then destroy tecnicofs".  Once a
\* tfs_destroy_after_all_closed has returned no file is open, then or ever after.
DestroyAfterAllClosed == destroyed => taken = {}

\* Thread t is in the call that is about to return the open entry h or is to free it.
InHands(t, h) ==
    /\ fh[t] = h
    /\ pc[t] \in {"open_load", "open_store", "open_dunlock", "open_unlock",
                  "close_lock", "close_dlock", "close_remove"}

\* Every open entry of the table is in exactly one place.  The entries callers know of are
\* open and in the hands of no call; each other open entry is in the hands of one call, and
\* of no second: no entry is leaked, returned by two opens or closed twice.
NoHandleLeak ==
    /\ held \subseteq taken
    /\ \A h \in held, t \in Threads : ~InHands(t, h)
    /\ \A h \in taken \ held : \E t \in Threads :
          InHands(t, h) /\ \A u \in Threads \ {t} : ~InHands(u, h)

\* A thread that is in no call holds no mutex, and one asleep in pthread_cond_wait
\* does not either, on every path through the calls, tfs_close's failing path included.
NoLockLeak ==
    \A t \in Threads : pc[t] \in {"idle", "destroy_wait", "destroy_relock"} =>
        single_global_lock # t /\ called_destroy_mutex # t

\* Every call returns, whatever the others do, but for a shutdown that waits
\* for files that stay open: no two calls deadlock on the two mutexes.
CallsReturn ==
    \A t \in Threads : pc[t] # "idle" ~> pc[t] \in {"idle", "destroy_wait", "destroy_relock"}

\* A shutdown is not left asleep: if the last open file is closed for good, every
\* tfs_destroy_after_all_closed that was waiting returns (the broadcast of tfs_close
\* is neither missing nor lost).
DestroyReturns ==
    \A t \in Threads :
        <>[](taken = {}) => (pc[t] \in DestroyLabels ~> pc[t] = "idle")

\* The locks, the counter and the condition variable implement the simple gate.
Gate == INSTANCE ShutdownGate
            WITH open <- taken, shutting <- called_destroy = "DESTROY", down <- destroyed
ImplementsGate == Gate!Spec
=============================================================================
