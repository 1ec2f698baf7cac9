------------------------- MODULE FsOperationsProofs -------------------------
(***************************************************************************)
(* The safety of FsOperations for any number of threads, any size of the   *)
(* open file table and any number of calls.  The types and the return of   *)
(* the locks hold for all callers, the rest for callers that close only    *)
(* handles they hold.                                                      *)
(***************************************************************************)
EXTENDS FsOperations, FiniteSetTheorems, TLAPS

OpenCounting  == {"open_load", "open_store"}
CloseCounting == {"close_load", "close_store"}
Carrying == {"open_load", "open_store", "open_dunlock", "open_unlock",
             "close_lock", "close_dlock", "close_remove"}

\* The call of t is the only holder of an open entry of the table.
Owns(t) == pc[t] \in Carrying /\ fh[t] # -1

\* Each mutex is held by the thread that is in its region.
LockInv ==
    \A t \in Threads :
        /\ pc[t] \in UnderGlobalLock <=> single_global_lock = t
        /\ pc[t] \in UnderDestroyMutex <=> called_destroy_mutex = t
        /\ pc[t] \notin {"bad_unlock", "bad_dunlock"}

\* Every entry of the table that is not free has one owner, a caller or a call.
HandleInv ==
    /\ held \subseteq taken
    /\ \A t \in Threads : Owns(t) => fh[t] \in taken \ held
    /\ \A t, u \in Threads : t # u /\ Owns(t) /\ Owns(u) => fh[t] # fh[u]
    /\ \A t \in Threads :
          /\ pc[t] \in {"open_lock", "open_dlock", "open_check", "open_table"} => fh[t] = -1
          /\ pc[t] \in {"open_load", "open_store", "close_lock", "close_dlock", "close_remove"}
                => fh[t] # -1

\* ... and every such entry has an owner.
OwnerInv == \A h \in taken \ held : \E t \in Threads : Owns(t) /\ fh[t] = h

\* The counter follows the table, one step behind it.
CountInv ==
    /\ \A t \in Threads : pc[t] \in OpenCounting => open_files = Cardinality(taken) - 1
    /\ \A t \in Threads : pc[t] \in CloseCounting => open_files = Cardinality(taken) + 1
    /\ (\A t \in Threads : pc[t] \notin OpenCounting \cup CloseCounting)
          => open_files = Cardinality(taken)
    /\ \A t \in Threads : pc[t] \in {"open_store", "close_store"} => reg[t] = open_files

\* Once the shutdown has been asked for no call is on its way to a new entry.
GateInv ==
    /\ \A t \in Threads :
          /\ pc[t] \in {"open_table", "open_load", "open_store"} => called_destroy = "INIT"
          /\ pc[t] \in {"destroy_test", "destroy_wait", "destroy_relock"}
                => called_destroy = "DESTROY"
    /\ destroyed => called_destroy = "DESTROY" /\ taken = {}

\* On every path, tfs_close's failing one included, the holder of a mutex has the unlock
\* of it ahead.
HolderInv ==
    \A t \in Threads :
        /\ single_global_lock = t => pc[t] \in UnderGlobalLock \cup {"bad_unlock"}
        /\ called_destroy_mutex = t => pc[t] \in UnderDestroyMutex \cup {"bad_unlock", "bad_dunlock"}

IInv == TypeOK /\ LockInv /\ HandleInv /\ OwnerInv /\ CountInv /\ GateInv

\* The open file table is finite.
LEMMA TakenFinite ==
    ASSUME NEW s \in SUBSET Handle
    PROVE  IsFiniteSet(s) /\ Cardinality(s) \in Nat /\ (Cardinality(s) = 0 <=> s = {})
<1>1. IsFiniteSet(Handle)
    BY FS_Interval, TableAssumption DEF Handle
<1>2. IsFiniteSet(s)
    BY <1>1, FS_Subset
<1> QED
    BY <1>2, FS_CardinalityType, FS_EmptySet

\* Taking a free entry and freeing a taken one change the number of entries by one.
LEMMA TakenCount ==
    ASSUME NEW s \in SUBSET Handle, NEW h \in Handle
    PROVE  /\ h \notin s => Cardinality(s \cup {h}) = Cardinality(s) + 1
           /\ h \in s => Cardinality(s \ {h}) = Cardinality(s) - 1
<1>1. IsFiniteSet(s)
    BY TakenFinite
<1> QED
    BY <1>1, FS_AddElement, FS_RemoveElement

\* Every step preserves the types.
LEMMA TypeStep == TypeOK /\ [Next]_vars => TypeOK'
<1> SUFFICES ASSUME TypeOK, [Next]_vars PROVE TypeOK'
    OBVIOUS
<1> USE DEF TypeOK, Goto, Acquire, Release, locks, gate, local, Labels, OpenLabels,
           CloseLabels, AccessLabels, DestroyLabels
<1>1. CASE UNCHANGED vars
    BY <1>1 DEF vars
<1>2. ASSUME NEW t \in Threads, NewCall(t) \/ Step(t) \/ DestroySpuriousWakeup(t)
      PROVE TypeOK'
  <2>1. CASE CallOpen(t)
    BY <2>1, CallsAssumption DEF CallOpen, Call, Spend
  <2>2. CASE OpenLock(t)
    BY <2>2 DEF OpenLock
  <2>3. CASE OpenDestroyLock(t)
    BY <2>3 DEF OpenDestroyLock
  <2>4. CASE OpenCheck(t)
    BY <2>4 DEF OpenCheck
  <2>5. CASE OpenTable(t)
    BY <2>5 DEF OpenTable
  <2>6. CASE OpenFail(t)
    BY <2>6 DEF OpenFail
  <2>7. CASE OpenLoad(t)
    BY <2>7 DEF OpenLoad
  <2>8. CASE OpenStore(t)
    BY <2>8 DEF OpenStore
  <2>9. CASE OpenDestroyUnlock(t)
    BY <2>9 DEF OpenDestroyUnlock
  <2>10. CASE OpenUnlock(t)
    BY <2>10 DEF OpenUnlock
  <2>11. CASE CallClose(t)
    BY <2>11, CallsAssumption DEF CallClose, Call, Spend
  <2>12. CASE CloseLock(t)
    BY <2>12 DEF CloseLock
  <2>13. CASE CloseDestroyLock(t)
    BY <2>13 DEF CloseDestroyLock
  <2>14. CASE CloseRemove(t)
    BY <2>14 DEF CloseRemove
  <2>15. CASE CloseNotOpen(t)
    BY <2>15 DEF CloseNotOpen
  <2>16. CASE BadUnlock(t)
    BY <2>16 DEF BadUnlock
  <2>17. CASE BadDestroyUnlock(t)
    BY <2>17 DEF BadDestroyUnlock
  <2>18. CASE CloseLoad(t)
    BY <2>18 DEF CloseLoad
  <2>19. CASE CloseStore(t)
    BY <2>19 DEF CloseStore
  <2>20. CASE CloseSignal(t)
    BY <2>20 DEF CloseSignal, WakeAll
  <2>21. CASE CloseUnlock(t)
    BY <2>21 DEF CloseUnlock
  <2>22. CASE CloseDestroyUnlock(t)
    BY <2>22 DEF CloseDestroyUnlock
  <2>23. CASE CallAccess(t)
    BY <2>23, CallsAssumption DEF CallAccess, Call, Spend
  <2>24. CASE AccessLock(t)
    BY <2>24 DEF AccessLock
  <2>25. CASE AccessUnlock(t)
    BY <2>25 DEF AccessUnlock
  <2>26. CASE CallDestroy(t)
    BY <2>26, CallsAssumption DEF CallDestroy, Call, Spend
  <2>27. CASE DestroyLock(t)
    BY <2>27 DEF DestroyLock
  <2>28. CASE DestroySet(t)
    BY <2>28 DEF DestroySet
  <2>29. CASE DestroyWait(t)
    BY <2>29 DEF DestroyWait
  <2>30. CASE DestroySpuriousWakeup(t)
    BY <2>30, CallsAssumption DEF DestroySpuriousWakeup, Spend
  <2>31. CASE DestroyRelock(t)
    BY <2>31 DEF DestroyRelock
  <2>32. CASE DestroyReturn(t)
    BY <2>32 DEF DestroyReturn
  <2> QED
    BY <1>2, <2>1, <2>2, <2>3, <2>4, <2>5, <2>6, <2>7, <2>8, <2>9, <2>10, <2>11, <2>12,
       <2>13, <2>14, <2>15, <2>16, <2>17, <2>18, <2>19, <2>20, <2>21, <2>22, <2>23,
       <2>24, <2>25, <2>26, <2>27, <2>28, <2>29, <2>30, <2>31, <2>32
       DEF NewCall, Step, OpenStep, CloseStep, AccessStep, DestroyStep
<1> QED
    BY <1>1, <1>2 DEF Next

\* Every step keeps the holder of a mutex on a path that still unlocks it.
LEMMA HolderStep == TypeOK /\ HolderInv /\ [Next]_vars => HolderInv'
<1> SUFFICES ASSUME TypeOK, HolderInv, [Next]_vars PROVE HolderInv'
    OBVIOUS
<1> USE DEF TypeOK, HolderInv, Goto, Acquire, Release, locks, gate, local, UnderGlobalLock,
           UnderDestroyMutex
<1>1. CASE UNCHANGED vars
    BY <1>1 DEF vars
<1>2. ASSUME NEW t \in Threads, NewCall(t) \/ Step(t) \/ DestroySpuriousWakeup(t)
      PROVE HolderInv'
  <2>1. CASE CallOpen(t)
    BY ThreadsAssumption, <2>1 DEF CallOpen, Call, Spend
  <2>2. CASE OpenLock(t)
    BY ThreadsAssumption, <2>2 DEF OpenLock
  <2>3. CASE OpenDestroyLock(t)
    BY ThreadsAssumption, <2>3 DEF OpenDestroyLock
  <2>4. CASE OpenCheck(t)
    BY ThreadsAssumption, <2>4 DEF OpenCheck
  <2>5. CASE OpenTable(t)
    BY ThreadsAssumption, <2>5 DEF OpenTable
  <2>6. CASE OpenFail(t)
    BY ThreadsAssumption, <2>6 DEF OpenFail
  <2>7. CASE OpenLoad(t)
    BY ThreadsAssumption, <2>7 DEF OpenLoad
  <2>8. CASE OpenStore(t)
    BY ThreadsAssumption, <2>8 DEF OpenStore
  <2>9. CASE OpenDestroyUnlock(t)
    BY ThreadsAssumption, <2>9 DEF OpenDestroyUnlock
  <2>10. CASE OpenUnlock(t)
    BY ThreadsAssumption, <2>10 DEF OpenUnlock
  <2>11. CASE CallClose(t)
    BY ThreadsAssumption, <2>11 DEF CallClose, Call, Spend
  <2>12. CASE CloseLock(t)
    BY ThreadsAssumption, <2>12 DEF CloseLock
  <2>13. CASE CloseDestroyLock(t)
    BY ThreadsAssumption, <2>13 DEF CloseDestroyLock
  <2>14. CASE CloseRemove(t)
    BY ThreadsAssumption, <2>14 DEF CloseRemove
  <2>15. CASE CloseNotOpen(t)
    BY ThreadsAssumption, <2>15 DEF CloseNotOpen
  <2>16. CASE BadUnlock(t)
    BY ThreadsAssumption, <2>16 DEF BadUnlock
  <2>17. CASE BadDestroyUnlock(t)
    BY ThreadsAssumption, <2>17 DEF BadDestroyUnlock
  <2>18. CASE CloseLoad(t)
    BY ThreadsAssumption, <2>18 DEF CloseLoad
  <2>19. CASE CloseStore(t)
    BY ThreadsAssumption, <2>19 DEF CloseStore
  <2>20. CASE CloseSignal(t)
    BY ThreadsAssumption, <2>20 DEF CloseSignal, WakeAll
  <2>21. CASE CloseUnlock(t)
    BY ThreadsAssumption, <2>21 DEF CloseUnlock
  <2>22. CASE CloseDestroyUnlock(t)
    BY ThreadsAssumption, <2>22 DEF CloseDestroyUnlock
  <2>23. CASE CallAccess(t)
    BY ThreadsAssumption, <2>23 DEF CallAccess, Call, Spend
  <2>24. CASE AccessLock(t)
    BY ThreadsAssumption, <2>24 DEF AccessLock
  <2>25. CASE AccessUnlock(t)
    BY ThreadsAssumption, <2>25 DEF AccessUnlock
  <2>26. CASE CallDestroy(t)
    BY ThreadsAssumption, <2>26 DEF CallDestroy, Call, Spend
  <2>27. CASE DestroyLock(t)
    BY ThreadsAssumption, <2>27 DEF DestroyLock
  <2>28. CASE DestroySet(t)
    BY ThreadsAssumption, <2>28 DEF DestroySet
  <2>29. CASE DestroyWait(t)
    BY ThreadsAssumption, <2>29 DEF DestroyWait
  <2>30. CASE DestroySpuriousWakeup(t)
    BY ThreadsAssumption, <2>30 DEF DestroySpuriousWakeup, Spend
  <2>31. CASE DestroyRelock(t)
    BY ThreadsAssumption, <2>31 DEF DestroyRelock
  <2>32. CASE DestroyReturn(t)
    BY ThreadsAssumption, <2>32 DEF DestroyReturn
  <2> QED
    BY <1>2, <2>1, <2>2, <2>3, <2>4, <2>5, <2>6, <2>7, <2>8, <2>9, <2>10, <2>11, <2>12,
       <2>13, <2>14, <2>15, <2>16, <2>17, <2>18, <2>19, <2>20, <2>21, <2>22, <2>23,
       <2>24, <2>25, <2>26, <2>27, <2>28, <2>29, <2>30, <2>31, <2>32
       DEF NewCall, Step, OpenStep, CloseStep, AccessStep, DestroyStep
<1> QED
    BY <1>1, <1>2 DEF Next

\* Every step keeps each mutex with the thread that is in its region.
LEMMA LockStep == ~BadClose /\ IInv /\ [Next]_vars => LockInv'
<1> SUFFICES ASSUME ~BadClose, IInv, [Next]_vars PROVE LockInv'
    OBVIOUS
<1> USE DEF IInv, TypeOK, LockInv, HandleInv, Owns, Carrying, Goto, Acquire, Release, locks, gate,
           local, UnderGlobalLock, UnderDestroyMutex
<1>1. CASE UNCHANGED vars
    BY <1>1 DEF vars
<1>2. ASSUME NEW t \in Threads, NewCall(t) \/ Step(t) \/ DestroySpuriousWakeup(t)
      PROVE LockInv'
  <2>1. CASE CallOpen(t)
    BY ThreadsAssumption, <2>1 DEF CallOpen, Call, Spend
  <2>2. CASE OpenLock(t)
    BY ThreadsAssumption, <2>2 DEF OpenLock
  <2>3. CASE OpenDestroyLock(t)
    BY ThreadsAssumption, <2>3 DEF OpenDestroyLock
  <2>4. CASE OpenCheck(t)
    BY ThreadsAssumption, <2>4 DEF OpenCheck
  <2>5. CASE OpenTable(t)
    BY ThreadsAssumption, <2>5 DEF OpenTable
  <2>6. CASE OpenFail(t)
    BY ThreadsAssumption, <2>6 DEF OpenFail
  <2>7. CASE OpenLoad(t)
    BY ThreadsAssumption, <2>7 DEF OpenLoad
  <2>8. CASE OpenStore(t)
    BY ThreadsAssumption, <2>8 DEF OpenStore
  <2>9. CASE OpenDestroyUnlock(t)
    BY ThreadsAssumption, <2>9 DEF OpenDestroyUnlock
  <2>10. CASE OpenUnlock(t)
    BY ThreadsAssumption, <2>10 DEF OpenUnlock
  <2>11. CASE CallClose(t)
    BY ThreadsAssumption, <2>11 DEF CallClose, Call, Spend
  <2>12. CASE CloseLock(t)
    BY ThreadsAssumption, <2>12 DEF CloseLock
  <2>13. CASE CloseDestroyLock(t)
    BY ThreadsAssumption, <2>13 DEF CloseDestroyLock
  <2>14. CASE CloseRemove(t)
    BY ThreadsAssumption, <2>14 DEF CloseRemove
  <2>15. CASE CloseNotOpen(t)
    BY ThreadsAssumption, <2>15 DEF CloseNotOpen
  <2>16. CASE BadUnlock(t)
    BY ThreadsAssumption, <2>16 DEF BadUnlock
  <2>17. CASE BadDestroyUnlock(t)
    BY ThreadsAssumption, <2>17 DEF BadDestroyUnlock
  <2>18. CASE CloseLoad(t)
    BY ThreadsAssumption, <2>18 DEF CloseLoad
  <2>19. CASE CloseStore(t)
    BY ThreadsAssumption, <2>19 DEF CloseStore
  <2>20. CASE CloseSignal(t)
    BY ThreadsAssumption, <2>20 DEF CloseSignal, WakeAll
  <2>21. CASE CloseUnlock(t)
    BY ThreadsAssumption, <2>21 DEF CloseUnlock
  <2>22. CASE CloseDestroyUnlock(t)
    BY ThreadsAssumption, <2>22 DEF CloseDestroyUnlock
  <2>23. CASE CallAccess(t)
    BY ThreadsAssumption, <2>23 DEF CallAccess, Call, Spend
  <2>24. CASE AccessLock(t)
    BY ThreadsAssumption, <2>24 DEF AccessLock
  <2>25. CASE AccessUnlock(t)
    BY ThreadsAssumption, <2>25 DEF AccessUnlock
  <2>26. CASE CallDestroy(t)
    BY ThreadsAssumption, <2>26 DEF CallDestroy, Call, Spend
  <2>27. CASE DestroyLock(t)
    BY ThreadsAssumption, <2>27 DEF DestroyLock
  <2>28. CASE DestroySet(t)
    BY ThreadsAssumption, <2>28 DEF DestroySet
  <2>29. CASE DestroyWait(t)
    BY ThreadsAssumption, <2>29 DEF DestroyWait
  <2>30. CASE DestroySpuriousWakeup(t)
    BY ThreadsAssumption, <2>30 DEF DestroySpuriousWakeup, Spend
  <2>31. CASE DestroyRelock(t)
    BY ThreadsAssumption, <2>31 DEF DestroyRelock
  <2>32. CASE DestroyReturn(t)
    BY ThreadsAssumption, <2>32 DEF DestroyReturn
  <2> QED
    BY <1>2, <2>1, <2>2, <2>3, <2>4, <2>5, <2>6, <2>7, <2>8, <2>9, <2>10, <2>11, <2>12,
       <2>13, <2>14, <2>15, <2>16, <2>17, <2>18, <2>19, <2>20, <2>21, <2>22, <2>23,
       <2>24, <2>25, <2>26, <2>27, <2>28, <2>29, <2>30, <2>31, <2>32
       DEF NewCall, Step, OpenStep, CloseStep, AccessStep, DestroyStep
<1> QED
    BY <1>1, <1>2 DEF Next

\* Every step keeps one owner for each entry: a call takes a free entry, gives it to the
\* caller, and a caller gives up the entry it closes.
LEMMA HandleStep == ~BadClose /\ IInv /\ [Next]_vars => HandleInv'
<1> SUFFICES ASSUME ~BadClose, IInv, [Next]_vars PROVE HandleInv'
    OBVIOUS
<1> USE DEF IInv, TypeOK, LockInv, HandleInv, Owns, Carrying, Goto, Acquire, Release, locks, gate,
           local, Handle, UnderGlobalLock, UnderDestroyMutex
<1>1. CASE UNCHANGED vars
    BY <1>1 DEF vars
<1>2. ASSUME NEW t \in Threads, NewCall(t) \/ Step(t) \/ DestroySpuriousWakeup(t)
      PROVE HandleInv'
  <2>1. CASE CallOpen(t)
    BY <2>1 DEF CallOpen, Call, Spend
  <2>2. CASE OpenLock(t)
    BY <2>2 DEF OpenLock
  <2>3. CASE OpenDestroyLock(t)
    BY <2>3 DEF OpenDestroyLock
  <2>4. CASE OpenCheck(t)
    BY <2>4 DEF OpenCheck
  <2>5. CASE OpenTable(t)
    <3>1. PICK h \in Handle : /\ h \notin taken
                              /\ taken' = taken \cup {h}
                              /\ fh' = [fh EXCEPT ![t] = h]
        BY <2>5 DEF OpenTable, FirstFree
    <3>2. h # -1 /\ h \notin held
        BY <3>1, TableAssumption
    <3>3. pc' = [pc EXCEPT ![t] = "open_load"] /\ held' = held
        BY <2>5 DEF OpenTable
    <3> QED
        BY <3>1, <3>2, <3>3
  <2>6. CASE OpenFail(t)
    BY <2>6 DEF OpenFail
  <2>7. CASE OpenLoad(t)
    BY <2>7 DEF OpenLoad
  <2>8. CASE OpenStore(t)
    BY <2>8 DEF OpenStore
  <2>9. CASE OpenDestroyUnlock(t)
    BY <2>9 DEF OpenDestroyUnlock
  <2>10. CASE OpenUnlock(t)
    BY <2>10, ZenonT(60) DEF OpenUnlock
  <2>11. CASE CallClose(t)
    BY <2>11 DEF CallClose, Call, Spend
  <2>12. CASE CloseLock(t)
    BY <2>12 DEF CloseLock
  <2>13. CASE CloseDestroyLock(t)
    BY <2>13 DEF CloseDestroyLock
  <2>14. CASE CloseRemove(t)
    BY <2>14 DEF CloseRemove
  <2>15. CASE CloseNotOpen(t)
    BY <2>15 DEF CloseNotOpen
  <2>16. CASE BadUnlock(t)
    BY <2>16 DEF BadUnlock
  <2>17. CASE BadDestroyUnlock(t)
    BY <2>17 DEF BadDestroyUnlock
  <2>18. CASE CloseLoad(t)
    BY <2>18 DEF CloseLoad
  <2>19. CASE CloseStore(t)
    BY <2>19 DEF CloseStore
  <2>20. CASE CloseSignal(t)
    BY <2>20 DEF CloseSignal, WakeAll
  <2>21. CASE CloseUnlock(t)
    BY <2>21 DEF CloseUnlock
  <2>22. CASE CloseDestroyUnlock(t)
    BY <2>22 DEF CloseDestroyUnlock
  <2>23. CASE CallAccess(t)
    BY <2>23 DEF CallAccess, Call, Spend
  <2>24. CASE AccessLock(t)
    BY <2>24 DEF AccessLock
  <2>25. CASE AccessUnlock(t)
    BY <2>25 DEF AccessUnlock
  <2>26. CASE CallDestroy(t)
    BY <2>26 DEF CallDestroy, Call, Spend
  <2>27. CASE DestroyLock(t)
    BY <2>27 DEF DestroyLock
  <2>28. CASE DestroySet(t)
    BY <2>28 DEF DestroySet
  <2>29. CASE DestroyWait(t)
    BY <2>29 DEF DestroyWait
  <2>30. CASE DestroySpuriousWakeup(t)
    BY <2>30 DEF DestroySpuriousWakeup, Spend
  <2>31. CASE DestroyRelock(t)
    BY <2>31 DEF DestroyRelock
  <2>32. CASE DestroyReturn(t)
    BY <2>32 DEF DestroyReturn
  <2> QED
    BY <1>2, <2>1, <2>2, <2>3, <2>4, <2>5, <2>6, <2>7, <2>8, <2>9, <2>10, <2>11, <2>12,
       <2>13, <2>14, <2>15, <2>16, <2>17, <2>18, <2>19, <2>20, <2>21, <2>22, <2>23,
       <2>24, <2>25, <2>26, <2>27, <2>28, <2>29, <2>30, <2>31, <2>32
       DEF NewCall, Step, OpenStep, CloseStep, AccessStep, DestroyStep
<1> QED
    BY <1>1, <1>2 DEF Next

\* Every step keeps an owner for each entry that is taken.
LEMMA OwnerStep == ~BadClose /\ IInv /\ [Next]_vars => OwnerInv'
<1> SUFFICES ASSUME ~BadClose, IInv, [Next]_vars PROVE OwnerInv'
    OBVIOUS
<1> USE DEF IInv, TypeOK, LockInv, HandleInv, OwnerInv, Owns, Carrying, Goto, Acquire, Release,
           locks, gate, local, Handle, UnderGlobalLock, UnderDestroyMutex
<1>1. CASE UNCHANGED vars
    BY <1>1 DEF vars
<1>2. ASSUME NEW t \in Threads, NewCall(t) \/ Step(t) \/ DestroySpuriousWakeup(t)
      PROVE OwnerInv'
  <2>1. CASE CallOpen(t)
    BY <2>1 DEF CallOpen, Call, Spend
  <2>2. CASE OpenLock(t)
    BY <2>2 DEF OpenLock
  <2>3. CASE OpenDestroyLock(t)
    BY <2>3 DEF OpenDestroyLock
  <2>4. CASE OpenCheck(t)
    BY <2>4 DEF OpenCheck
  <2>5. CASE OpenTable(t)
    <3>1. PICK h \in Handle : taken' = taken \cup {h} /\ fh' = [fh EXCEPT ![t] = h]
        BY <2>5 DEF OpenTable
    <3>2. pc' = [pc EXCEPT ![t] = "open_load"] /\ held' = held
        BY <2>5 DEF OpenTable
    <3>3. ~Owns(t) /\ Owns(t)' /\ fh'[t] = h
        BY <2>5, <3>1, <3>2, TableAssumption DEF OpenTable
    <3>4. \A u \in Threads \ {t} : Owns(u) => Owns(u)' /\ fh'[u] = fh[u]
        BY <3>1, <3>2
    <3> QED
        BY <3>1, <3>2, <3>3, <3>4
  <2>6. CASE OpenFail(t)
    BY <2>6 DEF OpenFail
  <2>7. CASE OpenLoad(t)
    BY <2>7 DEF OpenLoad
  <2>8. CASE OpenStore(t)
    BY <2>8 DEF OpenStore
  <2>9. CASE OpenDestroyUnlock(t)
    BY <2>9 DEF OpenDestroyUnlock
  <2>10. CASE OpenUnlock(t)
    BY <2>10 DEF OpenUnlock
  <2>11. CASE CallClose(t)
    <3>1. PICK h \in held : fh' = [fh EXCEPT ![t] = h] /\ held' = held \ {h}
        BY <2>11 DEF CallClose
    <3>2. pc' = [pc EXCEPT ![t] = "close_lock"] /\ taken' = taken /\ pc[t] = "idle"
        BY <2>11 DEF CallClose, Call
    <3>3. ~Owns(t) /\ Owns(t)' /\ fh'[t] = h
        BY <3>1, <3>2, TableAssumption
    <3>4. \A u \in Threads \ {t} : Owns(u) => Owns(u)' /\ fh'[u] = fh[u]
        BY <3>1, <3>2
    <3> QED
        BY <3>1, <3>2, <3>3, <3>4
  <2>12. CASE CloseLock(t)
    BY <2>12 DEF CloseLock
  <2>13. CASE CloseDestroyLock(t)
    BY <2>13 DEF CloseDestroyLock
  <2>14. CASE CloseRemove(t)
    BY <2>14 DEF CloseRemove
  <2>15. CASE CloseNotOpen(t)
    BY <2>15 DEF CloseNotOpen
  <2>16. CASE BadUnlock(t)
    BY <2>16 DEF BadUnlock
  <2>17. CASE BadDestroyUnlock(t)
    BY <2>17 DEF BadDestroyUnlock
  <2>18. CASE CloseLoad(t)
    BY <2>18 DEF CloseLoad
  <2>19. CASE CloseStore(t)
    BY <2>19 DEF CloseStore
  <2>20. CASE CloseSignal(t)
    BY <2>20 DEF CloseSignal, WakeAll
  <2>21. CASE CloseUnlock(t)
    BY <2>21 DEF CloseUnlock
  <2>22. CASE CloseDestroyUnlock(t)
    BY <2>22 DEF CloseDestroyUnlock
  <2>23. CASE CallAccess(t)
    BY <2>23 DEF CallAccess, Call, Spend
  <2>24. CASE AccessLock(t)
    BY <2>24 DEF AccessLock
  <2>25. CASE AccessUnlock(t)
    BY <2>25 DEF AccessUnlock
  <2>26. CASE CallDestroy(t)
    BY <2>26 DEF CallDestroy, Call, Spend
  <2>27. CASE DestroyLock(t)
    BY <2>27 DEF DestroyLock
  <2>28. CASE DestroySet(t)
    BY <2>28 DEF DestroySet
  <2>29. CASE DestroyWait(t)
    BY <2>29 DEF DestroyWait
  <2>30. CASE DestroySpuriousWakeup(t)
    BY <2>30 DEF DestroySpuriousWakeup, Spend
  <2>31. CASE DestroyRelock(t)
    BY <2>31 DEF DestroyRelock
  <2>32. CASE DestroyReturn(t)
    BY <2>32 DEF DestroyReturn
  <2> QED
    BY <1>2, <2>1, <2>2, <2>3, <2>4, <2>5, <2>6, <2>7, <2>8, <2>9, <2>10, <2>11, <2>12,
       <2>13, <2>14, <2>15, <2>16, <2>17, <2>18, <2>19, <2>20, <2>21, <2>22, <2>23,
       <2>24, <2>25, <2>26, <2>27, <2>28, <2>29, <2>30, <2>31, <2>32
       DEF NewCall, Step, OpenStep, CloseStep, AccessStep, DestroyStep
<1> QED
    BY <1>1, <1>2 DEF Next

\* Every step keeps the counter at the number of entries, or one step behind.
LEMMA CountStep == ~BadClose /\ IInv /\ [Next]_vars => CountInv'
<1> SUFFICES ASSUME ~BadClose, IInv, [Next]_vars PROVE CountInv'
    OBVIOUS
<1> USE DEF IInv, TypeOK, LockInv, HandleInv, CountInv, Owns, Carrying, OpenCounting, CloseCounting,
           Goto, Acquire, Release, locks, gate, local, UnderDestroyMutex
<1>1. CASE UNCHANGED vars
    BY <1>1 DEF vars
<1>2. ASSUME NEW t \in Threads, NewCall(t) \/ Step(t) \/ DestroySpuriousWakeup(t)
      PROVE CountInv'
  <2>1. CASE CallOpen(t)
    BY <2>1 DEF CallOpen, Call, Spend
  <2>2. CASE OpenLock(t)
    BY <2>2 DEF OpenLock
  <2>3. CASE OpenDestroyLock(t)
    BY <2>3 DEF OpenDestroyLock
  <2>4. CASE OpenCheck(t)
    BY <2>4 DEF OpenCheck
  <2>5. CASE OpenTable(t)
    <3>1. PICK h \in Handle : FirstFree(h) /\ taken' = taken \cup {h}
        BY <2>5 DEF OpenTable
    <3>2. Cardinality(taken') = Cardinality(taken) + 1
        BY <3>1, TakenCount DEF FirstFree
    <3>3. Cardinality(taken) \in Nat
        BY TakenFinite
    <3> QED
        BY <2>5, <3>2, <3>3 DEF OpenTable
  <2>6. CASE OpenFail(t)
    BY <2>6 DEF OpenFail
  <2>7. CASE OpenLoad(t)
    BY <2>7 DEF OpenLoad
  <2>8. CASE OpenStore(t)
    BY <2>8, TakenFinite DEF OpenStore
  <2>9. CASE OpenDestroyUnlock(t)
    BY <2>9 DEF OpenDestroyUnlock
  <2>10. CASE OpenUnlock(t)
    BY <2>10 DEF OpenUnlock
  <2>11. CASE CallClose(t)
    BY <2>11 DEF CallClose, Call, Spend
  <2>12. CASE CloseLock(t)
    BY <2>12 DEF CloseLock
  <2>13. CASE CloseDestroyLock(t)
    BY <2>13 DEF CloseDestroyLock
  <2>14. CASE CloseRemove(t)
    <3>1. Cardinality(taken') = Cardinality(taken) - 1
        BY <2>14, TakenCount DEF CloseRemove
    <3>2. Cardinality(taken) \in Nat
        BY TakenFinite
    <3>3. open_files = Cardinality(taken)
        BY <2>14 DEF CloseRemove
    <3>4. \A u \in Threads \ {t} : pc'[u] \notin UnderDestroyMutex
        BY <2>14 DEF CloseRemove
    <3>5. pc'[t] = "close_load" /\ open_files' = open_files
        BY <2>14 DEF CloseRemove
    <3> QED
        BY <3>1, <3>2, <3>3, <3>4, <3>5
  <2>15. CASE CloseNotOpen(t)
    BY <2>15 DEF CloseNotOpen
  <2>16. CASE BadUnlock(t)
    BY <2>16 DEF BadUnlock
  <2>17. CASE BadDestroyUnlock(t)
    BY <2>17 DEF BadDestroyUnlock
  <2>18. CASE CloseLoad(t)
    BY <2>18 DEF CloseLoad
  <2>19. CASE CloseStore(t)
    BY <2>19, TakenFinite DEF CloseStore
  <2>20. CASE CloseSignal(t)
    BY <2>20 DEF CloseSignal, WakeAll
  <2>21. CASE CloseUnlock(t)
    BY <2>21 DEF CloseUnlock
  <2>22. CASE CloseDestroyUnlock(t)
    BY <2>22 DEF CloseDestroyUnlock
  <2>23. CASE CallAccess(t)
    BY <2>23 DEF CallAccess, Call, Spend
  <2>24. CASE AccessLock(t)
    BY <2>24 DEF AccessLock
  <2>25. CASE AccessUnlock(t)
    BY <2>25 DEF AccessUnlock
  <2>26. CASE CallDestroy(t)
    BY <2>26 DEF CallDestroy, Call, Spend
  <2>27. CASE DestroyLock(t)
    BY <2>27 DEF DestroyLock
  <2>28. CASE DestroySet(t)
    BY <2>28 DEF DestroySet
  <2>29. CASE DestroyWait(t)
    BY <2>29 DEF DestroyWait
  <2>30. CASE DestroySpuriousWakeup(t)
    BY <2>30 DEF DestroySpuriousWakeup, Spend
  <2>31. CASE DestroyRelock(t)
    BY <2>31 DEF DestroyRelock
  <2>32. CASE DestroyReturn(t)
    BY <2>32 DEF DestroyReturn
  <2> QED
    BY <1>2, <2>1, <2>2, <2>3, <2>4, <2>5, <2>6, <2>7, <2>8, <2>9, <2>10, <2>11, <2>12,
       <2>13, <2>14, <2>15, <2>16, <2>17, <2>18, <2>19, <2>20, <2>21, <2>22, <2>23,
       <2>24, <2>25, <2>26, <2>27, <2>28, <2>29, <2>30, <2>31, <2>32
       DEF NewCall, Step, OpenStep, CloseStep, AccessStep, DestroyStep
<1> QED
    BY <1>1, <1>2 DEF Next

\* Every step keeps the gate shut: none opens a file past the shutdown's request, and a
\* shutdown returns only when the table is empty.
LEMMA GateStep == ~BadClose /\ IInv /\ [Next]_vars => GateInv'
<1> SUFFICES ASSUME ~BadClose, IInv, [Next]_vars PROVE GateInv'
    OBVIOUS
<1> USE DEF IInv, TypeOK, LockInv, GateInv, Goto, Acquire, Release, locks, gate, local,
           UnderDestroyMutex
<1>1. CASE UNCHANGED vars
    BY <1>1 DEF vars
<1>2. ASSUME NEW t \in Threads, NewCall(t) \/ Step(t) \/ DestroySpuriousWakeup(t)
      PROVE GateInv'
  <2>1. CASE CallOpen(t)
    BY <2>1 DEF CallOpen, Call, Spend
  <2>2. CASE OpenLock(t)
    BY <2>2 DEF OpenLock
  <2>3. CASE OpenDestroyLock(t)
    BY <2>3 DEF OpenDestroyLock
  <2>4. CASE OpenCheck(t)
    BY <2>4 DEF OpenCheck
  <2>5. CASE OpenTable(t)
    BY <2>5 DEF OpenTable
  <2>6. CASE OpenFail(t)
    BY <2>6 DEF OpenFail
  <2>7. CASE OpenLoad(t)
    BY <2>7 DEF OpenLoad
  <2>8. CASE OpenStore(t)
    BY <2>8 DEF OpenStore
  <2>9. CASE OpenDestroyUnlock(t)
    BY <2>9 DEF OpenDestroyUnlock
  <2>10. CASE OpenUnlock(t)
    BY <2>10 DEF OpenUnlock
  <2>11. CASE CallClose(t)
    BY <2>11 DEF CallClose, Call, Spend
  <2>12. CASE CloseLock(t)
    BY <2>12 DEF CloseLock
  <2>13. CASE CloseDestroyLock(t)
    BY <2>13 DEF CloseDestroyLock
  <2>14. CASE CloseRemove(t)
    BY <2>14 DEF CloseRemove
  <2>15. CASE CloseNotOpen(t)
    BY <2>15 DEF CloseNotOpen
  <2>16. CASE BadUnlock(t)
    BY <2>16 DEF BadUnlock
  <2>17. CASE BadDestroyUnlock(t)
    BY <2>17 DEF BadDestroyUnlock
  <2>18. CASE CloseLoad(t)
    BY <2>18 DEF CloseLoad
  <2>19. CASE CloseStore(t)
    BY <2>19 DEF CloseStore
  <2>20. CASE CloseSignal(t)
    BY <2>20 DEF CloseSignal, WakeAll
  <2>21. CASE CloseUnlock(t)
    BY <2>21 DEF CloseUnlock
  <2>22. CASE CloseDestroyUnlock(t)
    BY <2>22 DEF CloseDestroyUnlock
  <2>23. CASE CallAccess(t)
    BY <2>23 DEF CallAccess, Call, Spend
  <2>24. CASE AccessLock(t)
    BY <2>24 DEF AccessLock
  <2>25. CASE AccessUnlock(t)
    BY <2>25 DEF AccessUnlock
  <2>26. CASE CallDestroy(t)
    BY <2>26 DEF CallDestroy, Call, Spend
  <2>27. CASE DestroyLock(t)
    BY <2>27 DEF DestroyLock
  <2>28. CASE DestroySet(t)
    BY <2>28 DEF DestroySet
  <2>29. CASE DestroyWait(t)
    BY <2>29 DEF DestroyWait
  <2>30. CASE DestroySpuriousWakeup(t)
    BY <2>30 DEF DestroySpuriousWakeup, Spend
  <2>31. CASE DestroyRelock(t)
    BY <2>31 DEF DestroyRelock
  <2>32. CASE DestroyReturn(t)
    <3>1. open_files = Cardinality(taken)
        BY <2>32 DEF DestroyReturn, CountInv, OpenCounting, CloseCounting
    <3>2. taken = {}
        BY <2>32, <3>1, TakenFinite DEF DestroyReturn
    <3> QED
        BY <2>32, <3>2 DEF DestroyReturn
  <2> QED
    BY <1>2, <2>1, <2>2, <2>3, <2>4, <2>5, <2>6, <2>7, <2>8, <2>9, <2>10, <2>11, <2>12,
       <2>13, <2>14, <2>15, <2>16, <2>17, <2>18, <2>19, <2>20, <2>21, <2>22, <2>23,
       <2>24, <2>25, <2>26, <2>27, <2>28, <2>29, <2>30, <2>31, <2>32
       DEF NewCall, Step, OpenStep, CloseStep, AccessStep, DestroyStep
<1> QED
    BY <1>1, <1>2 DEF Next

\* The initial state has the types.
LEMMA InitTypes == Init => TypeOK
<1> SUFFICES ASSUME Init PROVE TypeOK
    OBVIOUS
<1>1. calls \in [Threads -> 0 .. MaxCalls]
    BY CallsAssumption DEF Init
<1>2. pc \in [Threads -> Labels]
    BY DEF Init, Labels
<1>3. fh \in [Threads -> Handle \cup {-1}] /\ reg \in [Threads -> Int]
    BY DEF Init
<1>4. destroyed \in BOOLEAN /\ called_destroy \in {"INIT", "DESTROY"}
    BY DEF Init
<1>5. taken \in SUBSET Handle /\ held \in SUBSET Handle /\ open_files \in Int
    BY DEF Init
<1>6. single_global_lock = NoThread /\ called_destroy_mutex = NoThread
    BY DEF Init
<1> QED
    BY <1>1, <1>2, <1>3, <1>4, <1>5, <1>6 DEF TypeOK

\* Every variable of operations.c and of its callers keeps its type, also when callers
\* close handles that are not open: the counter may leave the range of the table then, the
\* table and the handles do not.
THEOREM TypeCorrect == Spec => []TypeOK
BY InitTypes, TypeStep, PTL DEF Spec

\* No path through the calls leaves a mutex locked behind it, also when callers close
\* handles that are not open and tfs_close unlocks mutexes it no longer holds.
THEOREM LocksReturned == Spec => []NoLockLeak
<1>1. Init => HolderInv
    BY ThreadsAssumption DEF Init, HolderInv
<1>2. TypeOK /\ HolderInv /\ [Next]_vars => HolderInv'
    BY HolderStep
<1>3. HolderInv => NoLockLeak
    BY DEF HolderInv, NoLockLeak, UnderGlobalLock, UnderDestroyMutex
<1> QED
    BY <1>1, <1>2, <1>3, TypeCorrect, PTL DEF Spec

\* For callers that close only handles they hold, the inductive invariant holds in every
\* reachable state.
THEOREM Inductive == ~BadClose => (Spec => []IInv)
<1> SUFFICES ASSUME ~BadClose PROVE Spec => []IInv
    OBVIOUS
<1>1. Init => IInv
  <2> SUFFICES ASSUME Init PROVE IInv
      OBVIOUS
  <2> USE DEF Init
  <2>1. TypeOK
      BY InitTypes
  <2>2. LockInv
      BY ThreadsAssumption DEF LockInv, UnderGlobalLock, UnderDestroyMutex
  <2>3. HandleInv
      BY DEF HandleInv, Owns, Carrying
  <2>4. OwnerInv
      BY DEF OwnerInv
  <2>5. CountInv
      BY FS_EmptySet DEF CountInv, OpenCounting, CloseCounting
  <2>6. GateInv
      BY DEF GateInv
  <2> QED
      BY <2>1, <2>2, <2>3, <2>4, <2>5, <2>6 DEF IInv
<1>2. IInv /\ [Next]_vars => IInv'
    BY TypeStep, LockStep, HandleStep, OwnerStep, CountStep, GateStep DEF IInv
<1> QED
    BY <1>1, <1>2, PTL DEF Spec

\* Both mutexes exclude, for any number of threads.
THEOREM Exclusion == ~BadClose => (Spec => []MutualExclusion)
<1>1. IInv => MutualExclusion
    BY DEF IInv, LockInv, MutualExclusion
<1> QED
    BY <1>1, Inductive, PTL

\* The counter is exact whenever its mutex is free.
THEOREM CounterExact == ~BadClose => (Spec => []OpenFilesExact)
<1>1. IInv => OpenFilesExact
    BY ThreadsAssumption DEF IInv, LockInv, CountInv, OpenFilesExact, UnderDestroyMutex,
       OpenCounting, CloseCounting
<1> QED
    BY <1>1, Inductive, PTL

\* No file is open once a shutdown call has returned.
THEOREM ShutdownSafe == ~BadClose => (Spec => []DestroyAfterAllClosed)
<1>1. IInv => DestroyAfterAllClosed
    BY DEF IInv, GateInv, DestroyAfterAllClosed
<1> QED
    BY <1>1, Inductive, PTL

\* Every entry that is taken is with the callers or with exactly one call, for any number of
\* threads.
THEOREM HandlesKept == ~BadClose => (Spec => []NoHandleLeak)
<1>1. IInv => NoHandleLeak
  <2> SUFFICES ASSUME IInv PROVE NoHandleLeak
      OBVIOUS
  <2>1. ASSUME NEW h \in taken, NEW t \in Threads, InHands(t, h)
        PROVE  Owns(t)
      BY <2>1 DEF InHands, Owns, Carrying, IInv, TypeOK, Handle
  <2>2. \A h \in held, t \in Threads : ~InHands(t, h)
      BY <2>1 DEF IInv, HandleInv, InHands
  <2>3. ASSUME NEW h \in taken \ held
        PROVE  \E t \in Threads : InHands(t, h) /\ \A u \in Threads \ {t} : ~InHands(u, h)
    <3>1. PICK t \in Threads : Owns(t) /\ fh[t] = h
        BY DEF IInv, OwnerInv
    <3>2. InHands(t, h)
        BY <3>1 DEF InHands, Owns, Carrying
    <3>3. \A u \in Threads \ {t} : ~InHands(u, h)
        BY <2>1, <3>1 DEF IInv, HandleInv, InHands
    <3> QED
        BY <3>2, <3>3
  <2>4. held \subseteq taken
      BY DEF IInv, HandleInv
  <2> QED
      BY <2>2, <2>3, <2>4 DEF NoHandleLeak
<1> QED
    BY <1>1, Inductive, PTL

\* operations.c implements the gate: each of its steps opens one file before the shutdown is
\* asked for, closes one, asks for the shutdown, goes down with nothing open, or changes nothing.
THEOREM GateRefined == ~BadClose => (Spec => ImplementsGate)
<1> SUFFICES ASSUME ~BadClose PROVE Spec => ImplementsGate
    OBVIOUS
<1>1. Init => Gate!Init
    BY DEF Init, Gate!Init
<1>2. IInv /\ IInv' /\ [Next]_vars => [Gate!Next]_(Gate!vars)
  <2> SUFFICES ASSUME IInv, IInv', [Next]_vars PROVE [Gate!Next]_(Gate!vars)
      OBVIOUS
  <2> USE DEF Gate!vars, locks, gate, local
  <2>1. CASE UNCHANGED vars
      BY <2>1 DEF vars
  <2>2. ASSUME NEW t \in Threads, NewCall(t) \/ Step(t) \/ DestroySpuriousWakeup(t)
        PROVE  [Gate!Next]_(Gate!vars)
    <3>1. CASE OpenTable(t)
      <4>1. PICK h \in Handle : h \notin taken /\ taken' = taken \cup {h}
          BY <3>1 DEF OpenTable, FirstFree
      <4>2. called_destroy = "INIT"
          BY <3>1 DEF OpenTable, Goto, IInv, GateInv
      <4>3. Gate!Open(h)
          BY <3>1, <4>1, <4>2 DEF OpenTable, Gate!Open
      <4> QED
          BY <4>1, <4>3 DEF Gate!Next
    <3>2. CASE CloseRemove(t)
      <4>1. fh[t] \in Handle /\ Gate!Close(fh[t])
          BY <3>2 DEF CloseRemove, Gate!Close, IInv, TypeOK
      <4> QED
          BY <4>1 DEF Gate!Next
    <3>3. CASE DestroySet(t)
      <4>1. Gate!AskShutdown
          BY <3>3 DEF DestroySet, Gate!AskShutdown
      <4> QED
          BY <4>1 DEF Gate!Next
    <3>4. CASE DestroyReturn(t)
      <4>1. called_destroy = "DESTROY"
          BY <3>4 DEF DestroyReturn, Goto, IInv, GateInv
      <4>2. taken = {}
          BY <3>4 DEF DestroyReturn, IInv, GateInv
      <4>3. Gate!GoDown
          BY <3>4, <4>1, <4>2 DEF DestroyReturn, Gate!GoDown
      <4> QED
          BY <4>3 DEF Gate!Next
    <3>5. CASE NewCall(t) \/ DestroySpuriousWakeup(t)
        BY <3>5 DEF NewCall, CallOpen, CallClose, CallAccess, CallDestroy, Call,
           DestroySpuriousWakeup
    <3>6. CASE OpenStep(t) /\ ~OpenTable(t)
        BY <3>6 DEF OpenStep, OpenLock, OpenDestroyLock, OpenCheck, OpenFail, OpenLoad, OpenStore,
           OpenDestroyUnlock, OpenUnlock
    <3>7. CASE CloseStep(t) /\ ~CloseRemove(t)
        BY <3>7 DEF CloseStep, CloseLock, CloseDestroyLock, CloseNotOpen, BadUnlock,
           BadDestroyUnlock, CloseLoad, CloseStore, CloseSignal, CloseUnlock, CloseDestroyUnlock
    <3>8. CASE AccessStep(t)
        BY <3>8 DEF AccessStep, AccessLock, AccessUnlock
    <3>9. CASE DestroyStep(t) /\ ~DestroySet(t) /\ ~DestroyReturn(t)
        BY <3>9 DEF DestroyStep, DestroyLock, DestroyWait, DestroyRelock
    <3> QED
        BY <2>2, <3>1, <3>2, <3>3, <3>4, <3>5, <3>6, <3>7, <3>8, <3>9 DEF Step
  <2> QED
      BY <2>1, <2>2 DEF Next
<1> QED
    BY <1>1, <1>2, Inductive, PTL DEF Spec, ImplementsGate, Gate!Spec
=============================================================================
