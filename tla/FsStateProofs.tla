--------------------------- MODULE FsStateProofs ----------------------------
(***************************************************************************)
(* The tables of state.c stay consistent for every size of the tables and  *)
(* every sequence of calls, and for callers that truncate files others     *)
(* have open or go on using handles they have closed.                      *)
(***************************************************************************)
EXTENDS FsState, WellFoundedInduction, TLAPS

USE SizesAssumption, LenAssumption, NamesAssumption, BytesAssumption
USE DEF ROOT_DIR_INUM, Inumber, Block, Handle, Entry, Offset, Smaller

(***************************************************************************)
(* The helpers.                                                            *)
(***************************************************************************)
LessThan == {ss \in Nat \X Nat : ss[1] < ss[2]}

\* A scan that can find something stops at the least member of the set it scans.
LEMMA FirstLeast ==
    ASSUME NEW s \in SUBSET Nat, s # {}
    PROVE  First(s) \in s /\ \A y \in s : First(s) <= y
<1>1. IsWellFoundedOn(LessThan, Nat)
    BY NatLessThanWellFounded, Zenon DEF LessThan, OpToRel
<1>2. PICK x \in s : \A y \in s : ~(<<y, x>> \in LessThan)
    BY <1>1, WFMin, Zenon
<1>3. \A a, b \in Nat : a < b => <<a, b>> \in LessThan
    BY DEF LessThan
<1>4. \A y \in s : ~(y < x)
    BY <1>2, <1>3, Zenon
<1>5. \A y \in s : x <= y
    BY <1>4
<1> QED
    BY <1>5 DEF First

\* What a scan finds is a member of the set it scans.
LEMMA FirstMember ==
    ASSUME NEW s \in SUBSET Nat, s # {}
    PROVE  First(s) \in s
BY FirstLeast

\* A table that is not full has entries left to scan.
LEMMA EntriesLeft ==
    ASSUME NEW n \in Nat, NEW taken \in SUBSET (0 .. n - 1), taken # 0 .. n - 1
    PROVE  First((0 .. n - 1) \ taken) \in (0 .. n - 1) \ taken
<1>1. (0 .. n - 1) \ taken # {}
    OBVIOUS
<1>2. (0 .. n - 1) \ taken \in SUBSET Nat
    OBVIOUS
<1> QED
    BY <1>1, <1>2, FirstMember

\* find_in_dir returns the i-node of a file, never the root's.
LEMMA LookupFile ==
    ASSUME TypeOK, DirectoryConsistent, NEW n, Exists(n)
    PROVE  Lookup(n) \in taken_inodes \ {ROOT_DIR_INUM}
<1>1. Matches(n) \in SUBSET Nat /\ Matches(n) # {}
    BY DEF Exists, Matches
<1>2. First(Matches(n)) \in Matches(n)
    BY <1>1, FirstMember
<1>3. First(Matches(n)) \in Used
    BY <1>2 DEF Matches, Used
<1> QED
    BY <1>3 DEF Lookup, DirectoryConsistent

\* What a write stores lies in the block.
LEMMA WriteFits ==
    ASSUME TypeOK, NEW h \in Handle, NEW data \in Data
    PROVE  /\ data \in Seq(Byte)
           /\ ToWrite(h, data) \in 0 .. (BLOCK_SIZE - of_offset[h])
           /\ ToWrite(h, data) <= Len(data)
<1>1. PICK n \in 0 .. MaxLen : data \in [1 .. n -> Byte]
    BY DEF Data
<1>2. n \in Nat
    BY <1>1
<1>3. data \in Seq(Byte)
    BY <1>1, <1>2
<1>4. Len(data) \in Nat
    BY <1>3
<1>5. of_offset[h] \in 0 .. BLOCK_SIZE
    BY DEF TypeOK
<1> QED
    BY <1>3, <1>4, <1>5 DEF ToWrite

(***************************************************************************)
(* The inductive invariant: the types, the two properties, and what keeps  *)
(* the root directory's i-node and block out of every caller's reach.      *)
(***************************************************************************)
RootKept ==
    /\ ROOT_DIR_INUM \in taken_inodes
    /\ i_size[ROOT_DIR_INUM] = BLOCK_SIZE
    /\ \A h \in taken_handles : of_inumber[h] # ROOT_DIR_INUM
    /\ \A h \in Handle : of_inumber[h] \in taken_inodes

IInv == TypeOK /\ RootKept /\ BlocksOwnedOnce /\ DirectoryConsistent

\* tfs_init leaves the root directory as the only i-node, with its block.
LEMMA InitIInv == Init => IInv
<1> SUFFICES ASSUME Init PROVE IInv
    OBVIOUS
<1>1. TypeOK
    BY DEF Init, TypeOK
<1>2. RootKept
    BY DEF Init, RootKept
<1>3. BlocksOwnedOnce
    BY DEF Init, BlocksOwnedOnce, Owners
<1>4. DirectoryConsistent
    BY DEF Init, DirectoryConsistent, Used
<1> QED
    BY <1>1, <1>2, <1>3, <1>4 DEF IInv

\* The last step of tfs_open keeps the open file table well formed.
LEMMA AddToTableOK ==
    ASSUME TypeOK, RootKept,
           NEW inum \in Inumber \ {ROOT_DIR_INUM}, inum \in taken_inodes',
           NEW offset \in 0 .. BLOCK_SIZE, AddToTable(inum, offset),
           taken_inodes \subseteq taken_inodes'
    PROVE  /\ taken_handles' \in SUBSET Handle
           /\ of_inumber' \in [Handle -> Inumber]
           /\ of_offset' \in [Handle -> 0 .. BLOCK_SIZE]
           /\ \A h \in taken_handles' : of_inumber'[h] # ROOT_DIR_INUM
           /\ \A h \in Handle : of_inumber'[h] \in taken_inodes'
<1>1. CASE taken_handles = Handle
    BY <1>1 DEF AddToTable, TypeOK, RootKept, table
<1>2. CASE taken_handles # Handle
    <2> DEFINE h == First(Handle \ taken_handles)
    <2>1. h \in Handle
        BY <1>2, EntriesLeft DEF TypeOK
    <2>2. /\ taken_handles' = taken_handles \cup {h}
          /\ of_inumber' = [of_inumber EXCEPT ![h] = inum]
          /\ of_offset' = [of_offset EXCEPT ![h] = offset]
        BY <1>2 DEF AddToTable
    <2> HIDE DEF h
    <2> QED
        BY <2>1, <2>2 DEF TypeOK, RootKept
<1> QED
    BY <1>1, <1>2

(***************************************************************************)
(* The calls.                                                              *)
(***************************************************************************)
LEMMA OpenExistingIInv ==
    ASSUME IInv, NEW n, NEW flags, OpenExisting(n, flags)
    PROVE  IInv'
<1> DEFINE inum  == Lookup(n)
           trunc == "TRUNC" \in flags /\ i_size[inum] > 0
           offset == InitialOffset(inum, flags)
<1>1. inum \in taken_inodes /\ inum # ROOT_DIR_INUM /\ inum \in Inumber
    BY LookupFile DEF IInv, TypeOK, OpenExisting
<1>2. /\ taken_blocks' = IF trunc THEN taken_blocks \ {i_data_block[inum]} ELSE taken_blocks
      /\ i_size' = IF trunc THEN [i_size EXCEPT ![inum] = 0] ELSE i_size
      /\ AddToTable(inum, offset)
      /\ taken_inodes' = taken_inodes /\ i_data_block' = i_data_block
      /\ fs_data' = fs_data /\ d_inumber' = d_inumber /\ d_name' = d_name
    BY DEF OpenExisting, DataBlockFree, directory
<1> HIDE DEF inum
<1>3. i_size' \in [Inumber -> 0 .. BLOCK_SIZE]
    BY <1>1, <1>2 DEF IInv, TypeOK
<1>4. offset \in 0 .. BLOCK_SIZE
    BY <1>1, <1>3 DEF InitialOffset
<1> HIDE DEF offset
<1>5. /\ taken_handles' \in SUBSET Handle
      /\ of_inumber' \in [Handle -> Inumber]
      /\ of_offset' \in [Handle -> 0 .. BLOCK_SIZE]
      /\ \A h \in taken_handles' : of_inumber'[h] # ROOT_DIR_INUM
      /\ \A h \in Handle : of_inumber'[h] \in taken_inodes'
    <2>1. inum \in taken_inodes' /\ taken_inodes \subseteq taken_inodes'
        BY <1>1, <1>2
    <2>2. AddToTable(inum, offset) /\ inum \in Inumber \ {ROOT_DIR_INUM}
        BY <1>1, <1>2
    <2> QED
        BY <1>4, <2>1, <2>2, AddToTableOK DEF IInv
<1>6. TypeOK'
    BY <1>2, <1>3, <1>5 DEF IInv, TypeOK
<1>7. RootKept'
    BY <1>1, <1>2, <1>5 DEF IInv, RootKept, TypeOK
<1>8. BlocksOwnedOnce'
    BY <1>1, <1>2 DEF IInv, BlocksOwnedOnce, Owners, TypeOK
<1>9. DirectoryConsistent'
    BY <1>2 DEF IInv, DirectoryConsistent, Used
<1> QED
    BY <1>6, <1>7, <1>8, <1>9 DEF IInv

\* tfs_open of a new file takes a free i-node and a free entry.
LEMMA OpenCreateIInv ==
    ASSUME IInv, NEW n \in Name \cup {NoName}, NEW flags, OpenCreate(n, flags)
    PROVE  IInv'
<1> DEFINE inum == First(Inumber \ taken_inodes)
           e    == First(FreeEntries)
<1>1. inum \in Inumber \ taken_inodes
    BY EntriesLeft DEF OpenCreate, IInv, TypeOK
<1>2. e \in FreeEntries
    <2>1. FreeEntries \in SUBSET Nat /\ FreeEntries # {}
        BY DEF OpenCreate, FreeEntries
    <2> QED
        BY <2>1, FirstMember
<1>3. /\ ~Exists(n) /\ n # NoName
      /\ taken_inodes' = taken_inodes \cup {inum}
      /\ i_size' = [i_size EXCEPT ![inum] = 0]
      /\ i_data_block' = [i_data_block EXCEPT ![inum] = -1]
      /\ d_inumber' = [d_inumber EXCEPT ![e] = inum]
      /\ d_name' = [d_name EXCEPT ![e] = Cut(n)]
      /\ AddToTable(inum, 0)
      /\ taken_blocks' = taken_blocks /\ fs_data' = fs_data
    BY DEF OpenCreate, InodeCreate
<1> HIDE DEF inum, e
<1>4. e \in Entry /\ d_inumber[e] = -1 /\ inum # ROOT_DIR_INUM
    BY <1>1, <1>2 DEF FreeEntries, IInv, RootKept
<1>5. /\ taken_handles' \in SUBSET Handle
      /\ of_inumber' \in [Handle -> Inumber]
      /\ of_offset' \in [Handle -> 0 .. BLOCK_SIZE]
      /\ \A h \in taken_handles' : of_inumber'[h] # ROOT_DIR_INUM
      /\ \A h \in Handle : of_inumber'[h] \in taken_inodes'
    <2>1. inum \in taken_inodes' /\ taken_inodes \subseteq taken_inodes'
        BY <1>3
    <2>2. inum \in Inumber \ {ROOT_DIR_INUM} /\ 0 \in 0 .. BLOCK_SIZE
        BY <1>1, <1>4
    <2> QED
        BY <1>3, <2>1, <2>2, AddToTableOK DEF IInv
<1>6. TypeOK'
    <2>1. taken_inodes' \in SUBSET Inumber /\ taken_blocks' \in SUBSET Block
        BY <1>1, <1>3 DEF IInv, TypeOK
    <2>2. i_size' \in [Inumber -> 0 .. BLOCK_SIZE]
        BY <1>1, <1>3 DEF IInv, TypeOK
    <2>3. i_data_block' \in [Inumber -> Block \cup {-1}]
        BY <1>1, <1>3 DEF IInv, TypeOK
    <2>4. d_inumber' \in [Entry -> Inumber \cup {-1}]
        BY <1>1, <1>3, <1>4 DEF IInv, TypeOK
    <2>5. d_name' \in [Entry -> Name \cup {NoName}]
        BY <1>3, <1>4 DEF Cut, IInv, TypeOK
    <2>6. fs_data' \in [Block -> [Offset -> Byte]]
        BY <1>3 DEF IInv, TypeOK
    <2> QED
        BY <1>5, <2>1, <2>2, <2>3, <2>4, <2>5, <2>6 DEF TypeOK
<1>7. RootKept'
    BY <1>1, <1>3, <1>4, <1>5 DEF IInv, RootKept, TypeOK
<1>8. BlocksOwnedOnce'
    <2>1. Owners' = Owners
        BY <1>1, <1>3 DEF Owners, IInv, TypeOK
    <2>2. \A i \in Owners : i_data_block'[i] = i_data_block[i]
        BY <1>1, <1>3 DEF Owners, IInv, TypeOK
    <2> QED
        BY <1>3, <2>1, <2>2 DEF IInv, BlocksOwnedOnce
<1>9. DirectoryConsistent'
    <2>1. Used' = Used \cup {e} /\ e \notin Used
        BY <1>1, <1>3, <1>4 DEF Used, IInv, TypeOK
    <2>2. /\ \A f \in Used : d_inumber'[f] = d_inumber[f] /\ d_name'[f] = d_name[f]
          /\ d_inumber'[e] = inum /\ d_name'[e] = Cut(n)
        BY <1>3, <1>4, <2>1 DEF Used, IInv, TypeOK
    <2>3. \A f \in Used : d_inumber[f] \in taken_inodes /\ d_inumber[f] # ROOT_DIR_INUM
        BY DEF IInv, DirectoryConsistent
    <2>4. \A f \in Used : d_name[f] = Cut(n) => Cut(n) = CutName /\ LongName # {}
        BY <1>3 DEF Cut, Exists, Matches, Used
    <2>5. \A f, g \in Used' :
              f # g => /\ d_inumber'[f] # d_inumber'[g]
                       /\ d_name'[f] = d_name'[g] => d_name'[f] = CutName /\ LongName # {}
        BY <1>1, <2>1, <2>2, <2>3, <2>4 DEF IInv, DirectoryConsistent
    <2>6. {d_inumber'[f] : f \in Used'} = {d_inumber[f] : f \in Used} \cup {inum}
        BY <2>1, <2>2
    <2>7. {d_inumber'[f] : f \in Used'} = taken_inodes' \ {ROOT_DIR_INUM}
        BY <1>3, <1>4, <2>6 DEF IInv, DirectoryConsistent
    <2> QED
        BY <2>5, <2>7 DEF DirectoryConsistent
<1> QED
    BY <1>6, <1>7, <1>8, <1>9 DEF IInv

\* A tfs_open that finds no entry for its name gives the i-node back.
LEMMA OpenNoEntryIInv ==
    ASSUME IInv, NEW n, NEW flags, OpenNoEntry(n, flags)
    PROVE  IInv'
<1> DEFINE inum == First(Inumber \ taken_inodes)
<1>1. inum \in Inumber \ taken_inodes
    BY EntriesLeft DEF OpenNoEntry, IInv, TypeOK
<1>2. /\ i_size' = [i_size EXCEPT ![inum] = 0]
      /\ i_data_block' = [i_data_block EXCEPT ![inum] = -1]
      /\ UNCHANGED <<taken_inodes, taken_blocks, fs_data, d_inumber, d_name>>
      /\ UNCHANGED <<taken_handles, of_inumber, of_offset>>
    BY <1>1 DEF OpenNoEntry, InodeCreate, InodeDelete, directory, table
<1> HIDE DEF inum
<1>3. TypeOK'
    <2>1. i_size' \in [Inumber -> 0 .. BLOCK_SIZE]
        BY <1>1, <1>2 DEF IInv, TypeOK
    <2>2. i_data_block' \in [Inumber -> Block \cup {-1}]
        BY <1>1, <1>2 DEF IInv, TypeOK
    <2> QED
        BY <1>2, <2>1, <2>2 DEF IInv, TypeOK
<1>4. RootKept'
    BY <1>1, <1>2 DEF IInv, RootKept, TypeOK
<1>5. BlocksOwnedOnce'
    <2>1. Owners' = Owners
        BY <1>1, <1>2 DEF Owners, IInv, TypeOK
    <2>2. \A i \in Owners : i_data_block'[i] = i_data_block[i]
        BY <1>1, <1>2 DEF Owners, IInv, TypeOK
    <2> QED
        BY <1>2, <2>1, <2>2 DEF IInv, BlocksOwnedOnce
<1>6. DirectoryConsistent'
    BY <1>2 DEF IInv, DirectoryConsistent, Used
<1> QED
    BY <1>3, <1>4, <1>5, <1>6 DEF IInv

\* tfs_close frees an entry of the open file table.
LEMMA CloseIInv ==
    ASSUME IInv, NEW h \in Handle, Close(h)
    PROVE  IInv'
<1>1. /\ taken_handles' = taken_handles \ {h}
      /\ UNCHANGED <<taken_inodes, i_size, i_data_block, taken_blocks, fs_data>>
      /\ UNCHANGED <<d_inumber, d_name, of_inumber, of_offset>>
    BY DEF Close, inodes, directory
<1>2. TypeOK'
    BY <1>1 DEF IInv, TypeOK
<1>3. RootKept'
    BY <1>1 DEF IInv, RootKept, TypeOK
<1>4. BlocksOwnedOnce'
    BY <1>1 DEF IInv, BlocksOwnedOnce, Owners
<1>5. DirectoryConsistent'
    BY <1>1 DEF IInv, DirectoryConsistent, Used
<1> QED
    BY <1>2, <1>3, <1>4, <1>5 DEF IInv

\* A handle that can be used leads to a file.
LEMMA UsableFile ==
    ASSUME IInv, NEW h \in Handle, Usable(h)
    PROVE  of_inumber[h] \in taken_inodes /\ of_inumber[h] # ROOT_DIR_INUM
           /\ of_inumber[h] \in Inumber
BY DEF IInv, RootKept, Usable, TypeOK

\* What the common end of a write does to the block, the size and the offset.
LEMMA StoreOK ==
    ASSUME TypeOK, NEW h \in Handle, NEW b \in Block, NEW data \in Data,
           ToWrite(h, data) > 0, Store(h, b, data)
    PROVE  /\ fs_data' \in [Block -> [Offset -> Byte]]
           /\ of_offset' \in [Handle -> 0 .. BLOCK_SIZE]
           /\ i_size' \in [Inumber -> 0 .. BLOCK_SIZE]
           /\ i_size'[of_inumber[h]] > 0
           /\ of_offset'[h] <= i_size'[of_inumber[h]]
           /\ \A i \in Inumber : i_size'[i] >= i_size[i]
           /\ \A i \in Inumber : i # of_inumber[h] => i_size'[i] = i_size[i]
           /\ \A g \in Handle : g # h => of_offset'[g] = of_offset[g]
           /\ UNCHANGED <<taken_inodes, d_inumber, d_name, taken_handles, of_inumber>>
<1> DEFINE off == of_offset[h]
           n   == ToWrite(h, data)
           i   == of_inumber[h]
<1>1. /\ off \in 0 .. BLOCK_SIZE /\ i \in Inumber /\ i_size[i] \in 0 .. BLOCK_SIZE
      /\ of_offset \in [Handle -> 0 .. BLOCK_SIZE] /\ i_size \in [Inumber -> 0 .. BLOCK_SIZE]
      /\ fs_data \in [Block -> [Offset -> Byte]]
    BY DEF TypeOK
<1>2. n \in 0 .. (BLOCK_SIZE - off) /\ n > 0 /\ n <= Len(data) /\ data \in Seq(Byte)
    BY WriteFits
<1>3. /\ fs_data' = [fs_data EXCEPT ![b] =
                     [k \in Offset |-> IF off <= k /\ k < off + n THEN data[k - off + 1]
                                       ELSE @[k]]]
      /\ of_offset' = [of_offset EXCEPT ![h] = off + n]
      /\ i_size' = IF off + n > i_size[i] THEN [i_size EXCEPT ![i] = off + n] ELSE i_size
      /\ UNCHANGED <<taken_inodes, d_inumber, d_name, taken_handles, of_inumber>>
    BY DEF Store, directory
<1> HIDE DEF n, i, off
<1>4. fs_data' \in [Block -> [Offset -> Byte]]
    <2>1. \A k \in Offset : off <= k /\ k < off + n => data[k - off + 1] \in Byte
        BY <1>1, <1>2
    <2>2. [k \in Offset |-> IF off <= k /\ k < off + n THEN data[k - off + 1]
                            ELSE fs_data[b][k]] \in [Offset -> Byte]
        BY <1>1, <2>1
    <2> QED
        BY <1>1, <1>3, <2>2
<1>5. off + n \in 1 .. BLOCK_SIZE
    BY <1>1, <1>2
<1>6. of_offset' \in [Handle -> 0 .. BLOCK_SIZE] /\ of_offset'[h] = off + n
    BY <1>1, <1>3, <1>5
<1>7. \A g \in Handle : g # h => of_offset'[g] = of_offset[g]
    BY <1>1, <1>3
<1>8. i_size' \in [Inumber -> 0 .. BLOCK_SIZE]
    BY <1>1, <1>3, <1>5, SMTT(60)
<1>9. i_size'[i] >= off + n /\ i_size'[i] >= i_size[i]
    BY <1>1, <1>3, <1>5
<1>10. \A j \in Inumber : j # i => i_size'[j] = i_size[j]
    BY <1>1, <1>3
<1>11. \A j \in Inumber : i_size'[j] >= i_size[j]
    <2> SUFFICES ASSUME NEW j \in Inumber PROVE i_size'[j] >= i_size[j]
        OBVIOUS
    <2>1. i_size[j] \in 0 .. BLOCK_SIZE
        BY <1>1
    <2> QED
        BY <1>9, <1>10, <2>1
<1>12. i_size'[i] > 0 /\ of_offset'[h] <= i_size'[i]
    BY <1>1, <1>5, <1>6, <1>8, <1>9, SMTT(60)
<1> QED
    BY <1>3, <1>4, <1>6, <1>7, <1>8, <1>10, <1>11, <1>12 DEF i

\* tfs_write to a file that has its block.
LEMMA WriteInPlaceIInv ==
    ASSUME IInv, NEW h \in Handle, NEW data \in Data, WriteInPlace(h, data)
    PROVE  IInv'
<1> DEFINE i == of_inumber[h]
           b == i_data_block[i]
<1>1. i \in taken_inodes /\ i # ROOT_DIR_INUM /\ i \in Inumber
    BY UsableFile DEF WriteInPlace
<1>2. i \in Owners
    BY <1>1 DEF WriteInPlace, Owners
<1>3. b \in Block
    BY <1>2 DEF IInv, BlocksOwnedOnce, TypeOK
<1>4. ToWrite(h, data) > 0 /\ Store(h, b, data) /\ UNCHANGED <<i_data_block, taken_blocks>>
    BY DEF WriteInPlace
<1> HIDE DEF b
<1>5. /\ fs_data' \in [Block -> [Offset -> Byte]]
      /\ of_offset' \in [Handle -> 0 .. BLOCK_SIZE]
      /\ i_size' \in [Inumber -> 0 .. BLOCK_SIZE]
      /\ i_size'[i] > 0
      /\ \A j \in Inumber : j # i => i_size'[j] = i_size[j]
      /\ UNCHANGED <<taken_inodes, d_inumber, d_name, taken_handles, of_inumber>>
    BY <1>3, <1>4, StoreOK DEF IInv
<1> HIDE DEF i
<1>6. TypeOK'
    BY <1>4, <1>5 DEF IInv, TypeOK
<1>7. RootKept'
    BY <1>1, <1>4, <1>5 DEF IInv, RootKept
<1>8. BlocksOwnedOnce'
    <2>1. \A j \in taken_inodes : i_size'[j] > 0 <=> i_size[j] > 0
        BY <1>2, <1>5 DEF Owners, IInv, TypeOK
    <2>2. Owners' = Owners
        BY <1>5, <2>1 DEF Owners
    <2> QED
        BY <1>4, <2>2 DEF IInv, BlocksOwnedOnce
<1>9. DirectoryConsistent'
    BY <1>5 DEF IInv, DirectoryConsistent, Used
<1> QED
    BY <1>6, <1>7, <1>8, <1>9 DEF IInv

\* The first tfs_write to an empty file takes a free block.
LEMMA WriteFirstIInv ==
    ASSUME IInv, NEW h \in Handle, NEW data \in Data, WriteFirst(h, data)
    PROVE  IInv'
<1> DEFINE i == of_inumber[h]
           b == First(Block \ taken_blocks)
<1>1. i \in taken_inodes /\ i # ROOT_DIR_INUM /\ i \in Inumber /\ i_size[i] = 0
    BY UsableFile DEF WriteFirst
<1>2. b \in Block \ taken_blocks
    BY EntriesLeft DEF WriteFirst, IInv, TypeOK
<1>3. /\ ToWrite(h, data) > 0 /\ Store(h, b, data)
      /\ taken_blocks' = taken_blocks \cup {b}
      /\ i_data_block' = [i_data_block EXCEPT ![i] = b]
    BY DEF WriteFirst
<1> HIDE DEF b
<1>4. /\ fs_data' \in [Block -> [Offset -> Byte]]
      /\ of_offset' \in [Handle -> 0 .. BLOCK_SIZE]
      /\ i_size' \in [Inumber -> 0 .. BLOCK_SIZE]
      /\ i_size'[i] > 0
      /\ \A j \in Inumber : j # i => i_size'[j] = i_size[j]
      /\ UNCHANGED <<taken_inodes, d_inumber, d_name, taken_handles, of_inumber>>
    BY <1>2, <1>3, StoreOK DEF IInv
<1> HIDE DEF i
<1>5. TypeOK'
    BY <1>1, <1>2, <1>3, <1>4 DEF IInv, TypeOK
<1>6. RootKept'
    BY <1>1, <1>4 DEF IInv, RootKept
<1>7. BlocksOwnedOnce'
    <2>1. \A j \in taken_inodes : j # i => i_size'[j] = i_size[j]
        BY <1>4 DEF IInv, TypeOK
    <2>2. i \notin Owners
        BY <1>1 DEF Owners
    <2>3. ASSUME NEW j PROVE j \in Owners' <=> j \in Owners \/ j = i
        BY <1>1, <1>4, <2>1 DEF Owners
    <2>4. Owners' = Owners \cup {i}
        BY <2>3
    <2>5. /\ i_data_block'[i] = b
          /\ \A j \in Owners : i_data_block'[j] = i_data_block[j]
        BY <1>1, <1>3, <2>2 DEF Owners, IInv, TypeOK
    <2>6. \A j \in Owners : i_data_block[j] # b
        BY <1>2 DEF IInv, BlocksOwnedOnce
    <2> QED
        BY <1>3, <2>4, <2>5, <2>6 DEF IInv, BlocksOwnedOnce
<1>8. DirectoryConsistent'
    BY <1>4 DEF IInv, DirectoryConsistent, Used
<1> QED
    BY <1>5, <1>6, <1>7, <1>8 DEF IInv

\* tfs_write with no block left.
LEMMA WriteNoBlockIInv ==
    ASSUME IInv, NEW h \in Handle, NEW data, WriteNoBlock(h, data)
    PROVE  IInv'
<1> DEFINE i == of_inumber[h]
<1>1. i \in taken_inodes /\ i # ROOT_DIR_INUM /\ i \in Inumber /\ i_size[i] = 0
    BY UsableFile DEF WriteNoBlock
<1>2. /\ i_data_block' = [i_data_block EXCEPT ![i] = -1]
      /\ UNCHANGED <<taken_inodes, i_size, taken_blocks, fs_data, d_inumber, d_name>>
      /\ UNCHANGED <<taken_handles, of_inumber, of_offset>>
    BY DEF WriteNoBlock, directory, table
<1> HIDE DEF i
<1>3. TypeOK'
    <2>1. i_data_block' \in [Inumber -> Block \cup {-1}]
        BY <1>1, <1>2 DEF IInv, TypeOK
    <2> QED
        BY <1>2, <2>1 DEF IInv, TypeOK
<1>4. RootKept'
    BY <1>2 DEF IInv, RootKept
<1>5. BlocksOwnedOnce'
    <2>1. Owners' = Owners /\ i \notin Owners
        BY <1>1, <1>2 DEF Owners
    <2>2. \A j \in Owners : i_data_block'[j] = i_data_block[j]
        BY <1>2, <2>1 DEF Owners, IInv, TypeOK
    <2> QED
        BY <1>2, <2>1, <2>2 DEF IInv, BlocksOwnedOnce
<1>6. DirectoryConsistent'
    BY <1>2 DEF IInv, DirectoryConsistent, Used
<1> QED
    BY <1>3, <1>4, <1>5, <1>6 DEF IInv

\* The number of bytes a read takes: with the offset inside the file it is what is left
\* of the file or less, since size_t does not wrap around.
LEMMA ReadLength ==
    ASSUME TypeOK, NEW h \in Handle, NEW len \in 0 .. MaxLen
    PROVE  /\ ToRead(h, len) \in Nat
           /\ of_offset[h] <= i_size[of_inumber[h]]
                  => of_offset[h] + ToRead(h, len) <= i_size[of_inumber[h]]
<1> DEFINE d == i_size[of_inumber[h]] - of_offset[h]
<1>1. of_offset[h] \in 0 .. BLOCK_SIZE /\ i_size[of_inumber[h]] \in 0 .. BLOCK_SIZE
    BY DEF TypeOK
<1>2. d \in Int /\ d < SIZE_T /\ SIZE_T \in Nat \ {0}
    BY <1>1
<1>3. d % SIZE_T \in Nat
    BY <1>2
<1>4. d >= 0 => d % SIZE_T = d
    BY <1>2
<1> QED
    BY <1>1, <1>3, <1>4 DEF ToRead

\* tfs_read moves the offset.
LEMMA ReadIInv ==
    ASSUME IInv, NEW h \in Handle, NEW len \in 0 .. MaxLen, Read(h, len)
    PROVE  IInv'
<1> DEFINE n == ToRead(h, len)
<1>1. /\ n > 0 => of_offset[h] + n <= BLOCK_SIZE
      /\ of_offset' = [of_offset EXCEPT ![h] = @ + n]
      /\ UNCHANGED <<taken_inodes, i_size, i_data_block, taken_blocks, fs_data>>
      /\ UNCHANGED <<d_inumber, d_name, taken_handles, of_inumber>>
    BY DEF Read, inodes, directory
<1>2. n \in Nat /\ of_offset[h] \in 0 .. BLOCK_SIZE
    BY ReadLength DEF IInv, TypeOK
<1> HIDE DEF n
<1>3. of_offset[h] + n \in 0 .. BLOCK_SIZE
    BY <1>1, <1>2
<1>4. TypeOK'
    BY <1>1, <1>3 DEF IInv, TypeOK
<1>5. RootKept'
    BY <1>1 DEF IInv, RootKept
<1>6. BlocksOwnedOnce'
    BY <1>1 DEF IInv, BlocksOwnedOnce, Owners
<1>7. DirectoryConsistent'
    BY <1>1 DEF IInv, DirectoryConsistent, Used
<1> QED
    BY <1>4, <1>5, <1>6, <1>7 DEF IInv

\* A call that fails at once.
LEMMA UnchangedIInv ==
    ASSUME IInv, UNCHANGED <<inodes, taken_blocks, fs_data, directory, table>>
    PROVE  IInv'
<1>1. /\ UNCHANGED <<taken_inodes, i_size, i_data_block, taken_blocks, fs_data>>
      /\ UNCHANGED <<d_inumber, d_name, taken_handles, of_inumber, of_offset>>
    BY DEF inodes, directory, table
<1>2. TypeOK'
    BY <1>1 DEF IInv, TypeOK
<1>3. RootKept'
    BY <1>1 DEF IInv, RootKept
<1>4. BlocksOwnedOnce'
    BY <1>1 DEF IInv, BlocksOwnedOnce, Owners
<1>5. DirectoryConsistent'
    BY <1>1 DEF IInv, DirectoryConsistent, Used
<1> QED
    BY <1>2, <1>3, <1>4, <1>5 DEF IInv

\* Every call keeps the invariant.
LEMMA NextIInv == IInv /\ [Next]_vars => IInv'
<1> SUFFICES ASSUME IInv, [Next]_vars PROVE IInv'
    OBVIOUS
<1>1. ASSUME NEW n \in Name \cup {NoName}, NEW flags \in SUBSET Flags, OpenCall(n, flags)
      PROVE  IInv'
    <2>1. CASE OpenExisting(n, flags)
        BY <2>1, OpenExistingIInv
    <2>2. CASE OpenCreate(n, flags)
        BY <2>2, OpenCreateIInv
    <2>3. CASE OpenNoEntry(n, flags)
        BY <2>3, OpenNoEntryIInv
    <2>4. CASE OpenFails(n, flags)
        BY <2>4, UnchangedIInv DEF OpenFails
    <2> QED
        BY <1>1, <2>1, <2>2, <2>3, <2>4 DEF OpenCall
<1>2. ASSUME NEW h \in Handle, Close(h)
      PROVE  IInv'
    BY <1>2, CloseIInv
<1>3. ASSUME NEW h \in Handle, NEW data \in Data, WriteCall(h, data)
      PROVE  IInv'
    <2>1. CASE WriteNothing(h, data)
        BY <2>1, UnchangedIInv DEF WriteNothing
    <2>2. CASE WriteInPlace(h, data)
        BY <2>2, WriteInPlaceIInv
    <2>3. CASE WriteFirst(h, data)
        BY <2>3, WriteFirstIInv
    <2>4. CASE WriteNoBlock(h, data)
        BY <2>4, WriteNoBlockIInv
    <2> QED
        BY <1>3, <2>1, <2>2, <2>3, <2>4 DEF WriteCall
<1>4. ASSUME NEW h \in Handle, NEW len \in 0 .. MaxLen, Read(h, len) \/ ReadNoBlock(h, len)
      PROVE  IInv'
    <2>1. CASE Read(h, len)
        BY <2>1, ReadIInv
    <2>2. CASE ReadNoBlock(h, len)
        BY <2>2, UnchangedIInv DEF ReadNoBlock
    <2> QED
        BY <1>4, <2>1, <2>2
<1>5. CASE UNCHANGED vars
    BY <1>5, UnchangedIInv DEF vars
<1> QED
    BY <1>1, <1>2, <1>3, <1>4, <1>5 DEF Next

\* The invariant holds after any sequence of calls.
LEMMA Inductive == Spec => []IInv
BY InitIInv, NextIInv, PTL DEF Spec

\* Sizes, offsets and block numbers never leave their tables, whatever the callers do.
THEOREM TypeCorrect == Spec => []TypeOK
BY Inductive, PTL DEF IInv

\* data_block_alloc, data_block_free and truncation never leak a block and never give one
\* to two files, even for callers that truncate open files or use closed handles.
THEOREM BlocksSafe == Spec => []BlocksOwnedOnce
BY Inductive, PTL DEF IInv

\* Failed creations included, entries and i-nodes match one to one for ever, and add_dir_entry
\* never repeats a name that find_in_dir can find.
THEOREM DirectorySafe == Spec => []DirectoryConsistent
BY Inductive, PTL DEF IInv

(***************************************************************************)
(* A name goes on leading to the same file.  Entries are taken in order    *)
(* and never given back, so a new one comes after all that are in use.     *)
(***************************************************************************)
EntriesFilled == \A e \in Used, f \in Entry : f < e => f \in Used

\* Only a creation changes the directory.
LEMMA DirectoryStep ==
    ASSUME [Next]_vars
    PROVE  \/ UNCHANGED directory
           \/ \E n \in Name \cup {NoName}, flags \in SUBSET Flags : OpenCreate(n, flags)
<1>1. ASSUME NEW n \in Name \cup {NoName}, NEW flags \in SUBSET Flags, OpenCall(n, flags)
      PROVE  UNCHANGED directory \/ OpenCreate(n, flags)
    BY <1>1 DEF OpenCall, OpenExisting, OpenNoEntry, OpenFails, directory
<1>2. ASSUME NEW h \in Handle, NEW data \in Data, WriteCall(h, data)
      PROVE  UNCHANGED directory
    BY <1>2 DEF WriteCall, WriteNothing, WriteInPlace, WriteFirst, WriteNoBlock, Store, directory
<1>3. ASSUME NEW h \in Handle, NEW len \in 0 .. MaxLen,
             Close(h) \/ Read(h, len) \/ ReadNoBlock(h, len)
      PROVE  UNCHANGED directory
    BY <1>3 DEF Close, Read, ReadNoBlock, directory
<1>4. 0 \in 0 .. MaxLen
    OBVIOUS
<1> QED
    BY <1>1, <1>2, <1>3, <1>4 DEF Next, vars

\* What a creation does to the directory: it fills the entry after those in use.
LEMMA CreateEntry ==
    ASSUME TypeOK, EntriesFilled, NEW n \in Name \cup {NoName}, NEW flags, OpenCreate(n, flags)
    PROVE  \E e \in Entry :
              /\ Used' = Used \cup {e} /\ d_inumber[e] = -1
              /\ \A f \in Used : f < e
              /\ \A f \in Entry : f < e => f \in Used
              /\ \A f \in Used : d_inumber'[f] = d_inumber[f] /\ d_name'[f] = d_name[f]
<1> DEFINE inum == First(Inumber \ taken_inodes)
           e    == First(FreeEntries)
<1>1. inum \in Inumber
    BY EntriesLeft DEF OpenCreate, TypeOK
<1>2. FreeEntries \in SUBSET Nat /\ FreeEntries # {}
    BY DEF OpenCreate, FreeEntries
<1>3. e \in FreeEntries /\ \A f \in FreeEntries : e <= f
    BY <1>2, FirstLeast
<1>4. /\ d_inumber' = [d_inumber EXCEPT ![e] = inum]
      /\ d_name' = [d_name EXCEPT ![e] = Cut(n)]
    BY DEF OpenCreate
<1> HIDE DEF inum, e
<1>5. e \in Entry /\ d_inumber[e] = -1
    BY <1>3 DEF FreeEntries
<1>6. Used' = Used \cup {e}
    BY <1>1, <1>4, <1>5 DEF Used, TypeOK
<1>7. \A f \in Used : f < e
    BY <1>5 DEF Used, EntriesFilled
<1>8. \A f \in Entry : f < e => f \in Used
    BY <1>3, <1>5 DEF FreeEntries, Used
<1>9. \A f \in Used : d_inumber'[f] = d_inumber[f] /\ d_name'[f] = d_name[f]
    BY <1>4, <1>5, <1>7 DEF Used, TypeOK
<1> QED
    BY <1>5, <1>6, <1>7, <1>8, <1>9

\* No call leaves a gap among the entries in use.
LEMMA NextFilled ==
    ASSUME TypeOK, EntriesFilled, [Next]_vars
    PROVE  EntriesFilled'
<1>1. CASE UNCHANGED directory
    BY <1>1 DEF directory, EntriesFilled, Used
<1>2. ASSUME NEW n \in Name \cup {NoName}, NEW flags, OpenCreate(n, flags)
      PROVE  EntriesFilled'
    BY <1>2, CreateEntry DEF EntriesFilled
<1> QED
    BY <1>1, <1>2, DirectoryStep

\* A name goes on leading to its file, whatever the call.
LEMMA NextLookup ==
    ASSUME TypeOK, EntriesFilled, [Next]_vars, NEW n \in Name, Exists(n)
    PROVE  Exists(n)' /\ Lookup(n)' = Lookup(n)
<1> DEFINE m == First(Matches(n))
<1>1. Matches(n) \in SUBSET Nat /\ Matches(n) # {}
    BY DEF Exists, Matches
<1>2. m \in Matches(n) /\ \A f \in Matches(n) : m <= f
    BY <1>1, FirstLeast
<1>3. CASE UNCHANGED directory
    <2>1. Matches(n)' = Matches(n)
        BY <1>3 DEF directory, Matches
    <2> QED
        BY <1>3, <2>1 DEF directory, Exists, Lookup, First
<1>4. ASSUME NEW c \in Name \cup {NoName}, NEW flags, OpenCreate(c, flags)
      PROVE  Exists(n)' /\ Lookup(n)' = Lookup(n)
    <2>1. PICK e \in Entry :
              /\ Used' = Used \cup {e} /\ d_inumber[e] = -1
              /\ \A f \in Used : f < e
              /\ \A f \in Used : d_inumber'[f] = d_inumber[f] /\ d_name'[f] = d_name[f]
        BY <1>4, CreateEntry
    <2>2. m \in Used
        BY <1>2 DEF Matches, Used
    <2> HIDE DEF m
    <2>3. Matches(n)' \subseteq Matches(n) \cup {e}
        BY <2>1 DEF Matches, Used
    <2>4. m \in Matches(n)'
        BY <1>2, <2>1, <2>2 DEF Matches, Used
    <2>5. \A f \in Matches(n)' : m <= f
        <3>1. m < e
            BY <2>1, <2>2
        <3>2. m \in Nat /\ e \in Nat
            BY <2>2 DEF Used
        <3>3. m <= e
            BY <3>1, <3>2
        <3> QED
            BY <1>2, <2>3, <3>3
    <2>6. Matches(n)' \in SUBSET Nat
        BY DEF Matches
    <2>7. First(Matches(n)') = m
        <3>1. First(Matches(n)') \in Matches(n)' /\ First(Matches(n)') <= m
            BY <2>4, <2>6, FirstLeast
        <3> QED
            BY <2>4, <2>5, <2>6, <3>1
    <2>8. Lookup(n)' = d_inumber'[m] /\ Lookup(n) = d_inumber[m]
        BY <2>7 DEF Lookup, First, m
    <2> QED
        BY <2>1, <2>2, <2>4, <2>8 DEF Exists
<1> QED
    BY <1>3, <1>4, DirectoryStep

\* A name that leads to a file leads to it for ever, whatever is created: an entry whose
\* name was cut to that name comes later in the directory than the file's own.
THEOREM LookupsStable == Spec => LookupStable
<1>1. Init => EntriesFilled
    BY DEF Init, EntriesFilled, Used
<1>2. TypeOK /\ EntriesFilled /\ [Next]_vars => EntriesFilled'
    BY NextFilled
<1>3. TypeOK /\ EntriesFilled /\ [Next]_vars
          => [\A n \in Name : Exists(n) => Exists(n)' /\ Lookup(n)' = Lookup(n)]_vars
    BY NextLookup
<1> QED
    BY <1>1, <1>2, <1>3, TypeCorrect, PTL DEF Spec, LookupStable

(***************************************************************************)
(* Offsets stay inside the files when nobody truncates an open file.       *)
(***************************************************************************)
LEMMA InitOffsets == Init => OffsetsInFile
BY DEF Init, OffsetsInFile

\* No call puts a handle past the end of its file.
LEMMA NextOffsets ==
    ASSUME ~SharedTruncate, IInv, OffsetsInFile, [Next]_vars
    PROVE  OffsetsInFile'
<1> USE DEF OffsetsInFile
<1>1. ASSUME UNCHANGED <<inodes, taken_blocks, fs_data, directory, table>>
      PROVE  OffsetsInFile'
    BY <1>1 DEF inodes, table
<1>2. ASSUME NEW n, NEW flags, OpenExisting(n, flags)
      PROVE  OffsetsInFile'
    <2> DEFINE inum  == Lookup(n)
               trunc == "TRUNC" \in flags /\ i_size[inum] > 0
               offset == InitialOffset(inum, flags)
               g == First(Handle \ taken_handles)
    <2>1. inum \in taken_inodes /\ inum # ROOT_DIR_INUM /\ inum \in Inumber
        BY <1>2, LookupFile DEF IInv, TypeOK, OpenExisting
    <2>2. /\ "TRUNC" \in flags => \A h \in taken_handles : of_inumber[h] # inum
          /\ i_size' = IF trunc THEN [i_size EXCEPT ![inum] = 0] ELSE i_size
          /\ AddToTable(inum, offset) /\ taken_inodes' = taken_inodes
        BY <1>2 DEF OpenExisting
    <2> HIDE DEF inum
    <2>3. i_size' \in [Inumber -> 0 .. BLOCK_SIZE]
        BY <2>1, <2>2 DEF IInv, TypeOK
    <2>4. offset <= i_size'[inum]
        BY <2>1, <2>3 DEF InitialOffset
    <2> HIDE DEF offset
    <2>5. \A h \in taken_handles : of_offset[h] <= i_size'[of_inumber[h]]
        BY <2>1, <2>2 DEF IInv, TypeOK
    <2>6. CASE taken_handles = Handle
        BY <2>2, <2>5, <2>6 DEF AddToTable, table
    <2>7. CASE taken_handles # Handle
        <3>1. g \in Handle \ taken_handles
            BY <2>7, EntriesLeft DEF IInv, TypeOK
        <3>2. /\ taken_handles' = taken_handles \cup {g}
              /\ of_inumber' = [of_inumber EXCEPT ![g] = inum]
              /\ of_offset' = [of_offset EXCEPT ![g] = offset]
            BY <2>2, <2>7 DEF AddToTable
        <3> HIDE DEF g
        <3> QED
            BY <2>1, <2>2, <2>4, <2>5, <3>1, <3>2 DEF IInv, TypeOK
    <2> QED
        BY <2>6, <2>7
<1>3. ASSUME NEW n, NEW flags, OpenCreate(n, flags)
      PROVE  OffsetsInFile'
    <2> DEFINE inum == First(Inumber \ taken_inodes)
               g == First(Handle \ taken_handles)
    <2>1. inum \in Inumber \ taken_inodes
        BY <1>3, EntriesLeft DEF OpenCreate, IInv, TypeOK
    <2>2. /\ taken_inodes' = taken_inodes \cup {inum}
          /\ i_size' = [i_size EXCEPT ![inum] = 0]
          /\ AddToTable(inum, 0)
        BY <1>3 DEF OpenCreate, InodeCreate
    <2> HIDE DEF inum
    <2>3. inum # ROOT_DIR_INUM /\ i_size'[inum] = 0
        BY <2>1, <2>2 DEF IInv, RootKept, TypeOK
    <2>4. \A h \in taken_handles : of_offset[h] <= i_size'[of_inumber[h]]
        BY <2>1, <2>2 DEF IInv, TypeOK
    <2>5. CASE taken_handles = Handle
        BY <2>2, <2>4, <2>5 DEF AddToTable, table
    <2>6. CASE taken_handles # Handle
        <3>1. g \in Handle \ taken_handles
            BY <2>6, EntriesLeft DEF IInv, TypeOK
        <3>2. /\ taken_handles' = taken_handles \cup {g}
              /\ of_inumber' = [of_inumber EXCEPT ![g] = inum]
              /\ of_offset' = [of_offset EXCEPT ![g] = 0]
            BY <2>2, <2>6 DEF AddToTable
        <3> HIDE DEF g
        <3>3. of_inumber'[g] = inum /\ of_offset'[g] = 0
            BY <3>1, <3>2 DEF IInv, TypeOK
        <3>4. \A h \in taken_handles :
                  of_inumber'[h] = of_inumber[h] /\ of_offset'[h] = of_offset[h]
            BY <3>1, <3>2 DEF IInv, TypeOK
        <3> QED
            BY <2>2, <2>3, <2>4, <3>2, <3>3, <3>4
    <2> QED
        BY <2>5, <2>6
<1>4. ASSUME NEW n, NEW flags, OpenNoEntry(n, flags)
      PROVE  OffsetsInFile'
    <2> DEFINE inum == First(Inumber \ taken_inodes)
    <2>1. inum \in Inumber \ taken_inodes
        BY <1>4, EntriesLeft DEF OpenNoEntry, IInv, TypeOK
    <2>2. /\ i_size' = [i_size EXCEPT ![inum] = 0]
          /\ UNCHANGED <<taken_inodes, taken_handles, of_inumber, of_offset>>
        BY <1>4, <2>1 DEF OpenNoEntry, InodeCreate, InodeDelete, table
    <2> HIDE DEF inum
    <2> QED
        BY <2>1, <2>2 DEF IInv, TypeOK
<1>5. ASSUME NEW h \in Handle, Close(h)
      PROVE  OffsetsInFile'
    BY <1>5 DEF Close, inodes
<1>6. ASSUME NEW h \in Handle, NEW data \in Data, NEW b \in Block,
             ToWrite(h, data) > 0, Store(h, b, data)
      PROVE  OffsetsInFile'
    <2>1. /\ of_offset'[h] <= i_size'[of_inumber[h]]
          /\ i_size' \in [Inumber -> 0 .. BLOCK_SIZE]
          /\ \A i \in Inumber : i_size'[i] >= i_size[i]
          /\ \A g \in Handle : g # h => of_offset'[g] = of_offset[g]
          /\ UNCHANGED <<taken_inodes, taken_handles, of_inumber>>
        BY <1>6, StoreOK DEF IInv
    <2> SUFFICES ASSUME NEW g \in taken_handles
                 PROVE  of_offset'[g] <= i_size'[of_inumber[g]]
        BY <2>1
    <2>2. CASE g = h
        BY <2>1, <2>2
    <2>3. CASE g # h
        <3>1. /\ of_offset[g] \in Nat /\ i_size[of_inumber[g]] \in Nat
              /\ i_size'[of_inumber[g]] \in Nat /\ of_inumber[g] \in Inumber /\ g \in Handle
            BY <2>1 DEF IInv, TypeOK
        <3>2. of_offset[g] <= i_size[of_inumber[g]]
            OBVIOUS
        <3> QED
            BY <2>1, <2>3, <3>1, <3>2
    <2> QED
        BY <2>2, <2>3
<1>7. ASSUME NEW h \in Handle, NEW data \in Data, WriteInPlace(h, data)
      PROVE  OffsetsInFile'
    <2>1. of_inumber[h] \in Owners
        BY <1>7, UsableFile DEF WriteInPlace, Owners
    <2>2. i_data_block[of_inumber[h]] \in Block
        BY <2>1 DEF IInv, BlocksOwnedOnce, TypeOK
    <2> QED
        BY <1>6, <1>7, <2>2 DEF WriteInPlace
<1>8. ASSUME NEW h \in Handle, NEW data \in Data, WriteFirst(h, data)
      PROVE  OffsetsInFile'
    <2>1. First(Block \ taken_blocks) \in Block
        BY <1>8, EntriesLeft DEF WriteFirst, IInv, TypeOK
    <2> QED
        BY <1>6, <1>8, <2>1 DEF WriteFirst
<1>9. ASSUME NEW h \in Handle, NEW data, WriteNoBlock(h, data)
      PROVE  OffsetsInFile'
    BY <1>9 DEF WriteNoBlock, table
<1>10. ASSUME NEW h \in Handle, NEW len \in 0 .. MaxLen, Read(h, len)
       PROVE  OffsetsInFile'
    <2> DEFINE n == ToRead(h, len)
    <2>1. /\ of_offset' = [of_offset EXCEPT ![h] = @ + n]
          /\ UNCHANGED <<taken_inodes, i_size, taken_handles, of_inumber>>
        BY <1>10 DEF Read, inodes
    <2>2. of_offset[h] <= i_size[of_inumber[h]] => of_offset[h] + n <= i_size[of_inumber[h]]
        BY ReadLength DEF IInv
    <2> HIDE DEF n
    <2> QED
        BY <2>1, <2>2 DEF IInv, TypeOK
<1>11. CASE Next
    <2>1. ASSUME NEW n \in Name \cup {NoName}, NEW flags \in SUBSET Flags, OpenCall(n, flags)
          PROVE  OffsetsInFile'
        <3>1. OpenFails(n, flags) => OffsetsInFile'
            BY <1>1 DEF OpenFails
        <3> QED
            BY <1>2, <1>3, <1>4, <2>1, <3>1 DEF OpenCall
    <2>2. ASSUME NEW h \in Handle, NEW data \in Data, WriteCall(h, data)
          PROVE  OffsetsInFile'
        <3>1. WriteNothing(h, data) => OffsetsInFile'
            BY <1>1 DEF WriteNothing
        <3> QED
            BY <1>7, <1>8, <1>9, <2>2, <3>1 DEF WriteCall
    <2>3. ASSUME NEW h \in Handle, NEW len \in 0 .. MaxLen, ReadNoBlock(h, len)
          PROVE  OffsetsInFile'
        BY <1>1, <2>3 DEF ReadNoBlock
    <2> QED
        BY <1>5, <1>10, <1>11, <2>1, <2>2, <2>3 DEF Next
<1>12. CASE UNCHANGED vars
    BY <1>1, <1>12 DEF vars
<1> QED
    BY <1>11, <1>12

\* When no caller truncates a file that is open, no handle is ever past the end of its
\* file, so the unsigned subtractions of tfs_read and tfs_write never wrap around.
THEOREM OffsetsSafe == ~SharedTruncate => (Spec => []OffsetsInFile)
<1> SUFFICES ASSUME ~SharedTruncate PROVE Spec => []OffsetsInFile
    OBVIOUS
<1>1. IInv /\ OffsetsInFile /\ [Next]_vars => OffsetsInFile'
    BY NextOffsets
<1> QED
    BY <1>1, Inductive, InitOffsets, PTL DEF Spec
=============================================================================
