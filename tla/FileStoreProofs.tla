--------------------------- MODULE FileStoreProofs --------------------------
(***************************************************************************)
(* FsState implements FileStore: through directory, i-nodes, blocks and    *)
(* the open file table, every call does to the files what FileStore says.  *)
(* This is for callers that use open handles, truncate no open file and    *)
(* use names that are stored as they are.                                  *)
(***************************************************************************)
EXTENDS FsStateProofs, SequenceTheorems

ProperCallers == ~SharedTruncate /\ ~StaleHandles /\ LongName = {}

\* The files and the handles as the refinement mapping gives them.
FilesNow == [n \in {m \in Name : Exists(m)} |-> Contents(Lookup(n))]
TableNow == [h \in taken_handles |-> [name |-> NameOf(of_inumber[h]), pos |-> of_offset[h]]]

(***************************************************************************)
(* Names and i-nodes correspond one to one.                                *)
(***************************************************************************)
NamesStored == \A e \in Used : d_name[e] \in Name

StoreInv == IInv /\ EntriesFilled /\ OffsetsInFile /\ NamesStored

\* The entry that a name leads to is the only one of that name.
LEMMA EntryFound ==
    ASSUME ProperCallers, StoreInv, NEW e \in Used
    PROVE  Exists(d_name[e]) /\ Lookup(d_name[e]) = d_inumber[e]
<1> DEFINE n == d_name[e]
<1>1. n \in Name /\ n # NoName /\ e \in Entry
    BY NamesAssumption DEF StoreInv, NamesStored, Used
<1>2. Matches(n) = {e}
    BY <1>1 DEF StoreInv, IInv, DirectoryConsistent, Matches, Used, ProperCallers
<1>3. First(Matches(n)) = e
  <2>1. Matches(n) \in SUBSET Nat /\ Matches(n) # {}
    BY <1>2, <1>1 DEF Entry
  <2> QED
    BY <1>2, <2>1, FirstMember
<1> QED
    BY <1>2, <1>3 DEF Exists, Lookup

\* The name of a file that is looked up is the name it was looked up by.
LEMMA LookupNamed ==
    ASSUME ProperCallers, StoreInv, NEW n \in Name, Exists(n)
    PROVE  Lookup(n) \in taken_inodes \ {ROOT_DIR_INUM} /\ NameOf(Lookup(n)) = n
<1> DEFINE e == First(Matches(n))
<1>1. e \in Matches(n)
  <2>1. Matches(n) \in SUBSET Nat /\ Matches(n) # {}
    BY DEF Exists, Matches, Entry
  <2> QED
    BY <2>1, FirstMember
<1>2. e \in Used /\ d_name[e] = n /\ d_inumber[e] = Lookup(n)
    BY <1>1 DEF Matches, Used, Lookup
<1>3. \A f \in Used : d_inumber[f] = Lookup(n) => f = e
    BY <1>2 DEF StoreInv, IInv, DirectoryConsistent
<1>4. (CHOOSE f \in Used : d_inumber[f] = Lookup(n)) = e
    BY <1>2, <1>3
<1> QED
    BY <1>2, <1>4, LookupFile DEF NameOf, StoreInv, IInv

\* The i-node of a file is found by the file's name.
LEMMA NamedLookup ==
    ASSUME ProperCallers, StoreInv, NEW i \in taken_inodes \ {ROOT_DIR_INUM}
    PROVE  NameOf(i) \in Name /\ Exists(NameOf(i)) /\ Lookup(NameOf(i)) = i
<1> DEFINE e == CHOOSE f \in Used : d_inumber[f] = i
<1>1. \E f \in Used : d_inumber[f] = i
    BY DEF StoreInv, IInv, DirectoryConsistent
<1>2. e \in Used /\ d_inumber[e] = i
    BY <1>1
<1> QED
    BY <1>2, EntryFound DEF NameOf, StoreInv, NamesStored

\* tfs_init leaves no entry.
LEMMA InitStoreInv == Init => StoreInv
<1> SUFFICES ASSUME Init PROVE StoreInv
    OBVIOUS
<1>1. Used = {}
    BY DEF Init, Used
<1> QED
    BY <1>1, InitIInv, InitOffsets DEF StoreInv, EntriesFilled, NamesStored

\* add_dir_entry stores the name of the file that is created.
LEMMA NextStored ==
    ASSUME TypeOK, NamesStored, [Next]_vars
    PROVE  NamesStored'
<1>1. CASE UNCHANGED directory
    BY <1>1 DEF directory, NamesStored, Used
<1>2. ASSUME NEW n \in Name \cup {NoName}, NEW flags \in SUBSET Flags, OpenCreate(n, flags)
      PROVE  NamesStored'
  <2> DEFINE e == First(FreeEntries)
  <2>1. e \in Entry
    <3>1. FreeEntries \in SUBSET Nat /\ FreeEntries # {}
        BY <1>2 DEF OpenCreate, FreeEntries, Entry
    <3>2. e \in FreeEntries
        BY <3>1, FirstMember
    <3> QED
        BY <3>2 DEF FreeEntries
  <2>2. Cut(n) \in Name
    BY <1>2, NamesAssumption DEF Cut, OpenCreate
  <2>3. d_name' = [d_name EXCEPT ![e] = Cut(n)]
    BY <1>2 DEF OpenCreate
  <2>4. \A f \in Entry : f # e => d_inumber'[f] = d_inumber[f]
    BY <1>2 DEF OpenCreate, TypeOK
  <2> QED
    BY <2>1, <2>2, <2>3, <2>4 DEF NamesStored, Used, TypeOK
<1> QED
    BY <1>1, <1>2, DirectoryStep

\* Every call keeps what the refinement needs.
LEMMA NextStoreInv ==
    ASSUME ProperCallers, StoreInv, [Next]_vars
    PROVE  StoreInv'
BY NextIInv, NextFilled, NextOffsets, NextStored DEF StoreInv, IInv, ProperCallers

\* A file that is looked up has the name it was looked up by.
NamesFound == \A n \in Name : Exists(n) => NameOf(Lookup(n)) = n

\* Names and i-nodes correspond, so it does.
LEMMA FilesNamed == ProperCallers /\ StoreInv => NamesFound
BY LookupNamed DEF NamesFound

\* It is so in the next state as well.
LEMMA NextNamed == ProperCallers' /\ StoreInv' => NamesFound'
BY FilesNamed, PTL

\* The name of a file stays its name.
LEMMA NameKept ==
    ASSUME ProperCallers, StoreInv, [Next]_vars, NEW i \in taken_inodes \ {ROOT_DIR_INUM}
    PROVE  NameOf(i)' = NameOf(i)
<1>1. PICK n \in Name : n = NameOf(i) /\ Exists(n) /\ Lookup(n) = i
    BY NamedLookup
<1>2. Exists(n)' /\ Lookup(n)' = i
    BY <1>1, NextLookup DEF StoreInv, IInv
<1>3. NamesFound'
    BY NextStoreInv, NextNamed DEF ProperCallers
<1>4. NameOf(Lookup(n))' = n
    BY <1>1, <1>2, <1>3 DEF NamesFound
<1>6. NameOf(Lookup(n))' = NameOf(i)'
    BY <1>2 DEF NameOf
<1> QED
    BY <1>1, <1>4, <1>6

(***************************************************************************)
(* The calls of FileStore, in terms of the mapped files and handles.       *)
(***************************************************************************)
OldFile(h) == FilesNow[TableNow[h].name]

\* A tfs_open that returns a handle.
LEMMA IsOpen ==
    ASSUME NEW n, NEW flags, n \in DOMAIN FilesNow \/ "CREAT" \in flags,
           NEW h \in Handle \ DOMAIN TableNow,
           FilesNow' = Files!Put(FilesNow, n, Files!Opened(n, flags)),
           TableNow' = Files!Put(TableNow, h, [name |-> n,
                pos |-> IF "APPEND" \in flags THEN Len(Files!Opened(n, flags)) ELSE 0]),
           out' = [op |-> "open", ret |-> h]
    PROVE  Files!Open(n, flags)
BY Zenon DEF Files!Open, FilesNow, TableNow

\* A tfs_open that finds the table full.
LEMMA IsOpenFull ==
    ASSUME NEW n, NEW flags, n \in DOMAIN FilesNow \/ "CREAT" \in flags,
           DOMAIN TableNow = Handle,
           FilesNow' = Files!Put(FilesNow, n, Files!Opened(n, flags)),
           TableNow' = TableNow,
           out' = [op |-> "open", ret |-> -1]
    PROVE  Files!OpenFails(n, flags)
BY Zenon DEF Files!OpenFails, FilesNow, TableNow

\* A tfs_open that neither finds nor makes the file.
LEMMA IsOpenFails ==
    ASSUME NEW n, NEW flags, n \notin DOMAIN FilesNow,
           FilesNow' = FilesNow, TableNow' = TableNow,
           out' = [op |-> "open", ret |-> -1]
    PROVE  Files!OpenFails(n, flags)
BY Zenon DEF Files!OpenFails, FilesNow, TableNow

\* A tfs_close of an open handle.
LEMMA IsClose ==
    ASSUME NEW h, h \in DOMAIN TableNow,
           TableNow' = [k \in DOMAIN TableNow \ {h} |-> TableNow[k]],
           FilesNow' = FilesNow,
           out' = [op |-> "close", ret |-> 0]
    PROVE  Files!Close(h)
BY Zenon DEF Files!Close, FilesNow, TableNow

\* A handle's position, and what a write there makes of the file.
Position(h) == TableNow[h].pos
Written(h, data) == Smaller(Len(data), BLOCK_SIZE - Position(h))
End(h, data) ==
    IF Position(h) + Written(h, data) > Len(OldFile(h)) THEN Position(h) + Written(h, data)
    ELSE Len(OldFile(h))
NewFile(h, data) ==
    [k \in 1 .. End(h, data) |->
        IF k > Position(h) /\ k <= Position(h) + Written(h, data) THEN data[k - Position(h)]
        ELSE OldFile(h)[k]]

\* A tfs_write, from the position on.
LEMMA IsWrite ==
    ASSUME NEW h, NEW data, h \in DOMAIN TableNow,
           FilesNow' = [FilesNow EXCEPT ![TableNow[h].name] = NewFile(h, data)],
           TableNow' = [TableNow EXCEPT ![h].pos = Position(h) + Written(h, data)],
           out' = [op |-> "write", ret |-> Written(h, data)]
    PROVE  Files!Write(h, data)
BY Zenon DEF Files!Write, Files!Smaller, Smaller, OldFile, Position, Written, End, NewFile,
             FilesNow, TableNow

\* A tfs_write that finds no block.
LEMMA IsWriteFails ==
    ASSUME NEW h, NEW data, h \in DOMAIN TableNow,
           OldFile(h) = <<>>, data # <<>>,
           FilesNow' = FilesNow, TableNow' = TableNow,
           out' = [op |-> "write", ret |-> -1]
    PROVE  Files!WriteFails(h, data)
BY Zenon DEF Files!WriteFails, OldFile, FilesNow, TableNow

\* How many bytes a read finds before the end of the file.
Fetched(h, len) == Smaller(len, Len(OldFile(h)) - Position(h))

\* A tfs_read, from the position on.
LEMMA IsRead ==
    ASSUME NEW h, NEW len, h \in DOMAIN TableNow,
           FilesNow' = FilesNow,
           TableNow' = [TableNow EXCEPT ![h].pos = Position(h) + Fetched(h, len)],
           out' = [op |-> "read", ret |-> Fetched(h, len),
                   data |-> SubSeq(OldFile(h), Position(h) + 1, Position(h) + Fetched(h, len))]
    PROVE  Files!Read(h, len)
BY Zenon DEF Files!Read, Files!Smaller, Smaller, OldFile, Position, Fetched, FilesNow, TableNow

(***************************************************************************)
(* What the mapping gives in a state and after a step.                     *)
(***************************************************************************)
\* A file has as many bytes as its i-node says, all of them in its block.
LEMMA ContentsSeq ==
    ASSUME StoreInv, NEW i \in taken_inodes
    PROVE  /\ Contents(i) \in Seq(Byte)
           /\ Len(Contents(i)) = i_size[i] /\ i_size[i] \in 0 .. BLOCK_SIZE
           /\ \A k \in 1 .. i_size[i] : Contents(i)[k] = fs_data[i_data_block[i]][k - 1]
<1> DEFINE n == i_size[i]
<1>1. n \in 0 .. BLOCK_SIZE /\ n \in Nat
    BY SizesAssumption DEF StoreInv, IInv, TypeOK
<1>2. ASSUME NEW k \in 1 .. n PROVE fs_data[i_data_block[i]][k - 1] \in Byte
  <2>1. i_data_block[i] \in Block
    BY <1>1, <1>2 DEF StoreInv, IInv, BlocksOwnedOnce, Owners, TypeOK
  <2>2. k - 1 \in Offset
    BY <1>1, <1>2, SizesAssumption DEF Offset
  <2> QED
    BY <2>1, <2>2 DEF StoreInv, IInv, TypeOK
<1>3. Contents(i) \in [1 .. n -> Byte]
    BY <1>2 DEF Contents
<1>4. Contents(i) \in Seq(Byte) /\ Len(Contents(i)) = n
  <2>1. Contents(i) \in Seq(Byte)
    BY <1>1, <1>3, SeqDef
  <2>2. DOMAIN Contents(i) = 1 .. Len(Contents(i)) /\ Len(Contents(i)) \in Nat
    BY <2>1, LenProperties
  <2>3. DOMAIN Contents(i) = 1 .. n
    BY <1>3
  <2> QED
    BY <1>1, <2>1, <2>2, <2>3
<1> QED
    BY <1>1, <1>4 DEF Contents

\* A file of size 0 is the empty sequence.
LEMMA EmptyFile ==
    ASSUME NEW f, f = [k \in 1 .. 0 |-> 0]
    PROVE  f = <<>>
<1>1. <<>> \in Seq(Nat) /\ Len(<<>>) = 0
    BY EmptySeq
<1>2. <<>> \in [1 .. 0 -> Nat]
    BY <1>1, LenProperties
<1> QED
    BY <1>2

\* An open handle is a position in the file it was opened for.
LEMMA HandleFile ==
    ASSUME ProperCallers, StoreInv, NEW h \in taken_handles
    PROVE  /\ of_inumber[h] \in taken_inodes \ {ROOT_DIR_INUM}
           /\ h \in DOMAIN TableNow
           /\ TableNow[h].name \in DOMAIN FilesNow
           /\ Lookup(TableNow[h].name) = of_inumber[h]
           /\ OldFile(h) = Contents(of_inumber[h])
           /\ Len(OldFile(h)) = i_size[of_inumber[h]]
           /\ Position(h) = of_offset[h]
           /\ h \in Handle /\ of_offset[h] \in 0 .. i_size[of_inumber[h]]
<1> DEFINE i == of_inumber[h]
<1>1. i \in taken_inodes \ {ROOT_DIR_INUM} /\ of_offset[h] <= i_size[i]
    BY DEF StoreInv, OffsetsInFile
<1>2. NameOf(i) \in Name /\ Exists(NameOf(i)) /\ Lookup(NameOf(i)) = i
    BY <1>1, NamedLookup
<1>3. h \in DOMAIN TableNow /\ TableNow[h].name = NameOf(i) /\ TableNow[h].pos = of_offset[h]
    BY DEF TableNow
<1>4. NameOf(i) \in DOMAIN FilesNow /\ FilesNow[NameOf(i)] = Contents(i)
    BY <1>2 DEF FilesNow
<1>5. h \in Handle /\ of_offset[h] \in 0 .. i_size[i]
    BY <1>1, SizesAssumption DEF StoreInv, IInv, TypeOK, Inumber
<1> QED
    BY <1>1, <1>2, <1>3, <1>4, <1>5, ContentsSeq DEF OldFile, Position

\* While no entry is made, the same files exist, with what their i-nodes then hold.
LEMMA FilesStep ==
    ASSUME UNCHANGED directory
    PROVE  /\ FilesNow' = [n \in DOMAIN FilesNow |-> FilesNow'[n]]
           /\ FilesNow = [n \in DOMAIN FilesNow |-> FilesNow[n]]
           /\ \A n \in DOMAIN FilesNow : \A i : i = Lookup(n) =>
                 FilesNow'[n] = Contents(i)' /\ FilesNow[n] = Contents(i)
<1>1. \A n : (Exists(n)' <=> Exists(n)) /\ Lookup(n)' = Lookup(n)
    BY DEF directory, Exists, Matches, Lookup, First
<1>2. FilesNow' = [n \in {m \in Name : Exists(m)} |-> Contents(Lookup(n))']
  <2>1. FilesNow' = [n \in {m \in Name : Exists(m)'} |-> Contents(Lookup(n))']
    BY DEF FilesNow
  <2>2. {m \in Name : Exists(m)'} = {m \in Name : Exists(m)}
    BY <1>1
  <2> QED
    BY <2>1, <2>2
<1>3. DOMAIN FilesNow = {m \in Name : Exists(m)}
    BY DEF FilesNow
<1>4. \A n \in DOMAIN FilesNow : \A i : i = Lookup(n) => FilesNow[n] = Contents(i)
    BY DEF FilesNow
<1>5. \A n, i : i = Lookup(n) => Contents(Lookup(n))' = Contents(i)'
    BY <1>1 DEF Contents
<1>6. FilesNow = [n \in DOMAIN FilesNow |-> FilesNow[n]]
    BY DEF FilesNow
<1> QED
    BY <1>2, <1>3, <1>4, <1>5, <1>6

\* A call that changes no file's contents leaves the files as they are.
LEMMA FilesKept ==
    ASSUME ProperCallers, StoreInv, UNCHANGED directory,
           \A i \in taken_inodes \ {ROOT_DIR_INUM} : Contents(i)' = Contents(i)
    PROVE  FilesNow' = FilesNow
<1>1. \A n \in DOMAIN FilesNow : Lookup(n) \in taken_inodes \ {ROOT_DIR_INUM}
    BY LookupNamed DEF FilesNow
<1>2. \A n \in DOMAIN FilesNow : FilesNow'[n] = FilesNow[n]
    BY <1>1, FilesStep
<1> QED
    BY <1>2, FilesStep

\* A handle that stays open stays with its file.
LEMMA HandleStep ==
    ASSUME ProperCallers, StoreInv, [Next]_vars, NEW h \in taken_handles, h \in taken_handles',
           of_inumber'[h] = of_inumber[h]
    PROVE  TableNow'[h] = [name |-> TableNow[h].name, pos |-> of_offset'[h]]
<1>1. PICK i \in taken_inodes \ {ROOT_DIR_INUM} : i = of_inumber[h]
    BY HandleFile
<1>2. NameOf(i)' = NameOf(i)
    BY NameKept
<1>3. NameOf(of_inumber[h])' = NameOf(i)'
    BY <1>1 DEF NameOf
<1>4. TableNow'[h] = [name |-> NameOf(of_inumber[h])', pos |-> of_offset'[h]]
    BY DEF TableNow
<1> QED
    BY <1>1, <1>2, <1>3, <1>4 DEF TableNow

\* A call that moves no handle leaves the table as it is.
LEMMA TableKept ==
    ASSUME ProperCallers, StoreInv, [Next]_vars, UNCHANGED table
    PROVE  TableNow' = TableNow
<1>1. taken_handles' = taken_handles /\ of_inumber' = of_inumber /\ of_offset' = of_offset
    BY DEF table
<1>2. \A h \in taken_handles : TableNow'[h] = TableNow[h]
    BY <1>1, HandleStep DEF TableNow
<1>3. /\ TableNow = [h \in taken_handles |-> TableNow[h]]
      /\ TableNow' = [h \in taken_handles |-> TableNow'[h]]
    BY <1>1 DEF TableNow
<1> QED
    BY <1>2, <1>3

\* A read or a write moves its own handle only.
LEMMA HandleMoved ==
    ASSUME ProperCallers, StoreInv, [Next]_vars, NEW h \in taken_handles, NEW pos,
           UNCHANGED <<taken_handles, of_inumber>>, of_offset' = [of_offset EXCEPT ![h] = pos]
    PROVE  TableNow' = [TableNow EXCEPT ![h].pos = pos]
<1>1. h \in Handle /\ of_offset \in [Handle -> 0 .. BLOCK_SIZE] /\ taken_handles \subseteq Handle
    BY DEF StoreInv, IInv, TypeOK
<1>2. \A g \in taken_handles :
         TableNow'[g] = [name |-> TableNow[g].name, pos |-> of_offset'[g]]
    BY HandleStep
<1>3. \A g \in taken_handles : TableNow[g] = [name |-> NameOf(of_inumber[g]), pos |-> of_offset[g]]
    BY DEF TableNow
<1>4. /\ TableNow = [g \in taken_handles |-> TableNow[g]]
      /\ TableNow' = [g \in taken_handles |-> TableNow'[g]]
    BY DEF TableNow
<1>5. of_offset'[h] = pos /\ \A g \in taken_handles : g # h => of_offset'[g] = of_offset[g]
    BY <1>1
<1>6. TableNow'[h] = [TableNow[h] EXCEPT !.pos = pos]
  <2>1. PICK m : TableNow[h] = [name |-> m, pos |-> of_offset[h]]
    BY <1>3
  <2>2. TableNow'[h] = [name |-> m, pos |-> pos]
    BY <1>2, <1>5, <2>1
  <2> QED
    BY <2>1, <2>2
<1>7. ASSUME NEW g \in taken_handles, g # h PROVE TableNow'[g] = TableNow[g]
  <2>1. PICK m : TableNow[g] = [name |-> m, pos |-> of_offset[g]]
    BY <1>3
  <2>2. TableNow'[g] = [name |-> m, pos |-> of_offset[g]]
    BY <1>2, <1>5, <1>7, <2>1
  <2> QED
    BY <2>1, <2>2
<1> QED
    BY <1>4, <1>6, <1>7

(***************************************************************************)
(* Each way through a call is a call of FileStore.                         *)
(***************************************************************************)
\* tfs_close frees the handle and touches no file.
LEMMA CloseRefines ==
    ASSUME ProperCallers, StoreInv, [Next]_vars, NEW h \in Handle, Close(h)
    PROVE  Files!Close(h)
<1>1. /\ h \in taken_handles /\ taken_handles' = taken_handles \ {h}
      /\ out' = [op |-> "close", ret |-> 0]
      /\ UNCHANGED <<i_size, i_data_block, fs_data, directory, of_inumber, of_offset>>
    BY DEF Close, inodes, ProperCallers
<1>2. FilesNow' = FilesNow
    BY <1>1, FilesKept DEF Contents
<1>3. \A k \in taken_handles \ {h} : TableNow'[k] = TableNow[k]
    BY <1>1, HandleStep DEF TableNow
<1>4. DOMAIN TableNow = taken_handles /\ TableNow' = [k \in taken_handles \ {h} |-> TableNow'[k]]
    BY <1>1 DEF TableNow
<1>5. TableNow' = [k \in DOMAIN TableNow \ {h} |-> TableNow[k]]
    BY <1>3, <1>4
<1> QED
    BY <1>1, <1>2, <1>4, <1>5, IsClose

\* A tfs_write with nothing to write, or at the end of a full block, changes nothing.
LEMMA WriteNothingRefines ==
    ASSUME ProperCallers, StoreInv, [Next]_vars, NEW h \in Handle, NEW data \in Data,
           WriteNothing(h, data)
    PROVE  Files!Write(h, data)
<1> DEFINE i == of_inumber[h]
<1>1. /\ h \in taken_handles /\ ToWrite(h, data) = 0 /\ out' = [op |-> "write", ret |-> 0]
      /\ UNCHANGED <<i_size, i_data_block, fs_data, directory, table>>
    BY DEF WriteNothing, Usable, inodes, ProperCallers
<1>2. FilesNow' = FilesNow /\ TableNow' = TableNow
    BY <1>1, FilesKept, TableKept DEF Contents
<1>3. /\ i \in taken_inodes \ {ROOT_DIR_INUM} /\ h \in DOMAIN TableNow
      /\ TableNow[h].name \in DOMAIN FilesNow /\ OldFile(h) = Contents(i)
      /\ Len(OldFile(h)) = i_size[i] /\ Position(h) = of_offset[h]
      /\ of_offset[h] \in 0 .. i_size[i]
    BY <1>1, HandleFile
<1>4. i_size[i] \in Nat /\ Contents(i) \in Seq(Byte)
    BY <1>3, ContentsSeq
<1>5. Written(h, data) = 0 /\ Position(h) + Written(h, data) = of_offset[h]
    BY <1>1, <1>3, <1>4 DEF Written, ToWrite
<1>6. NewFile(h, data) = OldFile(h)
  <2>1. End(h, data) = i_size[i]
    BY <1>3, <1>4, <1>5 DEF End
  <2>2. NewFile(h, data) = [k \in 1 .. i_size[i] |-> OldFile(h)[k]]
    BY <1>3, <1>4, <1>5, <2>1 DEF NewFile
  <2>3. OldFile(h) \in [1 .. i_size[i] -> Byte]
    BY <1>3, <1>4, LenProperties
  <2> QED
    BY <2>2, <2>3
<1>7. FilesNow' = [FilesNow EXCEPT ![TableNow[h].name] = NewFile(h, data)]
    BY <1>2, <1>3, <1>6 DEF OldFile, FilesNow
<1>8. TableNow' = [TableNow EXCEPT ![h].pos = Position(h) + Written(h, data)]
  <2>1. TableNow[h] = [TableNow[h] EXCEPT !.pos = of_offset[h]]
    BY <1>1 DEF TableNow
  <2>2. TableNow = [TableNow EXCEPT ![h] = [TableNow[h] EXCEPT !.pos = of_offset[h]]]
    BY <1>1, <2>1 DEF TableNow
  <2> QED
    BY <1>2, <1>5, <2>2
<1> QED
    BY <1>1, <1>3, <1>5, <1>7, <1>8, IsWrite

\* data_block_alloc fails: the file was empty and stays so.
LEMMA WriteNoBlockRefines ==
    ASSUME ProperCallers, StoreInv, [Next]_vars, NEW h \in Handle, NEW data \in Data,
           WriteNoBlock(h, data)
    PROVE  Files!WriteFails(h, data)
<1> DEFINE i == of_inumber[h]
<1>1. /\ h \in taken_handles /\ ToWrite(h, data) > 0 /\ i_size[i] = 0
      /\ out' = [op |-> "write", ret |-> -1]
      /\ i_data_block' = [i_data_block EXCEPT ![i] = -1]
      /\ UNCHANGED <<taken_inodes, i_size, fs_data, directory, table>>
    BY DEF WriteNoBlock, Usable, ProperCallers
<1>2. i \in taken_inodes \ {ROOT_DIR_INUM} /\ h \in DOMAIN TableNow /\ OldFile(h) = Contents(i)
    BY <1>1, HandleFile
<1>3. \A j \in taken_inodes : Contents(j)' = Contents(j)
  <2> SUFFICES ASSUME NEW j \in taken_inodes PROVE Contents(j)' = Contents(j)
    OBVIOUS
  <2>1. CASE j = i
    BY <1>1, <2>1 DEF Contents
  <2>2. CASE j # i
    BY <1>1, <2>2 DEF Contents, StoreInv, IInv, TypeOK
  <2> QED
    BY <2>1, <2>2
<1>4. FilesNow' = FilesNow /\ TableNow' = TableNow
    BY <1>1, <1>3, FilesKept, TableKept
<1>5. OldFile(h) = <<>>
    BY <1>1, <1>2, EmptyFile DEF Contents
<1>6. data # <<>>
  <2>1. ToWrite(h, data) <= Len(data) /\ Len(data) \in Nat /\ ToWrite(h, data) \in Nat
    <3>1. TypeOK
        BY DEF StoreInv, IInv
    <3>2. data \in Seq(Byte) /\ ToWrite(h, data) \in 0 .. (BLOCK_SIZE - of_offset[h])
          /\ ToWrite(h, data) <= Len(data)
        BY <3>1, WriteFits
    <3>3. of_offset[h] \in Nat /\ BLOCK_SIZE \in Nat
        BY <3>1, SizesAssumption DEF TypeOK
    <3> QED
        BY <3>2, <3>3
  <2> QED
    BY <1>1, <2>1
<1> QED
    BY <1>1, <1>2, <1>4, <1>5, <1>6, IsWriteFails

\* With offsets inside the files, tfs_read gets its length without wrapping around.
LEMMA ReadExact ==
    ASSUME ProperCallers, StoreInv, NEW h \in taken_handles, NEW len \in 0 .. MaxLen
    PROVE  /\ ToRead(h, len) = Fetched(h, len)
           /\ ToRead(h, len) \in Nat
           /\ of_offset[h] + ToRead(h, len) <= i_size[of_inumber[h]]
<1>1. Len(OldFile(h)) = i_size[of_inumber[h]] /\ Position(h) = of_offset[h]
      /\ of_offset[h] \in 0 .. i_size[of_inumber[h]]
      /\ of_inumber[h] \in taken_inodes
    BY HandleFile
<1>2. i_size[of_inumber[h]] \in 0 .. BLOCK_SIZE
    BY <1>1, ContentsSeq
<1> DEFINE d == i_size[of_inumber[h]] - of_offset[h]
<1>3. d \in 0 .. BLOCK_SIZE
    BY <1>1, <1>2, SizesAssumption
<1>4. d % SIZE_T = d
    BY <1>3, LenAssumption, SizesAssumption
<1> QED
    BY <1>1, <1>2, <1>3, <1>4, LenAssumption DEF ToRead, Fetched, Smaller

\* The bytes of a file from a position on.
LEMMA SubSeqBytes ==
    ASSUME NEW f \in Seq(Byte), NEW off \in Nat, NEW n \in Nat, off + n <= Len(f)
    PROVE  SubSeq(f, off + 1, off + n) = [k \in 1 .. n |-> f[off + k]]
<1> DEFINE s == SubSeq(f, off + 1, off + n)
<1>1. \A k \in off + 1 .. off + n : f[k] \in Byte
  <2>1. f \in [1 .. Len(f) -> Byte] /\ Len(f) \in Nat
    BY LenProperties
  <2> QED
    BY <2>1
<1>2. off + 1 \in Int /\ off + n \in Int
    OBVIOUS
<1>3. /\ s \in Seq(Byte)
      /\ Len(s) = IF off + 1 <= off + n THEN off + n - (off + 1) + 1 ELSE 0
      /\ \A k \in 1 .. off + n - (off + 1) + 1 : s[k] = f[off + 1 + k - 1]
  <2>1. ASSUME NEW lo \in Int, NEW hi \in Int, \A k \in lo .. hi : f[k] \in Byte
        PROVE  /\ SubSeq(f, lo, hi) \in Seq(Byte)
               /\ Len(SubSeq(f, lo, hi)) = IF lo <= hi THEN hi - lo + 1 ELSE 0
               /\ \A k \in 1 .. hi - lo + 1 : SubSeq(f, lo, hi)[k] = f[lo + k - 1]
    BY <2>1, SubSeqProperties
  <2> QED
    BY <1>1, <1>2, <2>1
<1>4. off + n - (off + 1) + 1 = n /\ \A k \in 1 .. n : off + 1 + k - 1 = off + k
    OBVIOUS
<1> HIDE DEF s
<1>5. Len(s) = n /\ \A k \in 1 .. n : s[k] = f[off + k]
    BY <1>3, <1>4
<1>6. s \in [1 .. n -> Byte]
    BY <1>3, <1>5, LenProperties
<1>7. s = [k \in 1 .. n |-> f[off + k]]
    BY <1>5, <1>6
<1> QED
    BY <1>7 DEF s

\* tfs_read returns the bytes of the file from the position on.
LEMMA ReadRefines ==
    ASSUME ProperCallers, StoreInv, [Next]_vars, NEW h \in Handle, NEW len \in 0 .. MaxLen,
           Read(h, len)
    PROVE  Files!Read(h, len)
<1> DEFINE i == of_inumber[h]
           b == i_data_block[i]
           n == ToRead(h, len)
           off == of_offset[h]
           got == IF n > 0 THEN Returned(h, b, n) ELSE <<>>
<1>1. /\ h \in taken_handles
      /\ of_offset' = [of_offset EXCEPT ![h] = off + n]
      /\ out' = [op |-> "read", ret |-> n, data |-> got]
      /\ UNCHANGED <<i_size, i_data_block, fs_data, directory, taken_handles, of_inumber>>
    BY DEF Read, Usable, inodes, ProperCallers
<1>2. /\ i \in taken_inodes /\ h \in DOMAIN TableNow
      /\ OldFile(h) = Contents(i) /\ Position(h) = off /\ off \in 0 .. i_size[i]
    BY <1>1, HandleFile
<1>3. n = Fetched(h, len) /\ n \in Nat /\ off + n <= i_size[i]
    BY <1>1, ReadExact
<1>4. FilesNow' = FilesNow
    BY <1>1, FilesKept DEF Contents
<1>5. TableNow' = [TableNow EXCEPT ![h].pos = off + n]
    BY <1>1, HandleMoved
<1>6. got = SubSeq(Contents(i), off + 1, off + n)
  <2>1. /\ off \in Nat /\ i_size[i] \in Nat
        /\ Contents(i) \in Seq(Byte) /\ Len(Contents(i)) = i_size[i]
        /\ \A k \in 1 .. i_size[i] : Contents(i)[k] = fs_data[b][k - 1]
    BY <1>2, ContentsSeq
  <2>2. SubSeq(Contents(i), off + 1, off + n) = [k \in 1 .. n |-> Contents(i)[off + k]]
    BY <1>3, <2>1, SubSeqBytes
  <2>3. \A k \in 1 .. n : off + k \in 1 .. i_size[i] /\ (off + k) - 1 = off + k - 1
    BY <1>3, <2>1
  <2>4. \A k \in 1 .. n : Contents(i)[off + k] = fs_data[b][off + k - 1]
    BY <2>1, <2>3
  <2>5. Returned(h, b, n) = [k \in 1 .. n |-> Contents(i)[off + k]]
    BY <2>4 DEF Returned
  <2>6. CASE n > 0
    BY <2>2, <2>5, <2>6
  <2>7. CASE n = 0
    <3>1. [k \in 1 .. n |-> Contents(i)[off + k]] = <<>>
        BY <2>7, EmptyFile
    <3>2. got = <<>>
        BY <2>7
    <3> QED
        BY <2>2, <3>1, <3>2
  <2> QED
    BY <1>3, <2>6, <2>7
<1> QED
    BY <1>1, <1>2, <1>3, <1>4, <1>5, <1>6, IsRead

\* data_block_get never refuses the block of a file that has bytes to read.
LEMMA ReadFindsBlock ==
    ASSUME ProperCallers, StoreInv, NEW h \in Handle, NEW len \in 0 .. MaxLen
    PROVE  ~ReadNoBlock(h, len)
<1> SUFFICES ASSUME ReadNoBlock(h, len) PROVE FALSE
    OBVIOUS
<1>1. h \in taken_handles /\ ToRead(h, len) > 0 /\ i_data_block[of_inumber[h]] \notin Block
    BY DEF ReadNoBlock, Usable, ProperCallers
<1>2. of_inumber[h] \in taken_inodes /\ of_offset[h] \in 0 .. i_size[of_inumber[h]]
    BY <1>1, HandleFile
<1>3. i_size[of_inumber[h]] \in Nat
    BY <1>2, ContentsSeq
<1>4. i_size[of_inumber[h]] > 0
    BY <1>1, <1>2, <1>3, ReadExact
<1> QED
    BY <1>1, <1>2, <1>4 DEF StoreInv, IInv, BlocksOwnedOnce, Owners, TypeOK

\* The end of a tfs_write, with the file's block b: the file is overwritten from the position
\* on and extended, no other file changes, and the handle moves.
LEMMA StoreRefines ==
    ASSUME ProperCallers, StoreInv, [Next]_vars, NEW h \in taken_handles, NEW b \in Block,
           NEW data \in Data, ToWrite(h, data) > 0, Store(h, b, data),
           i_data_block' = [i_data_block EXCEPT ![of_inumber[h]] = b],
           i_size[of_inumber[h]] > 0 => i_data_block[of_inumber[h]] = b,
           \A j \in Owners : j # of_inumber[h] => i_data_block[j] # b
    PROVE  Files!Write(h, data)
<1> DEFINE i   == of_inumber[h]
           off == of_offset[h]
           n   == ToWrite(h, data)
           size == i_size[i]
<1>1. /\ i \in taken_inodes \ {ROOT_DIR_INUM} /\ h \in DOMAIN TableNow
      /\ TableNow[h].name \in DOMAIN FilesNow /\ Lookup(TableNow[h].name) = i
      /\ OldFile(h) = Contents(i) /\ Len(OldFile(h)) = size
      /\ Position(h) = off /\ h \in Handle /\ off \in 0 .. size
    BY HandleFile
<1>2. TypeOK /\ i \in Inumber /\ size \in Nat /\ off \in Nat
  <2>1. TypeOK
    BY DEF StoreInv, IInv
  <2> QED
    BY <1>1, <2>1, ContentsSeq DEF TypeOK
<1>3. n = Written(h, data) /\ n \in Nat /\ off + n <= BLOCK_SIZE
  <2>1. n \in 0 .. (BLOCK_SIZE - off)
    BY <1>1, <1>2, WriteFits
  <2> QED
    BY <1>1, <1>2, <2>1, SizesAssumption DEF Written, ToWrite
<1>4. /\ fs_data' = [fs_data EXCEPT ![b] =
             [k \in Offset |-> IF off <= k /\ k < off + n THEN data[k - off + 1]
                               ELSE fs_data[b][k]]]
      /\ of_offset' = [of_offset EXCEPT ![h] = off + n]
      /\ i_size' = IF off + n > size THEN [i_size EXCEPT ![i] = off + n] ELSE i_size
      /\ out' = [op |-> "write", ret |-> n]
      /\ UNCHANGED <<directory, taken_handles, of_inumber>>
    BY <1>2 DEF Store, TypeOK
<1>5. TableNow' = [TableNow EXCEPT ![h].pos = off + n]
    BY <1>4, HandleMoved
<1>6. /\ i_size'[i] = End(h, data) /\ End(h, data) \in 0 .. BLOCK_SIZE
      /\ i_data_block'[i] = b
  <2>1. i_size'[i] = IF off + n > size THEN off + n ELSE size
    BY <1>2, <1>4 DEF TypeOK
  <2>2. size <= BLOCK_SIZE
    BY <1>1, ContentsSeq
  <2> QED
    BY <1>1, <1>2, <1>3, <2>1, <2>2, SizesAssumption DEF End, TypeOK
<1>7. \A k \in 1 .. End(h, data) : k \in Nat /\ k - 1 \in Offset
    BY <1>6, SizesAssumption DEF Offset
<1>8. \A k \in Offset : fs_data'[b][k] =
         IF off <= k /\ k < off + n THEN data[k - off + 1] ELSE fs_data[b][k]
    BY <1>2, <1>4 DEF TypeOK
<1>9. ASSUME NEW k \in 1 .. End(h, data)
      PROVE  fs_data'[b][k - 1] = NewFile(h, data)[k]
  <2>1. NewFile(h, data)[k] = IF k > off /\ k <= off + n THEN data[k - off] ELSE Contents(i)[k]
    BY <1>1, <1>3, <1>9 DEF NewFile
  <2>2. k \in Nat /\ k - 1 \in Offset
    BY <1>7, <1>9
  <2>3. CASE k > off /\ k <= off + n
    <3>1. off <= k - 1 /\ k - 1 < off + n /\ k - 1 - off + 1 = k - off
        BY <1>2, <1>3, <2>2, <2>3
    <3> QED
        BY <1>8, <2>1, <2>2, <2>3, <3>1
  <2>4. CASE ~(k > off /\ k <= off + n)
    <3>1. ~(off <= k - 1 /\ k - 1 < off + n)
        BY <1>2, <1>3, <2>2, <2>4
    <3>2. fs_data'[b][k - 1] = fs_data[b][k - 1]
        BY <1>8, <2>2, <3>1
    <3>3. k \in 1 .. size /\ size > 0
      <4>1. End(h, data) = IF off + n > size THEN off + n ELSE size
        BY <1>1, <1>3 DEF End
      <4> QED
        BY <1>1, <1>2, <1>3, <2>2, <2>4, <4>1
    <3>4. Contents(i)[k] = fs_data[b][k - 1]
        BY <1>1, <3>3, ContentsSeq
    <3> QED
        BY <2>1, <2>4, <3>2, <3>4
  <2> QED
    BY <2>3, <2>4
<1>10. Contents(i)' = NewFile(h, data)
  <2>1. PICK j : j = i
    OBVIOUS
  <2>2. Contents(j)' = [k \in 1 .. i_size'[j] |-> fs_data'[i_data_block'[j]][k - 1]]
    BY DEF Contents
  <2>3. Contents(i)' = Contents(j)'
    BY <1>4, <2>1 DEF Contents
  <2>4. Contents(j)' = [k \in 1 .. End(h, data) |-> fs_data'[b][k - 1]]
    BY <1>6, <2>1, <2>2
  <2>5. NewFile(h, data) = [k \in 1 .. End(h, data) |-> NewFile(h, data)[k]]
    BY DEF NewFile
  <2> QED
    BY <1>9, <2>3, <2>4, <2>5
<1>11. ASSUME NEW j \in taken_inodes, j # i PROVE Contents(j)' = Contents(j)
  <2>1. i_size'[j] = i_size[j] /\ i_data_block'[j] = i_data_block[j] /\ i_size[j] \in 0 .. BLOCK_SIZE
    BY <1>2, <1>4, <1>11 DEF TypeOK
  <2>2. CASE i_size[j] = 0
    BY <2>1, <2>2 DEF Contents
  <2>3. CASE i_size[j] > 0
    <3>1. i_data_block[j] # b /\ i_data_block[j] \in Block
        BY <1>11, <2>3 DEF Owners, StoreInv, IInv, BlocksOwnedOnce, TypeOK
    <3>2. fs_data'[i_data_block[j]] = fs_data[i_data_block[j]]
        BY <1>2, <1>4, <3>1 DEF TypeOK
    <3> QED
        BY <2>1, <3>2 DEF Contents
  <2> QED
    BY <2>1, <2>2, <2>3
<1>12. FilesNow' = [FilesNow EXCEPT ![TableNow[h].name] = NewFile(h, data)]
  <2> DEFINE m == TableNow[h].name
  <2>1. FilesNow'[m] = NewFile(h, data)
    <3>1. PICK j : j = i
        OBVIOUS
    <3>2. FilesNow'[m] = Contents(j)'
        BY <1>1, <1>4, <3>1, FilesStep
    <3>3. Contents(j)' = Contents(i)'
        BY <1>4, <3>1 DEF Contents
    <3> QED
        BY <1>10, <3>2, <3>3
  <2>2. ASSUME NEW l \in DOMAIN FilesNow, l # m PROVE FilesNow'[l] = FilesNow[l]
    <3>1. PICK j : j = Lookup(l)
        OBVIOUS
    <3>2. j \in taken_inodes /\ NameOf(j) = l
        BY <2>2, <3>1, LookupNamed DEF FilesNow
    <3>3. j # i
        BY <2>2, <3>2 DEF TableNow
    <3>4. Contents(j)' = Contents(j)
        BY <1>11, <3>2, <3>3
    <3> QED
        BY <1>4, <2>2, <3>1, <3>4, FilesStep
  <2> QED
    BY <1>1, <1>4, <2>1, <2>2, FilesStep
<1> QED
    BY <1>1, <1>3, <1>4, <1>5, <1>12, IsWrite

\* A tfs_write to a file that has a block.
LEMMA WriteInPlaceRefines ==
    ASSUME ProperCallers, StoreInv, [Next]_vars, NEW h \in Handle, NEW data \in Data,
           WriteInPlace(h, data)
    PROVE  Files!Write(h, data)
<1> DEFINE i == of_inumber[h]
           b == i_data_block[i]
<1>1. /\ h \in taken_handles /\ ToWrite(h, data) > 0 /\ i_size[i] > 0
      /\ Store(h, b, data) /\ i_data_block' = i_data_block
    BY DEF WriteInPlace, Usable, ProperCallers
<1>2. i \in Owners
    BY <1>1, HandleFile DEF Owners
<1>3. b \in Block /\ \A j \in Owners : j # i => i_data_block[j] # b
    BY <1>2 DEF StoreInv, IInv, BlocksOwnedOnce, TypeOK
<1>4. i_data_block' = [i_data_block EXCEPT ![i] = b]
    BY <1>1 DEF StoreInv, IInv, TypeOK
<1> QED
    BY <1>1, <1>3, <1>4, StoreRefines

\* A tfs_write to an empty file, in a block that no file owns.
LEMMA WriteFirstRefines ==
    ASSUME ProperCallers, StoreInv, [Next]_vars, NEW h \in Handle, NEW data \in Data,
           WriteFirst(h, data)
    PROVE  Files!Write(h, data)
<1> DEFINE i == of_inumber[h]
           b == First(Block \ taken_blocks)
<1>1. /\ h \in taken_handles /\ ToWrite(h, data) > 0 /\ i_size[i] = 0
      /\ Store(h, b, data) /\ i_data_block' = [i_data_block EXCEPT ![i] = b]
      /\ taken_blocks # Block
    BY DEF WriteFirst, Usable, ProperCallers
<1>2. b \in Block \ taken_blocks
    BY <1>1, EntriesLeft, SizesAssumption DEF StoreInv, IInv, TypeOK, Block
<1>3. \A j \in Owners : i_data_block[j] # b
    BY <1>2 DEF StoreInv, IInv, BlocksOwnedOnce
<1>4. i_size[i] > 0 => i_data_block[i] = b
    BY <1>1
<1> HIDE DEF b
<1> QED
    BY <1>1, <1>2, <1>3, <1>4, StoreRefines

\* add_to_open_file_table: the handle returned is a new one, at the offset given, in the file
\* the call is about, whose name is n after the call.
LEMMA HandleAdded ==
    ASSUME ProperCallers, StoreInv, [Next]_vars, NEW n, NEW inum \in Inumber,
           NEW offset, AddToTable(inum, offset), NameOf(inum)' = n,
           taken_handles # Handle
    PROVE  \E h \in Handle \ DOMAIN TableNow :
              /\ TableNow' = Files!Put(TableNow, h, [name |-> n, pos |-> offset])
              /\ out' = [op |-> "open", ret |-> h]
<1> DEFINE h == First(Handle \ taken_handles)
<1>1. h \in Handle \ taken_handles
    BY EntriesLeft, SizesAssumption DEF StoreInv, IInv, TypeOK, Handle
<1>2. /\ taken_handles' = taken_handles \cup {h}
      /\ of_inumber' = [of_inumber EXCEPT ![h] = inum]
      /\ of_offset' = [of_offset EXCEPT ![h] = offset]
      /\ out' = [op |-> "open", ret |-> h]
    BY DEF AddToTable
<1> HIDE DEF h
<1>3. /\ of_inumber \in [Handle -> Inumber] /\ of_offset \in [Handle -> 0 .. BLOCK_SIZE]
      /\ taken_handles \subseteq Handle /\ DOMAIN TableNow = taken_handles
    BY DEF StoreInv, IInv, TypeOK, TableNow
<1>4. \A g \in taken_handles : TableNow'[g] = TableNow[g]
  <2>1. ASSUME NEW g \in taken_handles PROVE TableNow'[g] = TableNow[g]
    <3>1. g \in taken_handles' /\ of_inumber'[g] = of_inumber[g] /\ of_offset'[g] = of_offset[g]
        BY <1>1, <1>2, <1>3
    <3> QED
        BY <3>1, HandleStep DEF TableNow
  <2> QED
    BY <2>1
<1>5. TableNow'[h] = [name |-> n, pos |-> offset]
  <2>1. of_inumber'[h] = inum /\ of_offset'[h] = offset /\ h \in taken_handles'
    BY <1>1, <1>2, <1>3
  <2>2. PICK k : k = h
    OBVIOUS
  <2>3. NameOf(of_inumber[k])' = n
    BY <2>1, <2>2 DEF NameOf
  <2>4. TableNow'[k] = [name |-> NameOf(of_inumber[k])', pos |-> of_offset'[k]]
    BY <2>1, <2>2 DEF TableNow
  <2> QED
    BY <2>1, <2>2, <2>3, <2>4
<1>6. TableNow' = [g \in taken_handles \cup {h} |-> TableNow'[g]]
    BY <1>2 DEF TableNow
<1>7. TableNow' = Files!Put(TableNow, h, [name |-> n, pos |-> offset])
    BY <1>3, <1>4, <1>5, <1>6 DEF Files!Put
<1> QED
    BY <1>1, <1>2, <1>3, <1>7

\* With the table full, nothing is added.
LEMMA HandleRefused ==
    ASSUME ProperCallers, StoreInv, [Next]_vars, NEW inum, NEW offset, AddToTable(inum, offset),
           taken_handles = Handle
    PROVE  /\ DOMAIN TableNow = Handle /\ TableNow' = TableNow
           /\ out' = [op |-> "open", ret |-> -1]
<1>1. UNCHANGED table /\ out' = [op |-> "open", ret |-> -1]
    BY DEF AddToTable
<1>2. TableNow' = TableNow
    BY <1>1, TableKept
<1> QED
    BY <1>1, <1>2 DEF TableNow

\* A tfs_open whose file has been found or made.
LEMMA OpenRefines ==
    ASSUME ProperCallers, StoreInv, [Next]_vars, NEW n, NEW flags, NEW inum \in Inumber,
           NEW offset, AddToTable(inum, offset), NameOf(inum)' = n,
           n \in DOMAIN FilesNow \/ "CREAT" \in flags,
           FilesNow' = Files!Put(FilesNow, n, Files!Opened(n, flags)),
           offset = IF "APPEND" \in flags THEN Len(Files!Opened(n, flags)) ELSE 0
    PROVE  Files!Open(n, flags) \/ Files!OpenFails(n, flags)
<1>1. CASE taken_handles # Handle
    BY <1>1, HandleAdded, IsOpen
<1>2. CASE taken_handles = Handle
    BY <1>2, HandleRefused, IsOpenFull
<1> QED
    BY <1>1, <1>2

\* tfs_open of a file that exists, truncated or not.
LEMMA OpenExistingRefines ==
    ASSUME ProperCallers, StoreInv, [Next]_vars, NEW n \in Name \cup {NoName}, NEW flags,
           OpenExisting(n, flags)
    PROVE  Files!Open(n, flags) \/ Files!OpenFails(n, flags)
<1> DEFINE offset == InitialOffset(Lookup(n), flags)
<1>1. n \in Name /\ Exists(n) /\ n \in DOMAIN FilesNow
    BY DEF OpenExisting, Exists, Matches, FilesNow
<1>2. PICK inum \in taken_inodes \ {ROOT_DIR_INUM} : inum = Lookup(n) /\ NameOf(inum) = n
    BY <1>1, LookupNamed
<1>3. inum \in Inumber /\ TypeOK /\ i_size[inum] \in 0 .. BLOCK_SIZE
    BY <1>2, ContentsSeq DEF StoreInv, IInv, TypeOK
<1>4. /\ i_size' = IF "TRUNC" \in flags /\ i_size[inum] > 0 THEN [i_size EXCEPT ![inum] = 0]
                   ELSE i_size
      /\ AddToTable(inum, offset)
      /\ i_data_block' = i_data_block /\ fs_data' = fs_data /\ UNCHANGED directory
    BY <1>2 DEF OpenExisting
<1>5. NameOf(inum)' = n
    BY <1>2, NameKept
<1>6. i_size'[inum] = IF "TRUNC" \in flags THEN 0 ELSE i_size[inum]
    BY <1>3, <1>4, SizesAssumption DEF TypeOK
<1>7. Contents(inum)' = Files!Opened(n, flags) /\ i_size'[inum] = Len(Files!Opened(n, flags))
  <2>1. FilesNow[n] = Contents(inum)
    BY <1>1, <1>2 DEF FilesNow
  <2>2. Files!Opened(n, flags) = IF "TRUNC" \in flags THEN <<>> ELSE Contents(inum)
    BY <1>1, <2>1, Zenon DEF Files!Opened, FilesNow
  <2>3. Contents(inum)' = [k \in 1 .. i_size'[inum] |-> fs_data[i_data_block[inum]][k - 1]]
    BY <1>4 DEF Contents
  <2>4. CASE "TRUNC" \in flags
    <3>1. Contents(inum)' = <<>>
        BY <1>6, <2>3, <2>4, EmptyFile
    <3> QED
        BY <1>6, <2>2, <2>4, <3>1, EmptySeq
  <2>5. CASE "TRUNC" \notin flags
    <3>1. Contents(inum)' = Contents(inum) /\ Len(Contents(inum)) = i_size[inum]
        BY <1>2, <1>6, <2>3, <2>5, ContentsSeq DEF Contents
    <3> QED
        BY <1>6, <2>2, <2>5, <3>1
  <2> QED
    BY <2>4, <2>5
<1>8. ASSUME NEW l \in DOMAIN FilesNow, l # n PROVE FilesNow'[l] = FilesNow[l]
  <2>1. PICK j : j = Lookup(l)
    OBVIOUS
  <2>2. j \in taken_inodes /\ NameOf(j) = l
    BY <1>8, <2>1, LookupNamed DEF FilesNow
  <2>3. j # inum /\ i_size'[j] = i_size[j]
    BY <1>2, <1>3, <1>4, <1>8, <2>2 DEF TypeOK
  <2>4. Contents(j)' = Contents(j)
    BY <1>4, <2>3 DEF Contents
  <2> QED
    BY <1>4, <1>8, <2>1, <2>4, FilesStep
<1>9. FilesNow' = Files!Put(FilesNow, n, Files!Opened(n, flags))
  <2>1. FilesNow'[n] = Files!Opened(n, flags)
    BY <1>1, <1>2, <1>4, <1>7, FilesStep
  <2>2. DOMAIN FilesNow \cup {n} = DOMAIN FilesNow
    BY <1>1
  <2> HIDE DEF Files!Opened
  <2> QED
    BY <1>4, <1>8, <2>1, <2>2, FilesStep DEF Files!Put
<1>10. offset = IF "APPEND" \in flags THEN Len(Files!Opened(n, flags)) ELSE 0
    BY <1>2, <1>7 DEF InitialOffset
<1> HIDE DEF offset
<1> QED
    BY <1>1, <1>3, <1>4, <1>5, <1>9, <1>10, OpenRefines

\* tfs_open that makes the file: a new name, for an i-node of size 0.
LEMMA OpenCreateRefines ==
    ASSUME ProperCallers, StoreInv, [Next]_vars, NEW n \in Name \cup {NoName}, NEW flags,
           OpenCreate(n, flags)
    PROVE  Files!Open(n, flags) \/ Files!OpenFails(n, flags)
<1>1. /\ n \in Name /\ ~Exists(n) /\ "CREAT" \in flags /\ Cut(n) = n
      /\ taken_inodes # Inumber /\ FreeEntries # {}
    BY DEF OpenCreate, Cut, ProperCallers
<1>2. PICK inum \in Inumber \ taken_inodes : inum = First(Inumber \ taken_inodes)
    BY <1>1, EntriesLeft, SizesAssumption DEF StoreInv, IInv, TypeOK, Inumber
<1>3. PICK e \in Entry : e = First(FreeEntries) /\ d_inumber[e] = -1
  <2>1. FreeEntries \in SUBSET Nat
    BY DEF FreeEntries, Entry
  <2>2. First(FreeEntries) \in FreeEntries
    BY <1>1, <2>1, FirstMember
  <2> QED
    BY <2>2 DEF FreeEntries
<1>4. /\ i_size' = [i_size EXCEPT ![inum] = 0]
      /\ i_data_block' = [i_data_block EXCEPT ![inum] = -1]
      /\ d_inumber' = [d_inumber EXCEPT ![e] = inum]
      /\ d_name' = [d_name EXCEPT ![e] = n]
      /\ AddToTable(inum, 0) /\ fs_data' = fs_data
    BY <1>1, <1>2, <1>3 DEF OpenCreate, InodeCreate
<1>5. TypeOK /\ StoreInv' /\ NamesFound'
    BY NextStoreInv, NextNamed DEF StoreInv, IInv, ProperCallers
<1>6. /\ d_inumber'[e] = inum /\ d_name'[e] = n /\ inum # -1
      /\ \A f \in Entry : f # e => d_inumber'[f] = d_inumber[f] /\ d_name'[f] = d_name[f]
      /\ i_size'[inum] = 0
      /\ \A j \in taken_inodes : i_size'[j] = i_size[j] /\ i_data_block'[j] = i_data_block[j]
  <2>1. inum \in Inumber /\ inum \notin taken_inodes /\ inum # -1 /\ e \in Entry
    BY <1>2, <1>3 DEF Inumber
  <2>2. /\ DOMAIN d_inumber = Entry /\ DOMAIN d_name = Entry
        /\ DOMAIN i_size = Inumber /\ DOMAIN i_data_block = Inumber
        /\ taken_inodes \subseteq Inumber
    BY <1>5 DEF TypeOK
  <2>3. d_inumber'[e] = inum /\ \A f \in Entry : f # e => d_inumber'[f] = d_inumber[f]
    BY <1>4, <2>1, <2>2
  <2>4. d_name'[e] = n /\ \A f \in Entry : f # e => d_name'[f] = d_name[f]
    BY <1>4, <2>1, <2>2
  <2>5. /\ i_size'[inum] = 0
        /\ \A j \in taken_inodes : i_size'[j] = i_size[j] /\ i_data_block'[j] = i_data_block[j]
    BY <1>4, <2>1, <2>2
  <2> QED
    BY <2>1, <2>3, <2>4, <2>5
<1>7. Exists(n)' /\ Lookup(n)' = inum
  <2>1. Matches(n) = {} /\ n # NoName
    BY <1>1, NamesAssumption DEF Exists
  <2>2. Matches(n)' = {e}
    BY <1>3, <1>6, <2>1 DEF Matches
  <2>3. {e} \in SUBSET Nat
    BY <1>3 DEF Entry
  <2>4. First({e}) = e
    BY <2>3, FirstMember
  <2>5. First(Matches(n))' = First(Matches(n)')
    BY DEF First
  <2>6. Lookup(n)' = d_inumber'[First(Matches(n)')]
    BY <2>5 DEF Lookup
  <2> QED
    BY <1>6, <2>2, <2>4, <2>6 DEF Exists
<1>8. NameOf(inum)' = n
  <2>1. NameOf(Lookup(n))' = n
    BY <1>1, <1>5, <1>7 DEF NamesFound
  <2>2. NameOf(Lookup(n))' = NameOf(inum)'
    BY <1>7 DEF NameOf
  <2> QED
    BY <2>1, <2>2
<1>9. ASSUME NEW m \in Name PROVE Exists(m)' <=> Exists(m) \/ m = n
  <2>1. ASSUME Exists(m)', m # n PROVE Exists(m)
    BY <1>6, <2>1 DEF Exists, Matches
  <2>2. ASSUME Exists(m) PROVE Exists(m)'
    BY <2>2, NextLookup DEF StoreInv, IInv
  <2> QED
    BY <1>7, <2>1, <2>2
<1>10. /\ DOMAIN FilesNow = {m \in Name : Exists(m)}
       /\ FilesNow' = [m \in {l \in Name : Exists(l)'} |-> Contents(Lookup(m))']
    BY DEF FilesNow
<1>11. {l \in Name : Exists(l)'} = DOMAIN FilesNow \cup {n}
    BY <1>1, <1>9, <1>10
<1>12. Contents(Lookup(n))' = <<>>
  <2>1. Contents(Lookup(n))' =
          [k \in 1 .. i_size'[Lookup(n)'] |-> fs_data'[i_data_block'[Lookup(n)']][k - 1]]
    BY DEF Contents
  <2> QED
    BY <1>6, <1>7, <2>1, EmptyFile
<1>13. ASSUME NEW m \in DOMAIN FilesNow PROVE Contents(Lookup(m))' = FilesNow[m]
  <2>1. m \in Name /\ Exists(m) /\ FilesNow[m] = Contents(Lookup(m))
    BY <1>13 DEF FilesNow
  <2>2. Lookup(m)' = Lookup(m) /\ Lookup(m) \in taken_inodes
    BY <2>1, NextLookup, LookupNamed DEF StoreInv, IInv
  <2> QED
    BY <1>4, <1>6, <2>1, <2>2 DEF Contents
<1>14. Files!Opened(n, flags) = <<>>
    BY <1>1, Zenon DEF Files!Opened
<1>15. FilesNow' = Files!Put(FilesNow, n, Files!Opened(n, flags))
  <2>1. n \notin DOMAIN FilesNow
    BY <1>1, <1>10
  <2> QED
    BY <1>10, <1>11, <1>12, <1>13, <1>14, <2>1 DEF Files!Put
<1>16. 0 = IF "APPEND" \in flags THEN Len(Files!Opened(n, flags)) ELSE 0
    BY <1>14, EmptySeq
<1> QED
    BY <1>1, <1>2, <1>4, <1>8, <1>15, <1>16, OpenRefines

\* A creation that is undone leaves the files alone: inode_create wrote to an i-node of no file.
LEMMA OpenNoEntryRefines ==
    ASSUME ProperCallers, StoreInv, [Next]_vars, NEW n, NEW flags, OpenNoEntry(n, flags)
    PROVE  Files!OpenFails(n, flags)
<1> DEFINE inum == First(Inumber \ taken_inodes)
<1>1. /\ ~Exists(n) /\ taken_inodes # Inumber
      /\ i_size' = [i_size EXCEPT ![inum] = 0]
      /\ i_data_block' = [i_data_block EXCEPT ![inum] = -1]
      /\ out' = [op |-> "open", ret |-> -1]
      /\ fs_data' = fs_data /\ UNCHANGED directory /\ UNCHANGED table
    BY DEF OpenNoEntry, InodeCreate
<1>2. inum \in Inumber \ taken_inodes
    BY <1>1, EntriesLeft, SizesAssumption DEF StoreInv, IInv, TypeOK, Inumber
<1> HIDE DEF inum
<1>3. \A j \in taken_inodes : Contents(j)' = Contents(j)
  <2>1. \A j \in taken_inodes : i_size'[j] = i_size[j] /\ i_data_block'[j] = i_data_block[j]
    BY <1>1, <1>2 DEF StoreInv, IInv, TypeOK
  <2> QED
    BY <1>1, <2>1 DEF Contents
<1>4. FilesNow' = FilesNow /\ TableNow' = TableNow /\ n \notin DOMAIN FilesNow
    BY <1>1, <1>3, FilesKept, TableKept DEF FilesNow
<1> QED
    BY <1>1, <1>4, IsOpenFails

\* A tfs_open that finds no file and makes none.
LEMMA OpenFailsRefines ==
    ASSUME ProperCallers, StoreInv, [Next]_vars, NEW n, NEW flags, OpenFails(n, flags)
    PROVE  Files!OpenFails(n, flags)
<1>1. /\ ~Exists(n) /\ out' = [op |-> "open", ret |-> -1]
      /\ UNCHANGED <<i_size, i_data_block, fs_data, directory, table>>
    BY DEF OpenFails, inodes
<1>2. FilesNow' = FilesNow /\ TableNow' = TableNow /\ n \notin DOMAIN FilesNow
    BY <1>1, FilesKept, TableKept DEF FilesNow, Contents
<1> QED
    BY <1>1, <1>2, IsOpenFails

\* tfs_init leaves no file and no open handle.
LEMMA InitRefines == Init => Files!Init
<1> SUFFICES ASSUME Init PROVE Files!Init
    OBVIOUS
<1>2. {m \in Name : Exists(m)} = {} /\ taken_handles = {} /\ out = [op |-> "init"]
    BY DEF Init, Exists, Matches
<1>3. FilesNow = <<>> /\ TableNow = <<>>
  <2>1. <<>> \in [1 .. 0 -> Nat]
    BY EmptySeq, LenProperties
  <2> QED
    BY <1>2, <2>1 DEF FilesNow, TableNow
<1> QED
    BY <1>2, <1>3, Zenon DEF Files!Init, FilesNow, TableNow

\* A step that changes nothing changes no file.
LEMMA StutterRefines ==
    ASSUME UNCHANGED vars
    PROVE  UNCHANGED Files!vars
<1>1. UNCHANGED <<i_size, i_data_block, fs_data, d_inumber, d_name, taken_handles, of_inumber,
                  of_offset, out>>
    BY DEF vars, inodes, directory, table
<1>3. FilesNow' = FilesNow
  <2>1. UNCHANGED directory
    BY <1>1 DEF directory
  <2>2. \A n \in DOMAIN FilesNow : FilesNow'[n] = FilesNow[n]
    <3>1. \A i : Contents(i)' = Contents(i)
        BY <1>1 DEF Contents
    <3> QED
        BY <2>1, <3>1, FilesStep
  <2> QED
    BY <2>1, <2>2, FilesStep
<1>4. TableNow' = TableNow
    BY <1>1 DEF TableNow, NameOf, Used
<1> QED
    BY <1>1, <1>3, <1>4, Zenon DEF Files!vars, FilesNow, TableNow

\* Every step of the program is a call of FileStore.
LEMMA NextRefines ==
    ASSUME ProperCallers, StoreInv, [Next]_vars
    PROVE  [Files!Next]_Files!vars
<1>1. ASSUME NEW n \in Name \cup {NoName}, NEW flags \in SUBSET Flags, OpenCall(n, flags)
      PROVE  Files!Next
  <2>1. Files!Open(n, flags) \/ Files!OpenFails(n, flags)
    BY <1>1, OpenExistingRefines, OpenCreateRefines, OpenNoEntryRefines, OpenFailsRefines
    DEF OpenCall
  <2>2. flags \in SUBSET Files!Flags
    BY DEF Flags, Files!Flags
  <2> QED
    BY <2>1, <2>2, Zenon DEF Files!Next
<1>2. ASSUME NEW h \in Handle, Close(h)
      PROVE  Files!Next
    BY <1>2, CloseRefines, Zenon DEF Files!Next
<1>3. ASSUME NEW h \in Handle, NEW data \in Data, WriteCall(h, data)
      PROVE  Files!Next
  <2>1. Files!Write(h, data) \/ Files!WriteFails(h, data)
    BY <1>3, WriteNothingRefines, WriteInPlaceRefines, WriteFirstRefines, WriteNoBlockRefines
    DEF WriteCall
  <2>2. data \in Files!Data
    BY DEF Data, Files!Data
  <2> QED
    BY <2>1, <2>2, Zenon DEF Files!Next
<1>4. ASSUME NEW h \in Handle, NEW len \in 0 .. MaxLen, Read(h, len) \/ ReadNoBlock(h, len)
      PROVE  Files!Next
  <2>1. Files!Read(h, len)
    BY <1>4, ReadRefines, ReadFindsBlock
  <2> QED
    BY <2>1, Zenon DEF Files!Next
<1>5. CASE UNCHANGED vars
    BY <1>5, StutterRefines
<1> QED
    BY <1>1, <1>2, <1>3, <1>4, <1>5 DEF Next

\* With directory, i-nodes, blocks and open file table the program does what FileStore says of
\* files and handles: a read returns what was last written there, through whatever handle, a
\* failed call changes nothing but what FileStore lets it, and every return value is right.
THEOREM StoreRefined == ProperCallers => (Spec => ImplementsFileStore)
<1> SUFFICES ASSUME ProperCallers PROVE Spec => ImplementsFileStore
    OBVIOUS
<1>1. StoreInv /\ [Next]_vars => StoreInv'
    BY NextStoreInv
<1>2. StoreInv /\ [Next]_vars => [Files!Next]_Files!vars
    BY NextRefines
<1> QED
    BY <1>1, <1>2, InitStoreInv, InitRefines, PTL DEF Spec, ImplementsFileStore, Files!Spec
=============================================================================
