------------------------------ MODULE FsState -------------------------------
(***************************************************************************)
(* fs/state.c and the unsynchronized bodies of fs/operations.c: the i-node *)
(* table, the data blocks, the root directory and the open file table, and *)
(* the four calls that change them.  A call holds single_global_lock       *)
(* throughout (FsOperations), so it is one step here.                      *)
(***************************************************************************)
EXTENDS Integers, Sequences, FiniteSets

CONSTANTS
    Name,               \* file names, without the leading '/'
    NoName,             \* the empty name, in the path "/"
    LongName, CutName,  \* the names of MAX_FILE_NAME characters or more, and their first
                        \* MAX_FILE_NAME - 1 characters; also paths "xname" that lack the
                        \* '/', and what follows their first character
    Byte, Zero,         \* byte values; memory starts as Zero
    BLOCK_SIZE, DATA_BLOCKS, INODE_TABLE_SIZE, MAX_OPEN_FILES,   \* fs/config.h
    MAX_DIR_ENTRIES,    \* fs/state.h
    MaxLen,             \* bound: bytes passed to one read or write
    SIZE_T,             \* 2 ^ (width of size_t)
    SharedTruncate,     \* callers may truncate a file that others have open
    StaleHandles        \* callers may go on using a handle they have closed

ASSUME NamesAssumption ==
    NoName \notin Name /\ LongName \subseteq Name /\ CutName \in Name \ LongName
ASSUME BytesAssumption == Zero \in Byte
ASSUME SizesAssumption ==
    /\ BLOCK_SIZE \in Nat \ {0} /\ DATA_BLOCKS \in Nat \ {0}
    /\ INODE_TABLE_SIZE \in Nat \ {0} /\ MAX_OPEN_FILES \in Nat /\ MAX_DIR_ENTRIES \in Nat
ASSUME LenAssumption == MaxLen \in Nat /\ SIZE_T \in Nat /\ SIZE_T > BLOCK_SIZE + MaxLen
ASSUME CallersAssumption == SharedTruncate \in BOOLEAN /\ StaleHandles \in BOOLEAN

ROOT_DIR_INUM == 0

Inumber == 0 .. INODE_TABLE_SIZE - 1
Block   == 0 .. DATA_BLOCKS - 1
Handle  == 0 .. MAX_OPEN_FILES - 1
Entry   == 0 .. MAX_DIR_ENTRIES - 1
Offset  == 0 .. BLOCK_SIZE - 1
Flags   == {"CREAT", "TRUNC", "APPEND"}
Data    == UNION {[1 .. n -> Byte] : n \in 0 .. MaxLen}

VARIABLES
    taken_inodes,      \* freeinode_ts: the TAKEN ones
    i_size, i_data_block,
    taken_blocks,      \* free_blocks: the TAKEN ones
    fs_data,
    d_inumber, d_name, \* the entries in the root directory's block
    taken_handles,     \* free_open_file_entries: the TAKEN ones
    of_inumber, of_offset,
    out                \* what the last call returned

inodes    == <<taken_inodes, i_size, i_data_block>>
directory == <<d_inumber, d_name>>
table     == <<taken_handles, of_inumber, of_offset>>
vars == <<inodes, taken_blocks, fs_data, directory, table, out>>

\* state_init, and tfs_init's inode_create(T_DIRECTORY): i-node 0 with block 0.
Init ==
    /\ taken_inodes = {ROOT_DIR_INUM}
    /\ i_size = [i \in Inumber |-> IF i = ROOT_DIR_INUM THEN BLOCK_SIZE ELSE 0]
    /\ i_data_block = [i \in Inumber |-> 0]
    /\ taken_blocks = {0}
    /\ fs_data = [b \in Block |-> [k \in Offset |-> Zero]]
    /\ d_inumber = [e \in Entry |-> -1]
    /\ d_name = [e \in Entry |-> NoName]
    /\ taken_handles = {}
    /\ of_inumber = [h \in Handle |-> ROOT_DIR_INUM]
    /\ of_offset = [h \in Handle |-> 0]
    /\ out = [op |-> "init"]

\* Every scan of the program takes the first entry that will do.
First(set) == CHOOSE i \in set : \A j \in set : i <= j

Smaller(a, b) == IF a <= b THEN a ELSE b

\* find_in_dir.  A path that is not "/name" is not looked up (valid_pathname).
Matches(n) == {e \in Entry : d_inumber[e] # -1 /\ d_name[e] = n /\ n # NoName}
Exists(n) == Matches(n) # {}

\* Mutant: the last entry of that name is taken.
MutantLookup(n) == d_inumber[CHOOSE i \in Matches(n) : \A j \in Matches(n) : j <= i]

Lookup(n) == d_inumber[First(Matches(n))]

\* add_dir_entry stores a name cut to MAX_FILE_NAME - 1 characters, and _tfs_open drops the
\* first character of a path whatever it is; find_in_dir compares all of the name, and
\* valid_pathname refuses a path without '/'.
Cut(n) == IF n \in LongName THEN CutName ELSE n

\* Mutant: the block stays TAKEN.
MutantDataBlockFree(b) == taken_blocks

\* data_block_free.
DataBlockFree(b) == taken_blocks \ {b}

FreeEntries == {e \in Entry : d_inumber[e] = -1}

\* add_to_open_file_table: the last step of tfs_open, which may find the table full.
AddToTable(inum, offset) ==
    IF taken_handles = Handle
    THEN out' = [op |-> "open", ret |-> -1] /\ UNCHANGED table
    ELSE LET h == First(Handle \ taken_handles)
         IN  /\ taken_handles' = taken_handles \cup {h}
             /\ of_inumber' = [of_inumber EXCEPT ![h] = inum]
             /\ of_offset' = [of_offset EXCEPT ![h] = offset]
             /\ out' = [op |-> "open", ret |-> h]

(***************************************************************************)
(* _tfs_open_unsynchronized, one action for each way through it.           *)
(***************************************************************************)
\* Mutant: the size is taken before the truncation.
MutantInitialOffset(inum, flags) == IF "APPEND" \in flags THEN i_size[inum] ELSE 0

\* The offset is determined after the truncation.
InitialOffset(inum, flags) == IF "APPEND" \in flags THEN i_size'[inum] ELSE 0

\* The file exists.  Truncation frees the block and leaves i_data_block as it was.
OpenExisting(n, flags) ==
    /\ Exists(n)
    /\ LET inum  == Lookup(n)
           trunc == "TRUNC" \in flags /\ i_size[inum] > 0
       IN  /\ "TRUNC" \in flags /\ ~SharedTruncate
                  => \A h \in taken_handles : of_inumber[h] # inum
           /\ taken_blocks' = IF trunc THEN DataBlockFree(i_data_block[inum])
                              ELSE taken_blocks
           /\ i_size' = IF trunc THEN [i_size EXCEPT ![inum] = 0] ELSE i_size
           /\ AddToTable(inum, InitialOffset(inum, flags))
    /\ UNCHANGED <<taken_inodes, i_data_block, fs_data, directory>>

\* inode_create(T_FILE): the i-node it returns holds an empty file.
InodeCreate(inum) ==
    /\ i_size' = [i_size EXCEPT ![inum] = 0]
    /\ i_data_block' = [i_data_block EXCEPT ![inum] = -1]

\* The file is created: inode_create and add_dir_entry.
OpenCreate(n, flags) ==
    /\ ~Exists(n) /\ "CREAT" \in flags /\ n # NoName
    /\ taken_inodes # Inumber /\ FreeEntries # {}
    /\ LET inum == First(Inumber \ taken_inodes)
           e    == First(FreeEntries)
       IN  /\ taken_inodes' = taken_inodes \cup {inum}
           /\ InodeCreate(inum)
           /\ d_inumber' = [d_inumber EXCEPT ![e] = inum]
           /\ d_name' = [d_name EXCEPT ![e] = Cut(n)]
           /\ AddToTable(inum, 0)
    /\ UNCHANGED <<taken_blocks, fs_data>>

\* Mutant: the i-node stays TAKEN.
MutantInodeDelete(taken, inum) == taken

\* inode_delete of an i-node just created: its size is 0, so it has no block to free.
InodeDelete(taken, inum) == taken \ {inum}

\* add_dir_entry fails, the directory being full or the name empty, and inode_create is
\* undone.
OpenNoEntry(n, flags) ==
    /\ ~Exists(n) /\ "CREAT" \in flags
    /\ taken_inodes # Inumber /\ (FreeEntries = {} \/ n = NoName)
    /\ LET inum == First(Inumber \ taken_inodes)
       IN  /\ InodeCreate(inum)
           /\ taken_inodes' = InodeDelete(taken_inodes \cup {inum}, inum)
    /\ out' = [op |-> "open", ret |-> -1]
    /\ UNCHANGED <<taken_blocks, fs_data, directory, table>>

\* There is no such file and it is not created, or there is no i-node for it.
OpenFails(n, flags) ==
    /\ ~Exists(n) /\ ("CREAT" \in flags => taken_inodes = Inumber)
    /\ out' = [op |-> "open", ret |-> -1]
    /\ UNCHANGED <<inodes, taken_blocks, fs_data, directory, table>>

\* remove_from_open_file_table: the rest of the entry stays as it is.
Close(h) ==
    /\ StaleHandles \/ h \in taken_handles
    /\ taken_handles' = taken_handles \ {h}
    /\ out' = [op |-> "close", ret |-> IF h \in taken_handles THEN 0 ELSE -1]
    /\ UNCHANGED <<inodes, taken_blocks, fs_data, directory, of_inumber, of_offset>>

\* get_open_file_entry does not ask whether the handle is open; one that was never
\* opened, which would lead to the directory's i-node, is left out.
Usable(h) ==
    h \in taken_handles \/ (StaleHandles /\ of_inumber[h] # ROOT_DIR_INUM)

(***************************************************************************)
(* _tfs_write_unsynchronized.                                              *)
(***************************************************************************)
\* Mutant: the length is not cut at the end of the block.
MutantToWrite(h, data) == Len(data)

\* to_write bytes at the offset, all of them in the block.  Offsets past the block are
\* left out: there BLOCK_SIZE - offset wraps around.
ToWrite(h, data) == Smaller(Len(data), BLOCK_SIZE - of_offset[h])

\* Mutant: i_size is set to the offset even when the file is longer.
MutantStore(h, b, data) ==
    LET off == of_offset[h]
        n   == ToWrite(h, data)
    IN  /\ fs_data' = [fs_data EXCEPT ![b] =
                         [k \in Offset |-> IF off <= k /\ k < off + n THEN data[k - off + 1]
                                           ELSE @[k]]]
        /\ of_offset' = [of_offset EXCEPT ![h] = off + n]
        /\ i_size' = [i_size EXCEPT ![of_inumber[h]] = off + n]
        /\ out' = [op |-> "write", ret |-> n]
        /\ UNCHANGED <<taken_inodes, directory, taken_handles, of_inumber>>

Store(h, b, data) ==
    LET off == of_offset[h]
        n   == ToWrite(h, data)
        i   == of_inumber[h]
    IN  /\ fs_data' = [fs_data EXCEPT ![b] =
                         [k \in Offset |-> IF off <= k /\ k < off + n THEN data[k - off + 1]
                                           ELSE @[k]]]
        /\ of_offset' = [of_offset EXCEPT ![h] = off + n]
        /\ i_size' = IF off + n > i_size[i] THEN [i_size EXCEPT ![i] = off + n] ELSE i_size
        /\ out' = [op |-> "write", ret |-> n]
        /\ UNCHANGED <<taken_inodes, directory, taken_handles, of_inumber>>

WriteNothing(h, data) ==
    /\ Usable(h) /\ of_offset[h] <= BLOCK_SIZE
    /\ ToWrite(h, data) = 0
    /\ out' = [op |-> "write", ret |-> 0]
    /\ UNCHANGED <<inodes, taken_blocks, fs_data, directory, table>>

WriteInPlace(h, data) ==
    /\ Usable(h) /\ of_offset[h] <= BLOCK_SIZE
    /\ ToWrite(h, data) > 0 /\ i_size[of_inumber[h]] > 0
    /\ Store(h, i_data_block[of_inumber[h]], data)
    /\ UNCHANGED <<i_data_block, taken_blocks>>

\* The first bytes of an empty file: data_block_alloc.
WriteFirst(h, data) ==
    /\ Usable(h) /\ of_offset[h] <= BLOCK_SIZE
    /\ ToWrite(h, data) > 0 /\ i_size[of_inumber[h]] = 0
    /\ taken_blocks # Block
    /\ LET b == First(Block \ taken_blocks)
       IN  /\ taken_blocks' = taken_blocks \cup {b}
           /\ i_data_block' = [i_data_block EXCEPT ![of_inumber[h]] = b]
           /\ Store(h, b, data)

\* No block is free: i_data_block becomes -1 and the call fails.
WriteNoBlock(h, data) ==
    /\ Usable(h) /\ of_offset[h] <= BLOCK_SIZE
    /\ ToWrite(h, data) > 0 /\ i_size[of_inumber[h]] = 0
    /\ taken_blocks = Block
    /\ i_data_block' = [i_data_block EXCEPT ![of_inumber[h]] = -1]
    /\ out' = [op |-> "write", ret |-> -1]
    /\ UNCHANGED <<taken_inodes, i_size, taken_blocks, fs_data, directory, table>>

(***************************************************************************)
(* _tfs_read_unsynchronized.                                               *)
(***************************************************************************)
\* i_size - of_offset is computed in size_t.
ToRead(h, len) == Smaller(len, (i_size[of_inumber[h]] - of_offset[h]) % SIZE_T)

Returned(h, b, n) == [k \in 1 .. n |-> fs_data[b][of_offset[h] + k - 1]]

\* Reads that leave the block are left out.
Read(h, len) ==
    /\ Usable(h)
    /\ LET b == i_data_block[of_inumber[h]]
           n == ToRead(h, len)
       IN  /\ n > 0 => b \in Block /\ of_offset[h] + n <= BLOCK_SIZE
           /\ of_offset' = [of_offset EXCEPT ![h] = @ + n]
           /\ out' = [op |-> "read", ret |-> n,
                      data |-> IF n > 0 THEN Returned(h, b, n) ELSE <<>>]
    /\ UNCHANGED <<inodes, taken_blocks, fs_data, directory, taken_handles, of_inumber>>

\* data_block_get refuses the block number of a file that never had a block.
ReadNoBlock(h, len) ==
    /\ Usable(h)
    /\ ToRead(h, len) > 0 /\ i_data_block[of_inumber[h]] \notin Block
    /\ out' = [op |-> "read", ret |-> -1, data |-> <<>>]
    /\ UNCHANGED <<inodes, taken_blocks, fs_data, directory, table>>

(***************************************************************************)
(* The system.                                                             *)
(***************************************************************************)
OpenCall(n, flags) ==
    OpenExisting(n, flags) \/ OpenCreate(n, flags) \/ OpenNoEntry(n, flags) \/ OpenFails(n, flags)

WriteCall(h, data) ==
    \/ WriteNothing(h, data) \/ WriteInPlace(h, data) \/ WriteFirst(h, data)
    \/ WriteNoBlock(h, data)

Next ==
    \/ \E n \in Name \cup {NoName}, flags \in SUBSET Flags : OpenCall(n, flags)
    \/ \E h \in Handle :
          \/ Close(h)
          \/ \E data \in Data : WriteCall(h, data)
          \/ \E len \in 0 .. MaxLen : Read(h, len) \/ ReadNoBlock(h, len)

Spec == Init /\ [][Next]_vars

(***************************************************************************)
(* Properties.                                                             *)
(***************************************************************************)
TypeOK ==
    /\ taken_inodes \in SUBSET Inumber
    /\ i_size \in [Inumber -> 0 .. BLOCK_SIZE]
    /\ i_data_block \in [Inumber -> Block \cup {-1}]
    /\ taken_blocks \in SUBSET Block
    /\ fs_data \in [Block -> [Offset -> Byte]]
    /\ d_inumber \in [Entry -> Inumber \cup {-1}]
    /\ d_name \in [Entry -> Name \cup {NoName}]
    /\ taken_handles \in SUBSET Handle
    /\ of_inumber \in [Handle -> Inumber]
    /\ of_offset \in [Handle -> 0 .. BLOCK_SIZE]

\* The i-nodes that have a block: the directory, and every file that is not empty.
Owners == {i \in taken_inodes : i_size[i] > 0}

\* A block is TAKEN exactly when one i-node owns it: no block is leaked, none is given to
\* two files, none is free while a file still uses it, although truncation keeps the old
\* block number in the i-node.
BlocksOwnedOnce ==
    /\ \A i \in Owners : i_data_block[i] \in taken_blocks
    /\ \A b \in taken_blocks : \E i \in Owners : i_data_block[i] = b
    /\ \A i, j \in Owners : i_data_block[i] = i_data_block[j] => i = j

Used == {e \in Entry : d_inumber[e] # -1}

\* Every i-node but the root's has one entry: a failed creation leaves neither an entry
\* without an i-node nor an i-node without an entry.  A file that exists is not created a
\* second time; only a name that is stored cut, and never found, makes entries of equal name.
DirectoryConsistent ==
    /\ \A e, f \in Used : e # f =>
          /\ d_inumber[e] # d_inumber[f]
          /\ d_name[e] = d_name[f] => d_name[e] = CutName /\ LongName # {}
    /\ {d_inumber[e] : e \in Used} = taken_inodes \ {ROOT_DIR_INUM}

\* A name that leads to a file goes on leading to that file: the entry a cut name makes
\* comes after the entry of the file whose name it is cut to, and does not hide it.
LookupStable ==
    [][\A n \in Name : Exists(n) => Exists(n)' /\ Lookup(n)' = Lookup(n)]_vars

\* Every open handle is a position inside an existing file.
OffsetsInFile ==
    \A h \in taken_handles :
        /\ of_inumber[h] \in taken_inodes \ {ROOT_DIR_INUM}
        /\ of_offset[h] <= i_size[of_inumber[h]]

\* The file system behaves as the specification of files does, for callers that use open
\* handles and truncate no file that is open.
Contents(i) == [k \in 1 .. i_size[i] |-> fs_data[i_data_block[i]][k - 1]]
NameOf(i) == d_name[CHOOSE e \in Used : d_inumber[e] = i]
Files == INSTANCE FileStore WITH
    Name <- Name \cup {NoName},
    files <- [n \in {m \in Name : Exists(m)} |-> Contents(Lookup(n))],
    table <- [h \in taken_handles |-> [name |-> NameOf(of_inumber[h]), pos |-> of_offset[h]]]
ImplementsFileStore == Files!Spec

\* operations.h, of tfs_read: "can be lower than 'len' if the file size was reached".  What
\* tfs_read returns comes from the file: it does not move a handle past the file's end.
ReadsInsideFile ==
    [][\A h \in Handle : out'.op = "read" /\ of_offset'[h] # of_offset[h]
            => of_offset'[h] <= i_size[of_inumber[h]]]_vars
=============================================================================
