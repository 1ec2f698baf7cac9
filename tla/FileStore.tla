----------------------------- MODULE FileStore ------------------------------
(***************************************************************************)
(* What TecnicoFS promises about files (fs/operations.h): a file is a      *)
(* sequence of at most BLOCK_SIZE bytes, a handle is a position in a file, *)
(* and the four calls do what their comments say.  FsState, with its       *)
(* i-nodes, blocks, directory and table, is shown to implement this.       *)
(***************************************************************************)
EXTENDS Integers, Sequences

CONSTANTS Name, Handle, Byte, BLOCK_SIZE, MaxLen

VARIABLES
    files,   \* the contents of every file that exists
    table,   \* the file and the position of every open handle
    out      \* what the last call returned

Flags == {"CREAT", "TRUNC", "APPEND"}

\* f with n mapped to v.
Put(f, n, v) == [m \in DOMAIN f \cup {n} |-> IF m = n THEN v ELSE f[m]]

Smaller(a, b) == IF a <= b THEN a ELSE b

\* The file after tfs_open found or created it.
Opened(n, flags) ==
    IF n \in DOMAIN files /\ "TRUNC" \notin flags THEN files[n] ELSE <<>>

Init == files = <<>> /\ table = <<>> /\ out = [op |-> "init"]

\* tfs_open: an existing file, or a new one if the flags say so, gets a handle that was
\* not in use; the position is 0, or the end with APPEND.
Open(n, flags) ==
    /\ n \in DOMAIN files \/ "CREAT" \in flags
    /\ \E h \in Handle \ DOMAIN table :
          /\ files' = Put(files, n, Opened(n, flags))
          /\ table' = Put(table, h, [name |-> n,
                pos |-> IF "APPEND" \in flags THEN Len(Opened(n, flags)) ELSE 0])
          /\ out' = [op |-> "open", ret |-> h]

\* A tfs_open that fails leaves everything as it was, but for one case: with no handle
\* left the file stays created or truncated.
OpenFails(n, flags) ==
    /\ \/ n \notin DOMAIN files /\ UNCHANGED files
       \/ /\ DOMAIN table = Handle
          /\ n \in DOMAIN files \/ "CREAT" \in flags
          /\ files' = Put(files, n, Opened(n, flags))
    /\ out' = [op |-> "open", ret |-> -1]
    /\ UNCHANGED table

Close(h) ==
    /\ h \in DOMAIN table
    /\ table' = [k \in DOMAIN table \ {h} |-> table[k]]
    /\ out' = [op |-> "close", ret |-> 0]
    /\ UNCHANGED files

CloseFails(h) ==
    /\ h \notin DOMAIN table
    /\ out' = [op |-> "close", ret |-> -1]
    /\ UNCHANGED <<files, table>>

\* tfs_write overwrites from the position on, extends the file up to BLOCK_SIZE and
\* returns the number of bytes written.
Write(h, data) ==
    /\ h \in DOMAIN table
    /\ LET pos == table[h].pos
           old == files[table[h].name]
           n   == Smaller(Len(data), BLOCK_SIZE - pos)
           end == IF pos + n > Len(old) THEN pos + n ELSE Len(old)
       IN  /\ files' = [files EXCEPT ![table[h].name] =
                          [k \in 1 .. end |-> IF k > pos /\ k <= pos + n THEN data[k - pos]
                                              ELSE old[k]]]
           /\ table' = [table EXCEPT ![h].pos = pos + n]
           /\ out' = [op |-> "write", ret |-> n]

\* An empty file may find no room for its first byte.
WriteFails(h, data) ==
    /\ h \in DOMAIN table
    /\ files[table[h].name] = <<>> /\ data # <<>>
    /\ out' = [op |-> "write", ret |-> -1]
    /\ UNCHANGED <<files, table>>

\* tfs_read returns the bytes from the position on, up to the end of the file.
Read(h, len) ==
    /\ h \in DOMAIN table
    /\ LET pos == table[h].pos
           old == files[table[h].name]
           n   == Smaller(len, Len(old) - pos)
       IN  /\ table' = [table EXCEPT ![h].pos = pos + n]
           /\ out' = [op |-> "read", ret |-> n, data |-> SubSeq(old, pos + 1, pos + n)]
    /\ UNCHANGED files

Data == UNION {[1 .. n -> Byte] : n \in 0 .. MaxLen}

Next ==
    \/ \E n \in Name, flags \in SUBSET Flags : Open(n, flags) \/ OpenFails(n, flags)
    \/ \E h \in Handle :
          \/ Close(h) \/ CloseFails(h)
          \/ \E data \in Data : Write(h, data) \/ WriteFails(h, data)
          \/ \E len \in 0 .. MaxLen : Read(h, len)

vars == <<files, table, out>>

Spec == Init /\ [][Next]_vars
=============================================================================
