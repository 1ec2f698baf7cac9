SPECIFICATION Spec
CONSTANTS
    Name = {a, b, d}
    NoName = NoName
    LongName = {d}
    CutName = a
    Byte = {0}
    Zero = 0
    BLOCK_SIZE = 1
    DATA_BLOCKS = 3
    INODE_TABLE_SIZE = 5
    MAX_OPEN_FILES = 2
    MAX_DIR_ENTRIES = 3
    MaxLen = 1
    SIZE_T = 16
    SharedTruncate = TRUE
    StaleHandles = TRUE
INVARIANT TypeOK
INVARIANT BlocksOwnedOnce
INVARIANT DirectoryConsistent
PROPERTY LookupStable
