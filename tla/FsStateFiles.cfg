SPECIFICATION Spec
CONSTANTS
    Name = {a, b}
    NoName = NoName
    LongName = {}
    CutName = a
    Byte = {0, 1}
    Zero = 0
    BLOCK_SIZE = 2
    DATA_BLOCKS = 2
    INODE_TABLE_SIZE = 3
    MAX_OPEN_FILES = 2
    MAX_DIR_ENTRIES = 2
    MaxLen = 2
    SIZE_T = 16
    SharedTruncate = FALSE
    StaleHandles = FALSE
INVARIANT OffsetsInFile
PROPERTY ImplementsFileStore
