SPECIFICATION Spec
CONSTANTS
    Name = {a}
    NoName = NoName
    LongName = {}
    CutName = a
    Byte = {0, 1}
    Zero = 0
    BLOCK_SIZE = 2
    DATA_BLOCKS = 2
    INODE_TABLE_SIZE = 2
    MAX_OPEN_FILES = 2
    MAX_DIR_ENTRIES = 1
    MaxLen = 1
    SIZE_T = 16
    SharedTruncate = TRUE
    StaleHandles = FALSE
PROPERTY ReadsInsideFile
