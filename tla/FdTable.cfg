\* Descriptors 2, 3 and 4, so that one is open below and above a third.
\* Sizes: none, less than a block, a block, and -2.
CONSTANTS
    FD_END = 5
    NAME = 2
    DIR = 5
    INODES = 2
    BLOCK = 2
    UINT_MAX = 15
    ReadSizes = {0, 1, 2, 14}
    dir_entries <- MCEntries
    inode_table <- MCInodes
    data <- MCData
    Filenames <- MCFilenames
SPECIFICATION Spec
INVARIANTS
    TypeOK
    CallsDefined
    SlotClean
    Whole
    LookupExact
    PositionInFile
    Delivered
    EndMeansAll
PROPERTY ImplementsOpenFiles
