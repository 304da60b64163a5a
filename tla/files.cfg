CONSTANTS
    x = x
    y = y
    Absent = Absent
    Unknown = Unknown
    BlockCount = 7
    FatBlocks = 1
    BlockSize = 2
    Files <- MCFiles
    Calls <- MCCalls
    MaxCuts = 1
SPECIFICATION Spec
VIEW Relevant
INVARIANTS
    FilesReadBack
    BlocksAreOwned
    CreateIsAtomic
CHECK_DEADLOCK FALSE
