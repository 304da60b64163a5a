CONSTANTS
    a = a
    b = b
    long = long
    BlockCount = 7
    FatBlocks = 1
    EntriesPerBlock = 3
    Names <- MCNames
    Paths <- FewPaths
    Sizes = {2}
    TooLong = {long}
    Contents <- MCContents
    Times = {1}
SPECIFICATION ShellSpec
VIEW Relevant
INVARIANT DirectoriesReadable
