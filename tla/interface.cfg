CONSTANTS
    a = a
    b = b
    long = long
    BlockCount = 6
    FatBlocks = 1
    EntriesPerBlock = 2
    Names <- MCNames
    Paths <- FewPaths
    Sizes = {0, 1, 3}
    TooLong = {long}
    Contents <- MCContents
    Times = {1}
SPECIFICATION Spec
VIEW Relevant

    
    
    
PROPERTY
    FailureIsAtomic
