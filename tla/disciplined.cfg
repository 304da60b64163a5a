CONSTANTS
    a = a
    b = b
    long = long
    BlockCount = 6
    FatBlocks = 1
    EntriesPerBlock = 4
    Names <- MCNames
    Paths <- AllPaths
    Sizes = {0, 3, 4, 5}
    TooLong = {long}
    Contents <- MCContents
    Times = {1}
SPECIFICATION DisciplinedSpec
VIEW LiveView
SYMMETRY NameSymmetry
INVARIANTS
    TypeOK
    EveryBlockHasOneOwner
    SoundDirectories
PROPERTIES
    ImplementsFileTree
