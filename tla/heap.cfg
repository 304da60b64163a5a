CONSTANTS
    Start = 0
    HeaderSize = 24
    MEMORY_ALIGN = 32
    Sizes = {8, 10, 70}
    Limit = 300
SPECIFICATION Spec
INVARIANTS
    TypeOK
    BlocksFollow
    UsedAreHeld
    CounterIsExact
    FreeIsMerged
PROPERTIES
    HandsOutRegions
