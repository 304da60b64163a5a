SPECIFICATION Spec
CONSTANTS
    NumBlocks = 3
    Values = {"old", "new"}
    Empty = Empty
    HighCapacity = FALSE
    MaxFaults = 3
    FaultyPlaces <- SomePlaces
    Requests <- Small
    MaxTransfer = 2
INVARIANTS
    BlocksAccounted
    WellAddressed
PROPERTY IsBlockDevice
