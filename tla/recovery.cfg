SPECIFICATION BusySpec
CONSTANTS
    NumBlocks = 1
    Values = {"old", "new"}
    Empty = Empty
    HighCapacity = TRUE
    MaxFaults = 2
    FaultyPlaces <- AllPlaces
    Requests <- Tiny
    MaxTransfer = 1
PROPERTIES
    CallsReturn
    Recovers
CHECK_DEADLOCK FALSE
