SPECIFICATION MCSpec
CONSTANTS
    SD_BLOCK_SIZE = 4
    Size = 12
    Byte <- Bytes
    Disks <- OneDisk
    Calls <- Inside
    PathJobs <- SomePaths
    CopyJobs <- SomeCopies
    SetJobs <- SomeFills
    ClockJobs <- SomeClocks
    BaudJobs <- SomeBauds
    TimeJobs <- SomeTimes
    Half = 4
    Memory <- SomeMemory
INVARIANTS
    OthersUntouched
    Delivered
    PathsAgree
    CopiesAgree
    ClocksAgree
CHECK_DEADLOCK FALSE
