CONSTANTS
    PageSize = 2
    MemEnd = 67
    MaxMemoryPages = 33
    BootRanges <- MCBootRanges
    FirmwareRanges <- MCFirmwareRanges
    MaxCount = 2
    Fan <- MCFan
    KernelHalf = 2
    KernelPml4 = 1
    BootTables <- MCBootTables
    StackPages = 1
    StackTop = 32
    KStackPages = 2
    WindowStart = 56
    WindowEnd = 62
    Programs <- MCPrograms
    Tasks = 2
    UserStart = 48
    UserEnd = 96
    Addrs <- MCAddrs
    Sizes = {0, 1, 2, 3, 97}
    MaxCopies = 1
SPECIFICATION USpec
INVARIANTS
    ReservedNeverHeld
    FramesOwnedOnce
    ProgramsIntact
    ReadsTruthful
PROPERTIES
    ImplementsPageAllocator
    WritesConfined
CHECK_DEADLOCK FALSE
