CONSTANTS
    LastCluster = 4
    LastEntry = 5
    SectorsPerCluster = 2
    SectorBytes = 1
    RootEntries = 3
    BaseLen = 2
    ExtLen = 1
    Names <- MCNames
    BootDirs <- MCBootDirs
    MountName <- MCMountName
    TmpPaths <- MCTmpPaths
    Disks <- MCDisks
    MaxLen = 3
    MaxTmp = 3
    Value = 1
    Garbage = Garbage
    Writes <- MCWrites
    MaxFaults = 2
    MaxCalls = 2
VIEW View
CONSTRAINT TmpfsApart
SPECIFICATION Spec
INVARIANTS ReadsWhatWasWritten ChainsSound VisibleAfterReboot
CHECK_DEADLOCK FALSE
