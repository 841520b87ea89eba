CONSTANTS
    PtyCount = 2
    BufSize = 2
    Bytes = {0, 1}
    Chunks <- MCChunks
    Pids = {1, 2}
    NoPty = 99
    WindowCount = 3
    FbWidth = 4
    FbHeight = 4
    WinWidth = 2
    WinHeight = 2
    ThemeCount = 2
    MaxDirtyRects = 4
    ScrollMax = 2
    ViewMax = 2
    HistoryMax = 2
    DrainChunk = 1
    PathMax = 2
    DirNames = {"d"}
    NameOrder <- MCNames
    FilesSlots = 2
    EntryMax = 4
    ElfNames = {"b.elf"}
    Points <- MCPoints
    Users <- MCUsers
SPECIFICATION Spec
CHECK_DEADLOCK FALSE
INVARIANT ScreenShowsScene
INVARIANT KeysGoToTopWindow
INVARIANT RingsKeepLatest
INVARIANT CommandOwnsSession
PROPERTY ImplementsPtyChannel
PROPERTY DeletesWhatIsShown
PROPERTY CommandCollected
