SPECIFICATION FairSpec
CONSTANTS
    NTasks = 1
    Uses = {"input"}
    ArpTicks = 2
    CallTicks = 2
    PollFrames = 2
    NicSize = 1
    MayForget = TRUE
PROPERTIES InputKeepsBeingPolled
CHECK_DEADLOCK FALSE
