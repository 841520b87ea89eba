SPECIFICATION FairSpec
CONSTANTS
    NTasks = 2
    Uses = {"input", "sleep", "call"}
    ArpTicks = 2
    CallTicks = 2
    PollFrames = 2
    NicSize = 1
    MayForget = TRUE
INVARIANTS
    OnePollAtATime
PROPERTIES
    NetworkCallsReturn
CHECK_DEADLOCK FALSE
