CONSTANTS
    Idle = idle
    Addr = {idle, a1, a2, a3}
    Nil = nil
    Ptys = {0}
    NoPty = nopty
    Programs = {"shell", "desktop", "app"}
    Calls <- ShippedCalls
    BootProgram = "desktop"
    ExitCodes = {0}
    MaxPid = 3
SPECIFICATION Spec
CHECK_DEADLOCK FALSE
INVARIANTS
    RunnableQueuedOnce
    ZombieKeptForParent
    PtyBoundToLiveTask
    PreemptOnlyInWaits
PROPERTIES
    EndsOnce
    ReadyTaskRuns
    WaitEventuallyReturns
