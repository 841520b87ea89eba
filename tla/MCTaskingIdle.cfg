CONSTANTS
    Idle = idle
    Addr = {idle, a1, a2}
    Nil = nil
    Ptys = {0}
    NoPty = nopty
    Programs = {"shell", "desktop", "app"}
    Calls <- ShippedCalls
    BootProgram = "shell"
    ExitCodes = {0}
    MaxPid = 2
SPECIFICATION Spec
CHECK_DEADLOCK FALSE
PROPERTIES
    IdleRunsWhenAllExited
