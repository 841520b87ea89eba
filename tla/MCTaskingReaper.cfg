CONSTANTS
    Idle = idle
    Addr = {idle, a1, a2, a3, a4}
    Nil = nil
    Ptys = {0, 1}
    NoPty = nopty
    Programs = {"any"}
    Calls <- AnyCalls
    BootProgram = "any"
    ExitCodes = {0}
    MaxPid = 5
INIT Init
NEXT Next
SYMMETRY UserAddresses
CHECK_DEADLOCK FALSE
INVARIANT CurrentAllocated
