SPECIFICATION Spec
CONSTANTS
    Letters = {"a"}
    OtherKeys = {"1"}
    Moves <- MCMoves
    KeyBufferSize = 3
    MouseQueueSize = 3
    Width = 2
    Height = 2
    Ports = {1, 2}
    Plugs <- MCPlugs
    MaxHid = 2
    MaxAddress = 2
    FifoSize = 1
    Frames <- MCFrames
    Senders = {t1, t2}
    Capacity = 4
    MinLength = 2
    BufferSize = 6
    E1000RxCount = 3
    E1000TxCount = 3
    RtlTxCount = 2
    RingSize = 28
    MaxLength = 9
INVARIANT KeysReadAsTyped
INVARIANT PointerFollows
INVARIANT FramesIntact
SYMMETRY MCTasks
CHECK_DEADLOCK FALSE
