SPECIFICATION FairSpec
CONSTANTS
    Peers = {web, shut}
    Listening = {web}
    MinPort = 4
    MaxPort = 5
    SeqSpace = 16
    ISNs = {14}
    ReqLen = 2
    StreamLen = 3
    HdrLen = 1
    StatusLen = 1
    Capacities = {2, 3}
    PollFrames = 1
    MaxCalls = 1
INVARIANTS
    ResponseExact
    ProbeTruthful
PROPERTIES
    ConnectionsEnd
CHECK_DEADLOCK FALSE
