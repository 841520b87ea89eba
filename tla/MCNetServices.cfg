SPECIFICATION Spec
CONSTANTS
    Servers <- MCServers
    Refusals <- MCRefusals
    EmptyOffers = {"c"}
    NoAckAddr = {"b"}
    OfferOpts <- MCOfferOpts
    AckOpts <- MCAckOpts
    PollFrames = 2
    Names <- MCNames
    Lower <- MCLower
    Zone <- MCZone
    ZeroIp = 0
    Ttls = {0, 9}
    MinTtl = 1
    MaxTtl = 2
    MaxTxid = 2
    MinPort = 7
    MaxPort = 9
    CacheSize = 2
    MaxTick = 2
    MaxQueries = 3
    Self = "self"
    Subnet <- MCSubnet
    Gateway = "gw"
    Path <- MCPath
    Mac <- MCMac
    PingTtl = 2
    MaxHops = 3
    MaxSequence = 2
    ArpCacheSize = 1
CHECK_DEADLOCK FALSE
INVARIANTS
    LeaseSound
    AnswersTrue
    TraceTruthful
    FramesReachNextHop
PROPERTIES
    ConfigurationStays
    ExchangeEnds
    PingMeansAnswered
