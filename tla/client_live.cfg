SPECIFICATION ClientSpec
CONSTANTS
    Socks = {c1, c2}
    None = None
    MaxPacketId = 1
    MaxHandlers = 2
    MaxQueue = 2
    MaxRequests = 1
    EarlyPublish = TRUE
    StaleData = TRUE
    SplitPackets = TRUE
INVARIANT
    RunSubscribedOnce
PROPERTY
    TurnEnds
