SPECIFICATION ClientSpec
CONSTANTS
    Socks = {c1, c2}
    None = None
    MaxPacketId = 2
    MaxHandlers = 2
    MaxQueue = 2
    MaxRequests = 2
    EarlyPublish = FALSE
    StaleData = FALSE
    SplitPackets = FALSE
INVARIANTS
    ClientTypeOK
    RunKnownToBroker
    ConnectComesFirst
    AcknowledgedWereHandled
