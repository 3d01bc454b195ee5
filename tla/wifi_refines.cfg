SPECIFICATION Spec
CONSTANTS
    NumSockets = 2
    MaxSession = 1
    MaxInflight = 1
    GetTimeWait = 1
    ConnectWait = 1
    ReconnectWait = 2
    TicksPerPass = 1
    BufferSize = 1
    Word = 4
    Lengths = {1}
    ReadTimeouts = {0}
    LateAnswers = TRUE
    DhcpRenewals = TRUE
INVARIANTS
    OpenSocketsAccounted
    SavedSocketOpen
    NoReconnectInCall
PROPERTIES
    ErrorRetried
    ImplementsLink
