SPECIFICATION Spec
CONSTANTS
    NumSockets = 2
    MaxSession = 2
    MaxInflight = 1
    GetTimeWait = 2
    ConnectWait = 2
    ReconnectWait = 3
    TicksPerPass = 1
    BufferSize = 2
    Word = 8
    Lengths <- MCLengths
    ReadTimeouts <- MCReadTimeouts
    LateAnswers = FALSE
    DhcpRenewals = FALSE
INVARIANTS
    TypeOK
    ReadyMeansIdle
    TimeoutOnlyInCall
