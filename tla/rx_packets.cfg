SPECIFICATION Spec
CONSTANTS
    Size = 8
    ReadBuf = 6
    Kinds <- MCKinds
    MaxSent = 5
    MaxUnruly = 3
INVARIANTS
    ReadAsSent
PROPERTIES
    NothingDiscarded
    PacketsArrive
CHECK_DEADLOCK FALSE
