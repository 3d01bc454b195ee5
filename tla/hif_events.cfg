SPECIFICATION FairSpec
CONSTANTS
    MaxEvents = 4
    MaxPieces = 3
INVARIANTS
    TypeOK
    InterruptNotLost
    DeliveredInOrder
PROPERTIES
    MemoryGivenBack
    HandlerReturns
