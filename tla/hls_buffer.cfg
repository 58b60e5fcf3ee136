SPECIFICATION FairSpec
CONSTANTS
    Segments = 3
    Blocks = 2
    NumCached = 2
    MaxSeeks = 1
    Features = {"truncate", "unloadable", "empty", "reject", "stop"}
INVARIANTS
    TypeOK
    RingInStep
    InOrder
    NoEarlyEos
PROPERTIES
    SeekEnds
    StreamEnds
CHECK_DEADLOCK FALSE
