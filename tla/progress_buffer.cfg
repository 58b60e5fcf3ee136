SPECIFICATION FairSpec
CONSTANTS
    Size = 3
    BufferSize = 2
    Threshold = 1
    MaxSeeks = 2
    Features = {"truncate", "reject", "stop", "noRange"}
INVARIANTS
    TypeOK
    CacheHoldsStream
    NoLostWakeup
    InOrder
    NoEarlyEos
PROPERTIES
    SeekEnds
    EndOfStream
CHECK_DEADLOCK FALSE
