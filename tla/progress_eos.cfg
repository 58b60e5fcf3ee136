SPECIFICATION FairSpec
CONSTANTS
    Size = 3
    BufferSize = 2
    Threshold = 1
    MaxSeeks = 0
    Features = {}
PROPERTIES
    EosIsDelivered
CHECK_DEADLOCK FALSE
