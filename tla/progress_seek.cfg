SPECIFICATION FairSpec
CONSTANTS
    Size = 3
    BufferSize = 2
    Threshold = 1
    MaxSeeks = 1
    Features = {"noRange"}
INVARIANTS
    FailedSeekKeepsStream
CHECK_DEADLOCK FALSE
