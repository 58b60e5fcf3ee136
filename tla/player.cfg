SPECIFICATION FairSpec
CONSTANTS
    Requests = {"play", "pause", "stop", "finish", "seek", "rateZero", "rateSet", "dispose"}
    MaxRequests = 2
    MaxStalls = 1
    MaxBus = 1
    Faults = {"error", "mediaError", "lost", "seekFails"}
INVARIANTS
    ContentLifetime
PROPERTIES
    StallIsOvercome
CHECK_DEADLOCK FALSE
