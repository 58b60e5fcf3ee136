SPECIFICATION FairSpec
CONSTANTS
    Requests = {"play", "pause"}
    MaxRequests = 4
    MaxStalls = 0
    MaxBus = 1
    Faults = {}
PROPERTIES PauseTakesEffect
CHECK_DEADLOCK FALSE
