\* The comment on QuantumToolkit.defer.
SPECIFICATION Spec
CONSTANTS
    Threads = {t1, t2}
    NoThread = NoThread
    Calls = {"runLater", "exit"}
    MaxCalls = 2
    MaxFxCalls = 1
    MaxEvents = 1
    MaxWindows = 1
    MaxNested = 1
INVARIANTS
    RunLaterIsThreadSafe
CHECK_DEADLOCK FALSE
