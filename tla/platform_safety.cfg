\* Two threads and the FX thread; tkExit and listeners are in platform_liveness.
SPECIFICATION Spec
CONSTANTS
    Threads = {t1, t2}
    NoThread = NoThread
    Calls = {"runLater", "runAndWait", "exit", "setImplicitExit", "windows", "nested"}
    MaxCalls = 2
    MaxFxCalls = 2
    MaxEvents = 2
    MaxWindows = 1
    MaxNested = 1
SYMMETRY Symmetry
INVARIANTS
    TypeOK
    PendingAccounted
    TerminatesOnce
CHECK_DEADLOCK FALSE
