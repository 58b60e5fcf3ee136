\* One thread beside the FX thread; no symmetry, because of the temporal properties.
SPECIFICATION FairSpec
CONSTANTS
    Threads = {t1}
    NoThread = NoThread
    Calls = {"runLater", "runAndWait", "exit", "tkExit", "setImplicitExit", "listeners", "windows", "nested"}
    MaxCalls = 3
    MaxFxCalls = 3
    MaxEvents = 2
    MaxWindows = 1
    MaxNested = 1
PROPERTIES
    ImplicitExitDropsNothing
    ExitCompletes
    ImplicitExitHappens
    RunAndWaitReturns
CHECK_DEADLOCK FALSE
