\* The comment on Platform.exit.
SPECIFICATION FairSpec
CONSTANTS
    Threads = {t1}
    NoThread = NoThread
    Calls = {"exit", "nested"}
    MaxCalls = 2
    MaxFxCalls = 2
    MaxEvents = 2
    MaxWindows = 1
    MaxNested = 1
PROPERTIES
    ExitEndsFxThread
CHECK_DEADLOCK FALSE
