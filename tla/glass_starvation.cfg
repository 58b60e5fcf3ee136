\* The comment of Application.invokeLater.
SPECIFICATION FairSpec
CONSTANTS
    Runnables = {r1, r2}
    Loops = {l1, l2}
    Events = {e1}
    Callers = {}
    NoLoop = NoLoop
PROPERTIES
    RunnablesRun
CHECK_DEADLOCK FALSE
