\* The class comment of InvokeLaterDispatcher.
\* No native events, so that whoever leaves a loop is a runnable.
SPECIFICATION Spec
SYMMETRY Symmetry
CONSTANTS
    Runnables = {r1, r2, r3, r4}
    Loops = {l1, l2}
    Events = {}
    Callers = {}
    NoLoop = NoLoop
PROPERTIES
    LastRunnableOfInnerLoop
CHECK_DEADLOCK FALSE
