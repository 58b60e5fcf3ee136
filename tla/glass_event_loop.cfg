\* Three loops, two runnables, one native event and one invokeAndWait.  No
\* symmetry, because of the temporal properties.
SPECIFICATION FairSpec
CONSTANTS
    Runnables = {r1, r2}
    Loops = {l1, l2, l3}
    Events = {e1}
    Callers = {c1}
    NoLoop = NoLoop
INVARIANTS
    TypeOK
    LeaveNeverThrows
    EnterAssertions
    DispatcherServesInnerLoops
    HeldBackForALoop
    LeavingLoopNotForgotten
PROPERTIES
    InvokeLaterInOrder
    LeavingLoopReturns
    RunnablesRunUnlessOvertaken
    InvokeAndWaitReturnsUnlessNested
CHECK_DEADLOCK FALSE
