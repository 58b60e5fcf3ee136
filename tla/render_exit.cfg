\* One scene, painted without failures.
SPECIFICATION Spec
CONSTANTS
    Scenes = {s1}
    NoScene = NoScene
    Multithreaded = TRUE
    Features = {"expose","exit"}
    MaxFailures = 0
INVARIANTS
    RendererIdleOnExit
CHECK_DEADLOCK FALSE
