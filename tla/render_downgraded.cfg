\* One scene, painted without failures.
SPECIFICATION Spec
CONSTANTS
    Scenes = {s1}
    NoScene = NoScene
    Multithreaded = TRUE
    Features = {"expose"}
    MaxFailures = 0
INVARIANTS
    RepaintNotDowngraded
CHECK_DEADLOCK FALSE
