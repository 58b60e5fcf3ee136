\* One scene, painted without failures.
SPECIFICATION Spec
CONSTANTS
    Scenes = {s1}
    NoScene = NoScene
    Multithreaded = TRUE
    Features = {"expose"}
    MaxFailures = 0
INVARIANTS
    RepaintNotSkipped
CHECK_DEADLOCK FALSE
