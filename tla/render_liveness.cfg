\* One scene, everything that may happen to it, one paint that fails.
SPECIFICATION FairSpec
CONSTANTS
    Scenes = {s1}
    NoScene = NoScene
    Multithreaded = TRUE
    Features = {"expose", "dispose", "animation", "vsync", "exit"}
    MaxFailures = 1
PROPERTIES
    ChangesAreSynchronized
    FramesArePainted
    ExitGetsThrough
CHECK_DEADLOCK FALSE
