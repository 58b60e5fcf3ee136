\* Two scenes that change, are exposed and are disposed of; vsync hints; exit.
SPECIFICATION Spec
CONSTANTS
    Scenes = {s1, s2}
    NoScene = NoScene
    Multithreaded = TRUE
    Features = {"expose", "dispose", "vsync", "exit"}
    MaxFailures = 0
SYMMETRY Symmetry
INVARIANTS
    TypeOK
    OnePulse
    LatchCanReachZero
    PaintingMeansJob
    NoFrameLost
CHECK_DEADLOCK FALSE
