SPECIFICATION Spec
CONSTANTS
    ItemCount = 2
    Files = {f1, f2}
    Faults = {"mv", "attach", "undo"}
    CrossDevice = TRUE
    Symlinks = FALSE
INVARIANT ReachesEverything
PROPERTY KeepsPromise

