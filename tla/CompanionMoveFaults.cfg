SPECIFICATION Spec
CONSTANTS
    Slots = {s1, s2}
    Items = {none, dirt}
    NoItem = none
    MaxMoves = 2
    MaxChanges = 0
    MaxOwn = 1
    MaxPresses = 1
    KeyCanFail = TRUE
    SlowServer = TRUE
    SlowFrames = TRUE
SYMMETRY SlotSymmetry
INVARIANT OneMoveAtATime
