SPECIFICATION MCSpec
CONSTANTS
    Worlds = {w1, w2, w3}
    NoWorld = NoWorld
    Marks = {m1, m2}
    Patient = TRUE
    MaxTaps = 2
    MaxMoves = 3
    MaxCuts = 1
    Shows = {s1, s2}
    Hides = {h1}
    Keyboards = 2
INVARIANTS ListsStay EndLeavesNothing
PROPERTIES ListArrives CoverEnds
CHECK_DEADLOCK FALSE
