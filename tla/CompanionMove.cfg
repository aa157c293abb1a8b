SPECIFICATION FairSpec
CONSTANTS
    Slots = {s1, s2}
    Items = {none, dirt}
    NoItem = none
    MaxMoves = 3
    MaxChanges = 1
    MaxOwn = 0
    MaxPresses = 0
    KeyCanFail = FALSE
    SlowServer = FALSE
    SlowFrames = FALSE
INVARIANTS AckedOkIsOnServer InSyncAtRest GameLeftAsFound
PROPERTY NothingStaysOpen
