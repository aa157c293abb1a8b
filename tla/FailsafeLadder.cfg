SPECIFICATION Spec
CONSTANTS
    Keys = {k1}
    NoKey = NoKey
    Pins = {0, 2}
    StateCanFail = TRUE
INVARIANT FloorIsEvidence
INVARIANT NeverBelowFloor
PROPERTY ClimbsAfterTwoClean
PROPERTY EscalatesOnOwnEvidence
PROPERTY HangIsCounted
