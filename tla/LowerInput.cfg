SPECIFICATION InputFairSpec
CONSTANTS
    Spots = {"INPUT", "SETTINGS", "left", "right"}
    MaxEvents = 2
    MaxPresses = 3
    MaxFlips = 2
    MaxScreens = 1
    ReadSize = 3
INVARIANTS ContactIsForwarded LiftReachesGame
PROPERTIES InjectorIsAimed GestureStaysWhereItBegan ClosingRestores
CHECK_DEADLOCK FALSE
