SPECIFICATION Spec
CONSTANTS
    Kept = {config, fmod}
    Config = config
    Shipped = {fmod}
    Shared = {apk, profiles}
    Symlinks = TRUE
    MaxUpdates = 3
    MaxTrouble = 3
    config = config
    fmod = fmod
    apk = apk
    profiles = profiles
INVARIANTS SurvivesOneTrouble FailureRestoresPrevious DoneIsComplete
