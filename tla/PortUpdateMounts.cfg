SPECIFICATION Spec
CONSTANTS
    Kept = {config, fmod}
    Config = config
    Shipped = {fmod}
    Shared = {apk, profiles}
    Symlinks = FALSE
    MaxUpdates = 3
    MaxTrouble = 0
    config = config
    fmod = fmod
    apk = apk
    profiles = profiles
INVARIANT SharedDataUntouched
