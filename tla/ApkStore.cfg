SPECIFICATION StoreSpec
CONSTANTS
    Abis = {arm64, armhf}
    Files = {base, split}
    MaxInstalls = 2
    MaxDownloads = 2
    MaxTrouble = 1
    MaxCuts = 2
SYMMETRY StoreSymmetry
INVARIANTS InstalledStays ShownIsAccountedFor FailureIsUndone
INVARIANTS NeverMixed InstallsTheDownload FailedDownloadRestores
