SPECIFICATION FairSpec
CONSTANTS
    ItemCount = 2
    Files = {f1, f2}
    Faults = {"mv", "attach"}
    CrossDevice = FALSE
    Symlinks = TRUE
INVARIANTS NoFileLost FailedTransactionIsUndone InterruptedTransactionIsUndone
PROPERTY EventuallyPlays
