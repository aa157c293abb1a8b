SPECIFICATION FairSpec
CONSTANTS
    Policies = {cpu0, gpu}
    SignalsAt = {"check", "note frontend", "stop frontend", "mount", "mode", "launch", "wait", "cleanup"}
    MaxSignals = 1
    STALL_SECONDS = 2
    STARTUP_TIMEOUT = 2
    GRACE_SECONDS = 1
INVARIANT RestoredOnExit
PROPERTIES OnlyTheStuckAreEnded HungSessionEnds
