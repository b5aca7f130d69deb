CONSTANTS
    p1 = p1
    p2 = p2
    Pids = {p1, p2}
    Systems = {"linux", "macos", "other"}
    Dns = TRUE
    HasV6 = TRUE
    DrainLimit = 1
    MaxRuns = 2
    MaxKills = 2
    MaxFails = 1
    EarlySignals = TRUE
SPECIFICATION FairSpec
INVARIANTS FirewallTypeOK CleanupIsComplete FailedCleanupIsHarmless RedirectIsOwn HookedIsWhole FirewallInv
PROPERTY CleanupEnds
CHECK_DEADLOCK FALSE
