CONSTANTS
    p1 = p1
    Pids = {p1}
    Systems = {"linux", "macos", "other"}
    Dns = FALSE
    HasV6 = FALSE
    DrainLimit = 2
    MaxRuns = 1
    MaxKills = 0
    MaxFails = 1
    EarlySignals = FALSE
SPECIFICATION Spec
INVARIANT FailedInstallIsUndone
CHECK_DEADLOCK FALSE
