CONSTANTS
    p1 = p1
    Pids = {p1}
    Systems = {"linux", "macos", "other"}
    Dns = FALSE
    HasV6 = FALSE
    DrainLimit = 2
    MaxRuns = 1
    MaxKills = 0
    MaxFails = 0
    EarlySignals = TRUE
SPECIFICATION Spec
INVARIANT SignalLeavesNoChain
CHECK_DEADLOCK FALSE
