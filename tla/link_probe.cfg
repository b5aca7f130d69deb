CONSTANTS
    N = 3
    Fallback = 2
    EnvDelay = 0
    Networks = {"bursty", "hostile", "slow"}
SPECIFICATION FairSpec
INVARIANTS ProbeTypeOK RetriesArePaced GoodMeansNothingLost
PROPERTIES LinkComesUp SetupDecides
CHECK_DEADLOCK FALSE
