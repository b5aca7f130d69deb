CONSTANTS
    u1 = u1
    u2 = u2
    s1 = s1
    s2 = s2
    Chans = {u1, u2}
    Socks = {s1, s2}
    None = None
    Cap = 1
    OutCap = 1
    MaxData = 2
    MaxReplies = 2
    MayReopen = TRUE
SPECIFICATION FairSpec
INVARIANTS UdpTypeOK ClosedFallsSilent
PROPERTIES LoopNeverStuck QueuedIsSent
CHECK_DEADLOCK FALSE
