CONSTANTS
    c1 = c1
    c2 = c2
    v4 = v4
    v6 = v6
    Conns = {c1}
    NoConn = NoConn
    Loops = {v4}
    MaxId = 1
    OutCap = 1
    InCap = 1
    PipeCap = 1
    MaxUp = 2
    MaxDown = 0
    MaxQueries = 0
    Asking = {c1}
    Answering = {c1}
    MayReset = {}
    Refusing = {c1}
    MayBreak = {}
    MayLoseLink = FALSE
    LinkProbed = TRUE
SPECIFICATION Spec
INVARIANT RefusedConnectNeverWedgesServer
CHECK_DEADLOCK FALSE
