CONSTANTS
    c1 = c1
    c2 = c2
    v4 = v4
    v6 = v6
    Conns = {c1}
    NoConn = NoConn
    Loops = {v4}
    MaxId = 1
    OutCap = 1
    InCap = 1
    PipeCap = 1
    MaxUp = 0
    MaxDown = 0
    MaxQueries = 0
    Asking = {c1}
    Answering = {c1}
    MayReset = {}
    Refusing = {}
    MayBreak = {}
    MayLoseLink = TRUE
    LinkProbed = TRUE
SPECIFICATION FairSpec
PROPERTY ServerShutsDown
CHECK_DEADLOCK FALSE
