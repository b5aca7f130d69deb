CONSTANTS
    c1 = c1
    c2 = c2
    v4 = v4
    v6 = v6
    Conns = {c1}
    NoConn = NoConn
    Loops = {v4}
    MaxId = 1
    OutCap = 2
    InCap = 1
    PipeCap = 1
    MaxUp = 2
    MaxDown = 2
    MaxQueries = 1
    Asking = {c1}
    Answering = {c1}
    MayReset = {c1}
    Refusing = {}
    MayBreak = {c1}
    MayLoseLink = TRUE
    LinkProbed = FALSE
SPECIFICATION FairSpec
PROPERTIES StreamsPromise FlowsFinish TasksFinish
CHECK_DEADLOCK FALSE
