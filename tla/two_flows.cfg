CONSTANTS
    c1 = c1
    c2 = c2
    v4 = v4
    v6 = v6
    Conns = {c1, c2}
    NoConn = NoConn
    Loops = {v4, v6}
    MaxId = 2
    OutCap = 1
    InCap = 1
    PipeCap = 1
    MaxUp = 1
    MaxDown = 1
    MaxQueries = 0
    Asking = {c2}
    Answering = {c1}
    MayReset = {}
    Refusing = {c2}
    MayBreak = {}
    MayLoseLink = FALSE
    LinkProbed = TRUE
SPECIFICATION FairSpec
INVARIANTS TypeOK NoCrosstalk RoutingInv
PROPERTIES ChannelsNeverStolen StreamsPromise FlowsFinish TasksFinish
CHECK_DEADLOCK FALSE
