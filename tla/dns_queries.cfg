CONSTANTS
    q1 = q1
    q2 = q2
    q3 = q3
    Queries = {q1, q2, q3}
    None = None
    MaxListed = 2
    OtherFlows = 1
    MaxId = 3
    Cap = 1
    MayLoseLink = TRUE
SPECIFICATION FairSpec
INVARIANTS DnsTypeOK DnsInv AnswersAreOwn AskerIsRemembered
PROPERTY NoEntryLeaks
CHECK_DEADLOCK FALSE
