CONSTANTS
    PipeCap = 2
    Chunk = 2
    OutCap = 2
    Commands = {"PING", "HOST_REQ", "EXIT", "PONG", "CONNECT"}
    AfterBoot = {"BAD_CONNECT"}
    MaxFrames = 2
    MaxAfter = 1
    MayDie = TRUE
    MayCancel = TRUE
SPECIFICATION FairSpec
INVARIANTS SessionTypeOK EaterInStep RepliesInOrder SuccessIsTrue SessionInv
PROPERTIES StdinPromise SessionEnds ServerEnds
CHECK_DEADLOCK FALSE
