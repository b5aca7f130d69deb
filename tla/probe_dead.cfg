CONSTANTS
    N = 2
    Fallback = 2
    EnvDelay = 0
    Networks = {"hostile"}
SPECIFICATION Spec
INVARIANT DeadSessionIsReplaced
CHECK_DEADLOCK FALSE
