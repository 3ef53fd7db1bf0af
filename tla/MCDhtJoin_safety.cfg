CONSTANTS
    MaxEvents = 2
    Handlers <- TwoHandlers
    MaxReqs = 3
    JoinRetr = 1
    JoinRespMayFail = FALSE
SPECIFICATION Spec
CHECK_DEADLOCK FALSE
INVARIANT TypeOK
INVARIANT RunningHasBuckets
INVARIANT NoUseAfterFree
PROPERTY JoinEnds
