CONSTANTS
    MaxEvents = 1
    Handlers <- OneHandler
    MaxReqs = 2
    JoinRetr = 1
    JoinRespMayFail = FALSE
SPECIFICATION Spec
CHECK_DEADLOCK FALSE
INVARIANT SingleWorker
