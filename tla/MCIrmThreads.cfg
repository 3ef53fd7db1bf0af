CONSTANTS
    MinAv = 1
    MaxAv = 2
    Ids <- MCIds
    SizeMax = 4
    MaxReqs = 3
    CreateMayFail = FALSE
SPECIFICATION Spec
\* main exits after irm_fini: the process really stops.
CHECK_DEADLOCK FALSE
INVARIANT TypeOK
INVARIANT ThreadsCountsIdle
PROPERTY ShutdownCompletes
PROPERTY PoolReplenished
