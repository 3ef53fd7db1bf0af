CONSTANTS
    Addrs <- Three
    IntMax = 15
    Links <- ThreeLinks
    MallocMayFail = TRUE
SPECIFICATION Spec
INVARIANT TypeOK
INVARIANT GraphWellFormed
