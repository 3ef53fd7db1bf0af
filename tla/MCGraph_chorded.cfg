CONSTANTS
    Addrs <- Four
    IntMax = 15
    Links <- Chorded
    MallocMayFail = FALSE
SPECIFICATION Spec
INVARIANT SimpleIsShortestPath
INVARIANT LfaLoopFree
INVARIANT EcmpComplete
