CONSTANTS
    Nodes <- AllNodes
    Links <- TriangleLinks
    Timeo = 0
    MaxClock = 0
    MaxConnEvents = 1
    MgmtUp <- TriangleLinks
SPECIFICATION Spec
PROPERTY FloodingQuiesces
