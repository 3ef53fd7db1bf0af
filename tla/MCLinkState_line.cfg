CONSTANTS
    Nodes <- AllNodes
    Links <- LineLinks
    Timeo = 1
    MaxClock = 2
    MaxConnEvents = 2
    MgmtUp <- LineLinks
SPECIFICATION Spec
INVARIANT TypeOK
PROPERTY FloodingQuiesces 
