CONSTANTS
    s = s
    p = p
    q = q
    r = r
    Self = s
    Peers <- MCPeers
    Id <- MCId
    IdLen = 3
    Digits = {0, 1}
    K = 2
    Keys <- MCKeys
    MallocMayFail = FALSE
SPECIFICATION Spec
INVARIANT ContactsDistinct
