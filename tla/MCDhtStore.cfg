CONSTANTS
    k1 = k1
    k2 = k2
    self = self
    peer = peer
    Keys <- MCKeys
    NoKey = NoKey
    Addrs <- MCAddrs
    Self = self
    Garbage <- MCGarbage
    Epoch = 10
    MaxTick = 3
    TExpire = 2
    TRepub = 1
    TRepl = 1
    MaxOps = 2
    DhtRetrAddr = 1

SPECIFICATION Spec
INVARIANT TypeOK
PROPERTY ExpiredPurged RefsRepublished
