CONSTANTS
    w1 = w1
    w2 = w2
    r1 = r1
    r2 = r2
    Writers <- MCWriters
    Readers <- MCReaders
    Size = 4
    PortIds = {1, 2}
    MaxWrites = 5
    NoEntry = NoEntry
SYMMETRY Perms
SPECIFICATION Spec
INVARIANT TypeOK
INVARIANT NoSleepOnData
PROPERTY RingQueueSpec
