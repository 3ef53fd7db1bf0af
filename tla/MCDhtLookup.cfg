CONSTANTS
    Ids <- MCIds
    Self = 1
    Key = 6
    Known <- MCKnown
    PeerBucket <- MCPeerBucket
    Holders <- MCHolders
    Value = 3
    K = 2
    Alpha = 2
    Handlers <- TwoHandlers
    MaxSends = 4
SPECIFICATION Spec
\* dht_query returns and the IPCP has nothing left to do.
CHECK_DEADLOCK FALSE
INVARIANT TypeOK
INVARIANT LookupContactsDistinct
PROPERTY LookupEnds
