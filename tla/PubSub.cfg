SPECIFICATION FairSpec

CONSTANTS
    s1 = s1
    s2 = s2
    s3 = s3
    noOne = noOne
    NoOne <- noOne
    Subscribers <- Two
    Sockets <- TwoSockets
    Capacity = 2
    ReuseAtOnce = FALSE
    MaxMessages = 2

INVARIANT TypeOK
INVARIANT PoolIsConsistent
PROPERTY ImplementsFeed
PROPERTY EventuallyReceived
