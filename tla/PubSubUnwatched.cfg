SPECIFICATION FairSpec

CONSTANTS
    s1 = s1
    s2 = s2
    s3 = s3
    noOne = noOne
    NoOne <- noOne
    Subscribers <- Two
    Sockets <- TwoSockets
    Capacity = 2
    ReuseAtOnce = TRUE
    MaxMessages = 2

PROPERTY EventuallyReceived
