SPECIFICATION FairSpec

CONSTANTS
    Packets <- OneToTwo
    Size <- ShortSizes
    PriorityCount = 2
    Distribution <- TwoWeights
    EmptyFrame = 2
    Garbled = 0
    FrameSizes = {4}
    Throttling = "adaptive"
    RateLimit = 6
    SlowSteps = FALSE
    MaxRefusals = 1

INVARIANT RateWithinFrame
PROPERTY EventuallyRead
CHECK_DEADLOCK FALSE
