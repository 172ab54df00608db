SPECIFICATION Spec

CONSTANTS
    Packets <- OneToTwo
    Size <- ShortSizes
    PriorityCount = 2
    Distribution <- EvenWeights
    EmptyFrame = 2
    Garbled = 0
    FrameSizes = {3, 5}
    Throttling = "adaptive"
    RateLimit = 4
    SlowSteps = FALSE
    MaxRefusals = 2

INVARIANT TypeOK
INVARIANT ServedInTurn
INVARIANT ThrowsOnlyWhenShrunk
PROPERTY ImplementsChannel
CHECK_DEADLOCK FALSE
