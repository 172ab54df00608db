SPECIFICATION FairSpec

CONSTANTS
    A = A
    B = B
    Nodes <- Both
    Id <- IDs
    Connectors <- Both
    BehindNat <- Nobody
    Gateways <- OnlyA
    OncePerStep = TRUE
    AttemptLimit = 30
    FirstOutcomes = {"connecting"}
    LaterOutcomes = {"connecting", "unreachable"}
    InOrder = TRUE
    FreedReads = {"same"}
    MaxConnections = 6
    MaxBreaks = 1
    MaxRefusals = 1
    MaxFailures = 0
    MaxExpirations = 1

INVARIANT TypeOK
INVARIANT ChannelAddedOnce
INVARIANT OnOneConnection
PROPERTY ImplementsLink
PROPERTY EventuallyLinked
CHECK_DEADLOCK FALSE
