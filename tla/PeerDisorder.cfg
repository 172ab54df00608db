SPECIFICATION Spec

CONSTANTS
    A = A
    B = B
    Nodes <- Both
    Id <- IDs
    Connectors <- OnlyA
    BehindNat <- Nobody
    Gateways <- Nobody
    OncePerStep = FALSE
    AttemptLimit = 0
    FirstOutcomes = {"connecting", "failure", "unreachable"}
    LaterOutcomes = {"connecting", "failure", "unreachable"}
    InOrder = FALSE
    FreedReads = {"same", "other"}
    MaxConnections = 3
    MaxBreaks = 1
    MaxRefusals = 1
    MaxFailures = 1
    MaxExpirations = 1

INVARIANT ToldUntilRefused
INVARIANT ThrowsFromTwoCauses
CHECK_DEADLOCK FALSE
