SPECIFICATION Spec

CONSTANTS
    nodeA = nodeA
    nodeB = nodeB
    Nodes <- MCNodes
    Peer <- MCPeer
    Senders <- OneWay
    PriorityCount = 1
    Distribution <- OneWeight
    Window = 200
    PartCounts = {1, 3}
    SynMayExpire = TRUE
    MaxMessages = 2
    MaxInFlight = 2
    MaxBreaks = 2
    MaxReroutes = 1
    MaxRestarts = 1

INVARIANT TypeOK
INVARIANT DeliveredWasReceived
INVARIANT AckedIsHeld
INVARIANT AssertionsHold
INVARIANT PartsMatch
INVARIANT LostWasAbandoned
INVARIANT ActiveIsReachable
INVARIANT DeliveryInvariant
PROPERTY ImplementsTransfer
CHECK_DEADLOCK FALSE
