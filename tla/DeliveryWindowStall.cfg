SPECIFICATION FairSpec

CONSTANTS
    nodeA = nodeA
    nodeB = nodeB
    Nodes <- MCNodes
    Peer <- MCPeer
    Senders <- OneWay
    PriorityCount = 1
    Distribution <- OneWeight
    Window = 1
    PartCounts = {4}
    SynMayExpire = FALSE
    MaxMessages = 1
    MaxInFlight = 4
    MaxBreaks = 1
    MaxReroutes = 0
    MaxRestarts = 0

PROPERTY EventuallyDelivered
CHECK_DEADLOCK FALSE
