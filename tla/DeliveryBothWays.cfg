SPECIFICATION FairSpec

CONSTANTS
    nodeA = nodeA
    nodeB = nodeB
    Nodes <- MCNodes
    Peer <- MCPeer
    Senders <- BothWays
    PriorityCount = 1
    Distribution <- OneWeight
    Window = 200
    PartCounts = {2}
    SynMayExpire = FALSE
    MaxMessages = 2
    MaxInFlight = 2
    MaxBreaks = 1
    MaxReroutes = 0
    MaxRestarts = 0

PROPERTY EventuallyDelivered
CHECK_DEADLOCK FALSE
