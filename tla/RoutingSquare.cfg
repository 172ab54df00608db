SPECIFICATION FairSpec

CONSTANTS
    a = a
    b = b
    c = c
    d = d
    A = A
    D = D
    Nodes <- SquareNodes
    Gateways <- SquareGateways
    Links <- SquareLinks
    Stage <- AtOnce
    MaxPending = 2
    MaxBreaks = 1
    MaxData = 0

INVARIANT ViewIsTable
INVARIANT SettledIsTrue
PROPERTY DiscoveryCompletes
CHECK_DEADLOCK FALSE
