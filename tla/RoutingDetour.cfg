SPECIFICATION Spec

CONSTANTS
    a = a
    b = b
    c = c
    d = d
    A = A
    D = D
    Nodes <- DetourNodes
    Gateways <- DetourGateways
    Links <- DetourLinks
    Stage <- ShortcutLast
    MaxPending = 0
    MaxBreaks = 0
    MaxData = 2

INVARIANT TypeOK
INVARIANT AssertionsHold
INVARIANT RoutesFollowLinks
INVARIANT NextHopKnowsRest
INVARIANT DataWithinRoute
INVARIANT SettledKnowsAll
CHECK_DEADLOCK FALSE
