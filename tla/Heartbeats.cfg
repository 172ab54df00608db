SPECIFICATION Spec

CONSTANTS
    s1 = s1
    s2 = s2
    Sockets = {s1, s2}
    Interval = 5
    Expiration = 15
    MaxDelay = 4
    CoarseClock = FALSE

SYMMETRY Symmetry
INVARIANT TypeOK
INVARIANT OneBeatEach
INVARIANT NoFalseExpiry
INVARIANT SilenceEnds
CHECK_DEADLOCK FALSE
