SPECIFICATION FairSpec
CONSTANTS
    Proxy = {p1, p2}
    Game = {g1, g2}
    Wsi = {w1}
    NULL = NULL
    Scanning = FALSE
PROPERTIES
    HalfOpenReclaimed
    BlockResolves
    ClosingEnds
CHECK_DEADLOCK FALSE
