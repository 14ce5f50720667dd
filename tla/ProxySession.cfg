SPECIFICATION Spec
CONSTANTS
    Proxy = {p1, p2}
    Game = {g1, g2}
    Wsi = {w1, w2}
    NULL = NULL
    Scanning = TRUE
SYMMETRY Symmetry
INVARIANTS
    TypeOK
    Ownership
    SocketWiring
    SidesConsistent
    SocketsAttended
    UncheckedNeverUp
PROPERTIES
    ReconnectKeepsGame
CHECK_DEADLOCK FALSE
