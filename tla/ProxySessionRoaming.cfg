SPECIFICATION Spec
CONSTANTS
    Proxy = {p1, p2}
    Game = {g1, g2}
    Wsi = {w1}
    NULL = NULL
    Scanning = FALSE
SYMMETRY Symmetry
INVARIANTS
    RoamingIsSafe
CHECK_DEADLOCK FALSE
