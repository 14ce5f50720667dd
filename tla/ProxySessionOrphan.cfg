SPECIFICATION Spec
CONSTANTS
    Proxy = {p1, p2}
    Game = {g1, g2}
    Wsi = {w1}
    NULL = NULL
    Scanning = FALSE
SYMMETRY Symmetry
INVARIANTS
    NoOrphan
CHECK_DEADLOCK FALSE
