SPECIFICATION Spec
CONSTANTS
    Proxy = {p1, p2}
    Game = {g1, g2}
    Wsi = {w1, w2}
    NULL = NULL
    Scanning = FALSE
SYMMETRY Symmetry
PROPERTIES
    SavedRequestServed
CHECK_DEADLOCK FALSE
