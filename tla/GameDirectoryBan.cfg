CONSTANTS
    Session = {s1, s2}
    Address = {home, mud}
    Default = home
    Refused = {}
    Unusable = {}
    Configs <- MCConfigs
    MaxRows = 2
    MaxRulings = 1
    NULL = NULL
SPECIFICATION Spec
PROPERTIES BanHolds
SYMMETRY Symmetry
CHECK_DEADLOCK FALSE
