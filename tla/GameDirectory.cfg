CONSTANTS
    Session = {s1, s2}
    Address = {home, mud, odd}
    Default = home
    Refused = {odd}
    Unusable = {odd}
    Configs <- MCConfigs
    MaxRows = 3
    MaxRulings = 1
    NULL = NULL
SPECIFICATION Spec
INVARIANTS TypeOK EntryMatches ScanAttended
PROPERTIES ApprovalEarned BanSettles
SYMMETRY Symmetry
CHECK_DEADLOCK FALSE
