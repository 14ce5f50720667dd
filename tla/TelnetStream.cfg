SPECIFICATION FairSpec
CONSTANTS
    X = X
    GA = GA
    WILL = WILL
    GMCP = GMCP
    MCCPX = MCCPX
    Plain <- PlainBytes
    Code <- Codes
    Verb <- Verbs
    Option <- Options
    Restarts <- Switching
    MaxPayload = 2
    BufferLimit = 1
    MaxItems = 2
    MaxWire = 12
INVARIANTS
    TypeOK
    RunsInBounds
PROPERTIES
    InOrder
    NothingKept
CHECK_DEADLOCK FALSE
