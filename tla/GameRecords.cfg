\* A process that waits for a scan which was never begun may wait for ever.
SPECIFICATION FairSpec
CHECK_DEADLOCK FALSE
CONSTANTS
    u1 = u1
    d1 = d1
    d2 = d2
    echo = echo
    gmcp = gmcp
    NULL = NULL
    User <- MCUser
    Data <- MCData
    Option <- MCOption
    Settings <- MCSettings
    CrawlDelay = 1
    Recent = 0
    Expired = 1
    Down = 2
    Many = 2
    MaxFaults = 1
INVARIANTS
    TypeOK
    RunsOnComplete
    AboutIsLast
    TeloptsOfOne
    GivenUpIsDown
PROPERTIES
    CrawlKept
    Refreshed
    ForcedEnds
