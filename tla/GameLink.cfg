SPECIFICATION FairSpec
CONSTANTS
    Locid = Locid
    Game = Game
    UTF8 = UTF8
    BIG5 = BIG5
    LATIN1 = LATIN1
    KOI8U = KOI8U
    NoName = NoName
    Few = Few
    Foreign = Foreign
    Blanked = Blanked
    Name <- Names
    Supported <- Ours6
    Default = UTF8
    Whole <- WholeOf
    Ending <- EndingOf
    Offer <- Offers
    Listed <- ListOf
    Blanks <- BlanksOf
    Plans <- Workloads
INVARIANTS
    TypeOK
    Intact
    GateHolds
    ChecksWitnessed
    EchoTold
    CharsetAgree
    QueueAttended
PROPERTIES
    Delivered
CHECK_DEADLOCK FALSE
