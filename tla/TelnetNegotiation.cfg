SPECIFICATION FairSpec
CONSTANTS
    Locid = Locid
    Game = Game
    MCCPX = MCCPX
    ENVIRON = ENVIRON
    MCCP2 = MCCP2
    NAWS = NAWS
    NULL = NULL
    Option <- Options
    Compression <- Compressions
    LocidWill <- WillOptions
    LocidDo <- DoOptions
    Games <- BothGames
INVARIANTS
    TypeOK
    ToldTheTruth
    OneCompression
    QuietAgree
PROPERTIES
    Settles
CHECK_DEADLOCK FALSE
