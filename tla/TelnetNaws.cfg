SPECIFICATION Spec
CONSTANTS
    Locid = Locid
    Game = Game
    MCCPX = MCCPX
    ENVIRON = ENVIRON
    MCCP2 = MCCP2
    NAWS = NAWS
    NULL = NULL
    Option <- Options
    Compression <- Compressions
    LocidWill <- WillOptions
    LocidDo <- DoOptions
    Games <- NawsGames
INVARIANTS
    QuietAgree
CHECK_DEADLOCK FALSE
