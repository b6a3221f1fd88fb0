SPECIFICATION BoardSpec
CONSTANTS
    Writers = {"loop", "cli"}
    Live = {"loop"}
    Config <- MC_Config
    Verdicts = {"allow", "reject"}
    Notes = {1}
    Torn = {"cut", "unended"}
    Scenes <- MC_Scenes
    StartNav = TRUE
    MaxReceipts = 3
    MaxExecs = 1
INVARIANTS
    ChainIntact
    NoFalseAlarm
    Rooted
    OrdersBacked
    ExecutionsBound
    ReplayAgrees
    BoardHonest
CHECK_DEADLOCK FALSE
