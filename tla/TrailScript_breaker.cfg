SPECIFICATION TrailSpec
CONSTANTS
    Chats = {}
    ChatTicks = FALSE
    NPairs = 1
    Risk <- MC_Risk
    Settings = {}
    PctCap = 400
    Amounts = {3}
    Timeouts = FALSE
    Hour = 2
    Offset = 0
    Value = 100
    MaxDrawdown = 6
    Worths = {100, 90}
    MaxNow = 0
    MaxTrades = 2
    ScriptTicks = 1
    Scenes = {"alone"}
INVARIANTS
    BreakerReal
CHECK_DEADLOCK FALSE
