SPECIFICATION TrailSpec
CONSTANTS
    Chats = {"chat"}
    ChatTicks = FALSE
    NPairs = 1
    Risk <- MC_Risk
    Settings <- MC_Lower
    PctCap = 400
    Amounts = {3}
    Timeouts = FALSE
    Hour = 2
    Offset = 0
    Value = 100
    MaxDrawdown = 6
    Worths = {100}
    MaxNow = 0
    MaxTrades = 2
    ScriptTicks = 1
    Scenes = {"talk"}
INVARIANTS
    CapHonoured
CHECK_DEADLOCK FALSE
