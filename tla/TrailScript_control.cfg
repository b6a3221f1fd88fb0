SPECIFICATION TrailSpec
CONSTANTS
    Chats = {"chat"}
    ChatTicks = TRUE
    NPairs = 2
    Risk <- MC_Risk
    Settings <- MC_Lower
    PctCap = 400
    Amounts = {0, 5}
    Timeouts = TRUE
    Hour = 2
    Offset = 0
    Value = 100
    MaxDrawdown = 6
    Worths = {100, 90}
    MaxNow = 3
    MaxTrades = 4
    ScriptTicks = 2
    Scenes = {"talk", "alone", "crowd"}
INVARIANTS
    PauseBound
    SettingsKept
    RateBound
    CapBinds
CHECK_DEADLOCK FALSE
