SPECIFICATION Spec
CONSTANTS
    Ladder <- MC_Ladder
    MaxRiskyPct = 20
    MaxSingle = 200
    MaxSinglePct = 25
    MinSinglePct = 1
    MinInterval = 900
    MaxTradesHour = 4
    MaxDataAge = 600
    AllowedPairs <- MC_Pairs
    VolMax = 4
    StopLossPct = 2
    TakeProfitPct = 4
    MaxHold = 3600
    TargetPct = 10
    BandPct = 4
    Micro = 120
    Dust = 100
    MinNotional = 100
    Cash0 = {0, 993}
    Prices = {19, 20, 21}
    Moves <- MC_Moves
    Unquoted = FALSE
    Spread = 0
    Signals <- MC_Signals
    Ages = {0}
    Gaps = {0, 1800}
    Outcomes = {"filled", "unfilled"}
    MaxBuys = 2
INVARIANTS
    StopHonoured
CHECK_DEADLOCK FALSE
