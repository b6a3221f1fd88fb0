SPECIFICATION FairSpec
CONSTANTS
    Ladder <- MC_Ladder
    MaxRiskyPct = 20
    MaxSingle = 200
    MaxSinglePct = 25
    MinSinglePct = 1
    MinInterval = 900
    MaxTradesHour = 4
    MaxDataAge = 600
    AllowedPairs <- MC_Pairs
    VolMax = 4
    StopLossPct = 2
    TakeProfitPct = 4
    MaxHold = 3600
    TargetPct = 10
    BandPct = 4
    Micro = 120
    Dust = 100
    MinNotional = 100
    Cash0 = {993, 1000}
    Prices = {16, 20, 25}
    Moves <- MC_Drops
    Unquoted = FALSE
    Spread = 0
    Signals <- MC_Readings
    Ages = {0}
    Gaps = {1800}
    Outcomes = {"filled"}
    MaxBuys = 6
INVARIANTS
    SurvivalGate
PROPERTIES
    Flattens
CHECK_DEADLOCK FALSE
