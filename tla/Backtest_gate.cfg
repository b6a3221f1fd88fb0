SPECIFICATION BacktestSpec
CONSTANTS
    N = 1
    Cash0 = 2000000
    Bps = 1000
    Fee = 3
    Slip = 3
    MaxTrades = 4
    MaxRisky = 200
    MaxSingle = 30
    StopLoss = 30
    TakeProfit = 40
    MaxHold = 48
    Halve = 15
    NoRisk = 30
    Kill = 40
    Micro = 2400
    Under = 100
    Cadence = 12
    Cooldown = 2
    RearmAt = 5
    Gate = 60
    Prices0 <- MC_Prices
    Moves <- MC_Falls
    Readings <- MC_Eager
    Strategies <- MC_Strategies
    Starts <- MC_Starts
    Warm = 1
    DcaUsd = 150000
    DcaCadence = 12
    Bounds <- MC_Bounds
    MaxHours = 12
INVARIANT EliminationReported
CHECK_DEADLOCK FALSE
