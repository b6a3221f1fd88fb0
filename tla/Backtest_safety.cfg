SPECIFICATION BacktestSpec
CONSTANTS
    N = 2
    Cash0 = 2000000
    Bps = 1000
    Fee = 3
    Slip = 3
    MaxTrades = 4
    MaxRisky = 200
    MaxSingle = 30
    StopLoss = 30
    TakeProfit = 40
    MaxHold = 2
    Halve = 15
    NoRisk = 30
    Kill = 40
    Micro = 2400
    Under = 100
    Cadence = 2
    Cooldown = 2
    RearmAt = 5
    Gate = 60
    Prices0 <- MC_Prices
    Moves <- MC_Moves
    Readings <- MC_Readings
    Strategies <- MC_Strategies
    Starts <- MC_Starts
    Warm = 2
    DcaUsd = 118000
    DcaCadence = 2
    Bounds <- MC_Bounds
    MaxHours = 5
INVARIANTS
    TickServiced
    ReportsAgree
CHECK_DEADLOCK FALSE
