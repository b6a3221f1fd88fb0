SPECIFICATION Spec
CONSTANTS
    Accounts = {"agent", "other"}
    Agent = "agent"
    Unit <- MC_Unit
    Scale = 1000
    PriceTick = 1
    Slip = 5
    MinNotional = 50
    Prices = {20, 24}
    Budgets = {60}
    Seed <- MC_Seed
    Reserve <- MC_Reserve
    Amounts <- MC_Amounts
    Rests = {3}
    MaxSends = 2
    MaxOrders = 2
    MaxHand = 1
INVARIANTS
    BudgetKept
PROPERTIES
    ReadWithinStake
