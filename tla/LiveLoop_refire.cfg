SPECIFICATION Spec
CONSTANTS
    MAX_RESTARTS = 1
    MaxEdits = 0
    CrashWhileSettling = TRUE
    MaxReceipts = 2
    MaxLaunches = 2
INVARIANTS
    NoBlindOrder
CHECK_DEADLOCK FALSE
