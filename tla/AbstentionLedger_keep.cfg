SPECIFICATION FairSpec
CONSTANTS
    Procs = {"loop", "cli"}
    Refs = {4}
    Prices = {3, 5}
    Size = 20
    MinAge = 1
    Sends = {FALSE}
    Resets = TRUE
    MaxMade = 2
    MaxDeaths = 1
INVARIANTS
    LinesGenuine
    LedgerKept
PROPERTIES
    EventuallyMarked
CHECK_DEADLOCK FALSE
