SPECIFICATION Spec
CONSTANTS
    Procs = {"loop"}
    Refs = {4}
    Prices = {3, 5}
    Size = 20
    MinAge = 1
    Sends = {TRUE, FALSE}
    Resets = FALSE
    MaxMade = 2
    MaxDeaths = 1
INVARIANTS
    BookkeepingHarmless
CHECK_DEADLOCK FALSE
