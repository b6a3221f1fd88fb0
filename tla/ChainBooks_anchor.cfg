SPECIFICATION Spec
CONSTANTS
    NEndpoints = 2
    Cooldown = 1
    btcb = btcb
    cake = cake
    usdt = usdt
    Universe <- OneToken
    Quote = usdt
    Worth = 3
    Prices = {0, 1, 2}
    DUST_USD = 2
    MaxSwaps = 2
INVARIANTS
    BooksAnchored
    EntryKept
CHECK_DEADLOCK FALSE
