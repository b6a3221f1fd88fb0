SPECIFICATION FairSpec
CONSTANTS
    MAX_RESTARTS = 1
    MaxEdits = 1
    CrashWhileSettling = FALSE
    MaxReceipts = 2
    MaxLaunches = 2
INVARIANTS
    StopBound
    BooksAreReal
    PolicyNotOlder
    CrashesBounded
PROPERTIES
    RecoverBeforeDecide
    IntentNeverReissued
    ImplementsAuditedTrader
    StopObeyed
    IntentResolved
CHECK_DEADLOCK FALSE
