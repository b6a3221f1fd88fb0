SPECIFICATION FairSpec
CONSTANTS
    Envs <- SomeEnvs
    MaxRetries = 2
    MaxDeploys = 3
INVARIANTS
    CarriedOver
    ReseededOnce
    PublishedIsRun
PROPERTIES
    Revived
CHECK_DEADLOCK FALSE
