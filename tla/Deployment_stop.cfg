SPECIFICATION FairSpec
CONSTANTS
    Envs <- OneEnv
    MaxRetries = 1
    MaxDeploys = 0
PROPERTIES
    StopStays
CHECK_DEADLOCK FALSE
