SPECIFICATION NonceFairSpec
CONSTANTS
    NEndpoints = 2
    Cooldown = 2
    History = {0, 1}
    MaxNonce = 3
INVARIANTS
    NoHole
PROPERTIES
    ImplementsAllocator
    PoolRecovers
