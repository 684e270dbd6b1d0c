CONSTANTS
    UpdaterInterval = 2
    EvictionRateLimit = 1
    EvictionRateBurst = 1
    TokenPeriod = 3
    MaxStartup = 7
    MaxListing = 1
    MaxEvictions = 4
SPECIFICATION Spec
CHECK_DEADLOCK FALSE
INVARIANTS
    TypeOK
    HealthyWhileRunning
