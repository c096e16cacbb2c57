\* Two channels, a crash, a storage error, failures, purges: safety and liveness.
SPECIFICATION FairSpec
CONSTANTS
    Channels <- TwoChannels
    Order = "late"
    Renderings <- SomeDoNot
    Lookback = 1
    Retention = 0
    PollInterval = 2
    BackoffAfter = 1
    BackoffCap = 1
    MaxTime = 2
    MaxRecords = 2
    MaxLogged = 2
    MaxCrashes = 1
    MaxStorageErrors = 1
    MaxFailures = 1
INVARIANTS
    TypeOK
    WatermarkCovers
    NotEvaluatedTwice
    OneGapPerCrash
PROPERTIES
    CollectedOrExcused
