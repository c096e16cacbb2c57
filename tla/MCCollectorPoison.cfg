\* Finding: a record that cannot be parsed.
SPECIFICATION FairSpec
CONSTANTS
    Channels <- TwoChannels
    Order = "increasing"
    Renderings <- SomeDoNot
    Lookback = 2
    Retention = 1
    PollInterval = 1
    BackoffAfter = 2
    BackoffCap = 3
    MaxTime = 2
    MaxRecords = 1
    MaxLogged = 2
    MaxCrashes = 0
    MaxStorageErrors = 0
    MaxFailures = 2
PROPERTIES
    EventuallyCollected
