\* Finding: a crash between the commit of the insert and the engine.
SPECIFICATION Spec
CONSTANTS
    Channels <- OneChannel
    Order = "increasing"
    Renderings <- AllParse
    Lookback = 1
    Retention = 1
    PollInterval = 1
    BackoffAfter = 2
    BackoffCap = 3
    MaxTime = 3
    MaxRecords = 2
    MaxLogged = 2
    MaxCrashes = 1
    MaxStorageErrors = 0
    MaxFailures = 2
INVARIANTS
    StoredIsEvaluated
