\* Two collectors and a window: the lock, the watermark, liveness.
SPECIFICATION FairSpec
CONSTANTS
    Collectors <- TwoCollectors
    Windows <- OneWindow
    None = None
    Unparsable <- ThirdUnparsable
    SlowVacuum = TRUE
    MaxRecords = 3
    MaxVersion = 2
    MaxRestarts = 1
    c1 = c1
    c2 = c2
    w1 = w1
INVARIANTS
    TypeOK
    MarkIsStored
    SleepsWithoutLock
PROPERTIES
    EventuallyStored
    DisplayCatchesUp
