\* All three tasks, cycles that fail, a feed that fails, scans that overlap.
SPECIFICATION FairSpec
CONSTANTS
    Interval <- PostureEveryOther
    LookbackDays = 3
    FeedCap = 2
    Switched <- Feed
    MaxFailed = 2
    None = None
    NoPorts = NoPorts
INVARIANTS
    TypeOK
    FindingsFollowScan
PROPERTIES
    TasksRun
    IndicatorsAreSeen
    FreedIsReclaimed
