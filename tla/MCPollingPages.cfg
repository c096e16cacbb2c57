\* Both pages, two overlapping tasks, two acts of the user, one failure.
SPECIFICATION PageSpec
CONSTANTS
    Arriving <- Alerts
    NoSource = NoSource
    Filters <- Choices
    All = All
    Limit = 1
    NoReply = NoReply
    Failed = Failed
    Drawn = Drawn
    MaxTasks = 2
    MaxAlerts = 2
    MaxActs = 2
    MaxTroubles = 1
INVARIANTS
    TypeOK
    AnnouncedOnce
PROPERTIES
    NeverGoesBack
    PageSettles
