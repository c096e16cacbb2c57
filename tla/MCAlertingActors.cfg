\* Bursts of one actor, under crashes, failing rules, and retention.
SPECIFICATION Spec
CONSTANTS
    Users <- OneUser
    Sources <- SourceOrDash
    Missing <- Empty
    Placeholders <- Dash
    RuleCount = 2
    Window = 1
    MinSignals = 2
    EventRetention = 1
    AlertRetention = 2
    Ages <- FreshOrOld
    MaxTime = 4
    MaxEvents = 2
    MaxFaults = 1
INVARIANTS
    TypeOK
    OncePerActor
    BurstIsFlagged
PROPERTIES
    FlagsOneActor
CHECK_DEADLOCK FALSE
