\* One record at a time, a save of the settings at any moment.
SPECIFICATION Spec
CONSTANTS
    Records <- AllRecords
    Settings <- AllSettings
    Indicators <- Feed
    LocalIps <- Ours
    None = None
    MaxSaves = 1
    MaxLost = 1
INVARIANTS
    TypeOK
    NothingMissed
    NothingInvented
    ActorIsDoer
