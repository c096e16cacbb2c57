\* A first start and an update, two saves, failures and crashes.
SPECIFICATION FairSpec
CONSTANTS
    Choices <- Dialogs
    Default <- Factory
    OldDirs <- Locations
    AuditsOf <- Policies
    None = None
    Absent = Absent
    Torn = Torn
    MaxSaves = 2
    MaxFaults = 1
    MaxCrashes = 2
INVARIANTS
    SavedSurvives
    NewestOrDefault
    JudgedBySettingsInForce
PROPERTIES
    StartsUnlessTorn
CHECK_DEADLOCK FALSE
