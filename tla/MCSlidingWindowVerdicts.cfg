\* Both rules, events in any order of time, settings saved, an alert lost.
SPECIFICATION WSpec
CONSTANTS
    Keys <- Sources
    Items <- Ports
    Threshold = 2
    Window = 2
    MaxTime = 4
    MaxEvents = 5
    PruneEvery = 2
    MaxResets = 1
    MaxLost = 1
    source1 = source1
    source2 = source2
    port1 = port1
    port2 = port2
SYMMETRY Symmetry
INVARIANTS
    TypeOK
    TrackedRecently
PROPERTIES
    DetectsBursts
CHECK_DEADLOCK FALSE
