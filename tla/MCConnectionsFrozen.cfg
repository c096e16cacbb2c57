\* Finding: a write of the window fails during a VACUUM.
SPECIFICATION FairSpec
CONSTANTS
    Collectors <- OneCollector
    Windows <- OneWindow
    None = None
    Unparsable <- NoneUnparsable
    SlowVacuum = TRUE
    MaxRecords = 1
    MaxVersion = 4
    MaxRestarts = 0
    c1 = c1
    c2 = c2
    w1 = w1
PROPERTIES
    DisplayAlwaysCatchesUp
