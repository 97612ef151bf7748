SPECIFICATION Spec
CONSTANTS
    Garbage = Garbage
    SubInStateDir = FALSE
    HistoryKeep = 2
    MaxWrites = 5
    MaxCrashes = 2
    MaxLosses = 1
    MaxFails = 1
    MaxEdits = 1
CHECK_DEADLOCK FALSE
INVARIANTS
    CrashIsAtomic
    AlwaysAvailable
    ServedIsWhole
