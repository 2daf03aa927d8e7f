\* Nights of any days, four runs, four days, two faults.
CONSTANTS
    MaxRun = 4
    LastDay = 4
    Retain = 2
    ArchiveDays = 3
    MaxFaults = 2
SPECIFICATION Spec
CHECK_DEADLOCK FALSE
INVARIANTS
    DayNotLost
    WaitingRunCanGo
PROPERTIES
    NewestRunsKept
