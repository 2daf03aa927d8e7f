\* A day given with --data-date, older than the archive keeps.
CONSTANTS
    MaxRun = 4
    LastDay = 4
    Retain = 1
    ArchiveDays = 2
    MaxFaults = 0
SPECIFICATION Spec
CHECK_DEADLOCK FALSE
INVARIANTS
    WaitingRunCanGoAnyDay
