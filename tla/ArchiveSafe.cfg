\* Two runs of one day and one of the next; one day kept; faults, spoiled copies.
CONSTANTS
    r1 = r1
    r2 = r2
    r3 = r3
    Run = {r1, r2, r3}
    LastDay = 2
    DayOf <- ThreeRuns
    Graph = {pt}
    Other = {ni}
    Part = {p1, p2}
    NoRun = NoRun
    KeepDays = 1
    MaxFaults = 2
    MaxSpoiled = 1
SPECIFICATION FairSpec
INVARIANTS
    TypeOK
    MarkedDayIsWhole
    OkIsArchived
    NewestDaysOnly
PROPERTIES
    DayLeavesForAReason
    ImplementsShelf
    RunningAgainArchives
