\* A copy cut short before its marker, then another run of the day.
CONSTANTS
    r1 = r1
    r2 = r2
    r3 = r3
    Run = {r1, r2, r3}
    LastDay = 2
    DayOf <- ThreeRuns
    Graph = {pt}
    Other = {ni}
    Part = {p1}
    NoRun = NoRun
    KeepDays = 1
    MaxFaults = 1
    MaxSpoiled = 0
SPECIFICATION Spec
INVARIANTS
    OkLeavesOneCopy
