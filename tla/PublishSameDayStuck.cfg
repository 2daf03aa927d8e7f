\* Two runs of one day, the first one's table upload cut short.
CONSTANTS
    r1 = r1
    r2 = r2
    d1 = d1
    d2 = d2
    Run = {r1, r2}
    Day = {d1}
    DayOf <- SameDay
    RunFile = {pt}
    Part = {p1}
    NoRun = NoRun
    MaxFaults = 1
SPECIFICATION FairSpec
PROPERTIES
    RunningAgainPublishes
