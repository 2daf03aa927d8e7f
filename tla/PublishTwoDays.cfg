\* Two runs of two days, each run again until it is published.
CONSTANTS
    r1 = r1
    r2 = r2
    d1 = d1
    d2 = d2
    Run = {r1, r2}
    Day = {d1, d2}
    DayOf <- TwoDays
    RunFile = {pt}
    Part = {p1}
    NoRun = NoRun
    MaxFaults = 1
SPECIFICATION FairSpec
PROPERTIES
    RunningAgainPublishes
