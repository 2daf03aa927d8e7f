\* Two runs of one day, published one at a time; two faults.
CONSTANTS
    r1 = r1
    r2 = r2
    d1 = d1
    d2 = d2
    Run = {r1, r2}
    Day = {d1}
    DayOf <- SameDay
    RunFile = {pt}
    Part = {p1, p2}
    NoRun = NoRun
    MaxFaults = 2
SYMMETRY RunSymmetry
SPECIFICATION Spec
INVARIANTS
    TypeOK
    DayIsOneRuns
    IndexedRunIsWhole
    MarkedTablesWereComplete
    OkIsPublished
PROPERTIES
    PublishedIsFrozen
    ImplementsView
