SPECIFICATION Spec
CONSTANTS
    Attempts = 2
    Legs = 2
    Stall = 1
    MaxCaptures = 1
    Strikes = 1
    HangsIn = {"stage", "driver"}
    PageAnswers = {TRUE, FALSE}
INVARIANTS OutcomeIsThisRuns
CHECK_DEADLOCK FALSE
