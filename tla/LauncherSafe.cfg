SPECIFICATION FairSpec
CONSTANTS
    Attempts = 2
    Legs = 2
    Stall = 1
    MaxCaptures = 1
    Strikes = 1
    HangsIn = {"stage"}
    PageAnswers = {TRUE}
INVARIANTS RunDirIsOneRuns CapturesAreThisRuns CapturedWasQuiet
    SweepSparesLiveJob OutcomeIsHonest
CHECK_DEADLOCK FALSE
PROPERTIES StalledRunEnds
