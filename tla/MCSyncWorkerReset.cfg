CONSTANTS
    MaxEdits = 0
    MaxResets = 2
    MaxChanges = 0
    MaxDecisions = 0
    MaxCrashes = 1
    MaxChained = 1
    Failures = {"cleanup"}
SPECIFICATION FairSpec
INVARIANT StatusIsTrue
PROPERTY ResetSettles
CHECK_DEADLOCK FALSE
