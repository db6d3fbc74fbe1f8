CONSTANTS
    MaxEdits = 1
    MaxResets = 0
    MaxChanges = 3
    MaxDecisions = 0
    MaxCrashes = 0
    MaxChained = 1
    Failures = {"cycle", "busy", "behind", "apply"}
SPECIFICATION FairSpec
PROPERTIES EditApplied AdmittedWorkContinues
CHECK_DEADLOCK FALSE
