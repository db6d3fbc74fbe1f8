CONSTANTS
    MaxEdits = 2
    MaxResets = 1
    MaxChanges = 0
    MaxDecisions = 1
    MaxCrashes = 0
    MaxChained = 1
    Failures = {"cycle", "apply", "decision", "cleanup", "recovery"}
SPECIFICATION Spec
INVARIANTS Exclusive NewestEditWins
CHECK_DEADLOCK FALSE
