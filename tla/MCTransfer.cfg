SPECIFICATION TransferSpec
CONSTANTS
    Ttl = 3
    MaxTime = 6
    MaxFence = 3
    MaxVersion = 2
    MaxEdits = 1
    MaxCrashes = 1
INVARIANTS Authority Uninterrupted RecordedEditKept  LastVersionKept PreservedIsListed
PROPERTIES LossIsFinal LossEndsUplink 
CHECK_DEADLOCK FALSE
