CONSTANTS
    MaxVersion = 3
    MaxContent = 3
    MaxOps = 2
    MaxConfig = 1
SPECIFICATION Spec
INVARIANTS CleanIsPublished NoOrphan PublishedOnce
PROPERTY DeletionKept
