SPECIFICATION ViewerSpec
CONSTANTS
    NavMedia = {1, 2, 3}
    NavVideos = {3}
    NavBudgets <- MCNavBudgets
    StageMedia = {1, 2, 3, 4}
    StageKind <- MCStageKind
    StageBudgets <- MCStageBudgets
    EdWidth = 5
    EdHeight = 3
    CROP_RATIOS <- MCRatios
    CROP_MIN_SOURCE_SIZE = 2
    EdBudgets <- MCEdBudgets
INVARIANTS   PreviewIsCurrent
CHECK_DEADLOCK FALSE
