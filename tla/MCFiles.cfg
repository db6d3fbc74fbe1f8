SPECIFICATION FilesSpec
CONSTANTS
    dA = dA
    dB = dB
    Folders = {dA, dB}
    Names = {"x"}
    EventQueueCap = 2
    Libraries <- MCLibraries
    IndexBudgets <- MCIndexBudgets
    t1 = t1
    t2 = t2
    MuThreads = {t1, t2}
    AlbumNames <- MCAlbumNames
    EditedNames <- MCEditedNames
    MuPlans <- MCMuPlans
    Backends = {"System", "App"}
INVARIANTS Converged ContentKept RowsTrue RemovalOwed RestartConverges
 
CHECK_DEADLOCK FALSE
