SPECIFICATION LibrarySpec
CONSTANTS
    c1 = c1
    c2 = c2
    w1 = w1
    w2 = w2
    Rows = 2
    Cells = {c1, c2}
    Workers = {w1, w2}
    QueueCap = 1
    MemCap = 1
    PrewarmCap = 1
    Budgets <- MCBudgets
    fA = fA
    fB = fB
    Images = Images
    Media = {1, 2, 3}
    ProjFolders = {fA, fB}
    Times = {1, 2}
    EventCap = 3
    MaxSnaps = 1
    ProjStarts <- MCProjStarts
    ProjBudgets <- MCProjBudgets
INVARIANTS OneProducer WaitIsOwed 
CHECK_DEADLOCK FALSE
