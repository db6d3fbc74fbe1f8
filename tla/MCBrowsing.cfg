SPECIFICATION BrowsingSpec
CONSTANTS
    GridMedia = {1, 2, 3, 4, 5, 6, 7, 8}
    GridDays = {1, 2}
    GridListCap = 4
    ReadyCap = 5
    VisibleRows = 0
    Columns = {2, 3}
    GridStarts <- MCGridStarts
    GridBudgets <- MCGridBudgets
    fa = fa
    fb = fb
    fav = fav
    ty = ty
    NoAlbum = NoAlbum
    w1 = w1
    BwFolders = {fa, fb}
    Favorites = fav
    MediaTypes = {ty}
    BwWorkers = {w1}
    BrowseBudgets <- MCBrowseBudgets
    StripPhotos = {1, 2, 3, 4, 5, 6, 7, 8, 9, 10, 11, 12}
    StripWidth <- MCStripWidth
    StripBudgets <- MCStripBudgets
    THUMB_DEFAULT_WINDOW_LEN = 7
    THUMB_LAZY_HALF = 2
    THUMB_WINDOW_MAX = 8
    THUMB_CENTER_RETRY_FRAMES = 4
    THUMB_EDGE_INSET = 2
    THUMB_STRIP_SPACING = 2
    THUMB_MIN_STABLE = 3
INVARIANTS AtRestShown  
CHECK_DEADLOCK FALSE
