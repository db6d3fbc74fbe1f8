SPECIFICATION PagesSpec
CONSTANTS
    PhPhotos = {1, 2, 3}
    PHOTOS_SELECT_ALL_LIMIT = 2
    PhotosBudgets <- MCPhotosBudgets
    OverviewBudgets <- MCOverviewBudgets
    SrPhotos = {1, 2, 3, 4}
    SrVideos = {4}
    SrTerms <- MCSrTerms
    SearchFields <- MCSearchFields
    SrMatch <- MCSrMatch
    SrAreas <- MCSrAreas
    SEARCH_PREVIEW_FALLBACK_COLUMNS = 2
    SEARCH_PREVIEW_MIN_ROWS = 2
    TileStep = 1
    SEARCH_SECTION_HEADER_HEIGHT = 1
    SearchBudgets <- MCSearchBudgets
INVARIANTS HeartIsOwn  ResultsAnswerEntry
CHECK_DEADLOCK FALSE
