SPECIFICATION GridSpec
CONSTANTS
    Registered <- FileOrder
    Queued <- FileLists
    Flagged <- DoneKeys
    TitleOrder <- ByName
    Filters <- GroupFilters
    Lenses <- GridLenses
    MaxGestures = 2
    MaxOthers = 1
INVARIANTS
    FilterOnlyNarrows
CHECK_DEADLOCK FALSE
