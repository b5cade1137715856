SPECIFICATION Spec
CONSTANTS
    SelectLast = TRUE
    Deselect = FALSE
    ShiftAmount = 2
    NoIndex = NoIndex
    NoCursor = NoCursor
    MaxChars = 3
    CharBytes <- MCCharBytes
    IsWord <- MCIsWord
    MaxBytes = 3
    MaxListed = 1
    Parses <- MCParses
    MaxHistory = 3
    Units = {1, 2, 3}
    LabelsOn <- MCLabelsOn
    MaxEvents = 3
    LinesAt <- MCLinesAt
    MinRightWidth = 3
    MinFullHeight = 6
    MinGraphHeight = 5
    VerticalLabelsWidth = 1
    MenuItems = 2
    Plans <- MCPlans
    Times <- MCTimes
    StartClients = 1
INVARIANTS
    FocusTrue
    CacheTrue
    LogShown
    GraphShown
    FormsTrue
    EntryTrue
PROPERTIES
    SelectionFollows
CHECK_DEADLOCK FALSE
