SPECIFICATION FairSortSpec
CONSTANTS
    Counts = {1, 2, 3, 5, 8}
    Top = 1
    MaxValue = 1
    Bits = 8
    MaxSets = 6
    Faulty = TRUE
INVARIANTS
    SortCorrect
    InPlaceKeepsElements
PROPERTY SortReturns
