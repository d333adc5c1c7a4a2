SPECIFICATION FairSpec
CONSTANTS
    W = 4
    MaxCount = 18
INVARIANTS
    ReduceCorrect
    PartialsFit
    LevelsApart
PROPERTY ReduceReturns
