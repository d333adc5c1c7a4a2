SPECIFICATION Spec
CONSTANTS
    Room = 3
    Programs <- Pairs
INVARIANTS
    AppliedOnce
    InputKept
    StagingReturned
