SPECIFICATION CSpec
CONSTANTS
    W = 4
    MaxCount = 18
    Patterns <- Predicates
INVARIANTS
    ScanCorrect
    WorkgroupsApart
    CompactCorrect
    ScratchReturned
