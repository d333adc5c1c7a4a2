SPECIFICATION FairSpec
CONSTANTS
    Arena = {bufA, bufB}
    External = {}
    Scratch = positions
    Cases <- Right
    Captures <- Bits
    Length = 2
    V = 2
    MaxSets = 4
INVARIANTS
    FunnelCorrect
PROPERTIES
    CallReturns
