SPECIFICATION Spec
CONSTANTS
    Arena = {bufA}
    External = {}
    Scratch = positions
    Cases <- Discrete
    Captures <- Bits
    Length = 2
    V = 2
    MaxSets = 4
INVARIANTS
    FunnelCorrect
