SPECIFICATION Spec
CONSTANTS
    Arena = {bufA}
    External = {ext}
    Scratch = positions
    Cases <- All
    Captures <- Bits
    Length = 1
    V = 2
    MaxSets = 3
INVARIANTS
    ScopeBalanced
    InFlightUntouched
PROPERTIES
    BystandersKept
