SPECIFICATION SearchSpec
CONSTANTS
    W = 2
    Longest = 6
    Values = {0, 1, 2}
    Exact = 2
INVARIANTS
    SearchCorrect
