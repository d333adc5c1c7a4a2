SPECIFICATION Spec
CONSTANTS
    Pool = {p1, p2}
    Libc = {l1}
    Mapped = {m1}
    Values = {0, 1}
SYMMETRY Symmetry
INVARIANTS
    BuiltBeforeUsed
    OneAtATime
    NothingLeftBehind
    RoutedToOwner
    DataKept
