SPECIFICATION Spec
CONSTANTS
    Capacity = 14
    DefaultAlign = 2
    SizeMod = 64
    Sizes <- MCSizes
    Aligns <- MCAligns
INVARIANTS
    TypeOK
    NoOverlap
    CopiedRangeCoversBlocks
    RoomForRequest
    OffsetsAligned
PROPERTIES
    GrantsFromFreeBytes
    Implements
