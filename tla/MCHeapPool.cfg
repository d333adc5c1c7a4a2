SPECIFICATION Spec
CONSTANTS
    Threads = {t1, t2}
    NoThread = NoThread
    Base = 64
    Res = 176
    NBins = 4
    SizeMod = 4096
    Requests <- MCRequests
    ReallocSizes <- MCReallocSizes
    MaxObjects = 2
SYMMETRY Symmetry
INVARIANTS
    TypeOK
    PoolConsistent
    BlocksMatchObjects
    DataIntact
    PublishedTogether
    LockFollowsPath
PROPERTIES
    NullOnlyWhenFull
    Implements
