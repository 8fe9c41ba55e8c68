SPECIFICATION FairSpec
CONSTANTS
    base = base
    outer = outer
    inner = inner
    file = file
    Base = base
    Dirs = {outer, inner}
    Files = {}
    Parent <- Chain
    Leaves = {}
    IsRoot = TRUE
    MaxQueue = 3
    MaxMakes = 3
INVARIANTS
    TypeOK
    ExistenceIsRight
    EveryDirectoryWatched
    OriginIsRight
    AssertionsHold
    ListenerMissesLittle
PROPERTY WatchedEventually
CHECK_DEADLOCK FALSE
