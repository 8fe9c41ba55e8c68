SPECIFICATION Spec
CONSTANTS
    base = base
    outer = outer
    inner = inner
    file = file
    Base = base
    Dirs = {outer, inner}
    Files = {file}
    Parent <- FileBeside
    Leaves = {outer}
    IsRoot = FALSE
    MaxQueue = 4
    MaxMakes = 2
CONSTRAINT NothingLost
INVARIANTS
    ExistenceIsRight
    WatchInv
CHECK_DEADLOCK FALSE
