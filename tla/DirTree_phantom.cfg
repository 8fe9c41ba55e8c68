SPECIFICATION Spec
CONSTANTS
    base = base
    outer = outer
    inner = inner
    file = file
    Base = base
    Dirs = {outer, inner}
    Files = {}
    Parent <- Chain
    Leaves = {}
    IsRoot = TRUE
    MaxQueue = 4
    MaxMakes = 2
INVARIANT NoPhantomFiles
CHECK_DEADLOCK FALSE
