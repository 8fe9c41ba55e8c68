SPECIFICATION Spec
CONSTANTS
    z = z
    y = y
    p = p
    r = r
    q = q
    x = x
    f = f
    Bases <- SmallBases
    Dirs <- SmallDirs
    Files <- SmallFiles
    Starts <- SmallStarts
    Zones <- SmallZones
    MaxQueue = 5
    MaxChanges = 2
INVARIANT AssertionsHold
CHECK_DEADLOCK FALSE
