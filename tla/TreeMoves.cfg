SPECIFICATION FairSpec
CONSTANTS
    z = z
    y = y
    p = p
    r = r
    q = q
    x = x
    f = f
    Bases <- SmallBases
    Dirs <- SmallDirs
    Files <- SmallFiles
    Starts <- SmallStarts
    Zones <- SmallZones
    MaxQueue = 5
    MaxChanges = 3
INVARIANTS
    TypeOK
    OtherAssertionsHold
    ExistenceIsRight
    WatchesAreRight
    OldMeansOld
PROPERTIES
    WatchesMoveAlong
    WatchedEventually
CHECK_DEADLOCK FALSE
