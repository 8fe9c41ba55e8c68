SPECIFICATION Spec
CONSTANTS
    a = a
    b = b
    c = c
    d = d
    Names = {a, b, c, d}
    Size <- Sizes
    Begins <- LikeC
    Tree <- Tree1
    AllZones <- Zones1
    AllFiles <- Files1
    FakePaths <- Fake
    Secret <- Secret1
    MaxDirs = 5
    MaxSetups = 2
INVARIANTS
    TypeOK
    AppearanceIsNoticed
    ZonesAreCovered
    NothingElseIsWatched
    OwnersAreClosest
    SingleFilesAreReported
