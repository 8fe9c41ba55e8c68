SPECIFICATION Spec
CONSTANTS
    a = a
    b = b
    c = c
    d = d
    Names = {a, b, c}
    Size <- Sizes
    Begins = {}
    Tree <- Tree3
    AllZones <- Zones3
    AllFiles = {}
    FakePaths <- Fake
    Secret = {}
    MaxDirs = 6
    MaxSetups = 1
INVARIANT ZonesAreCovered
