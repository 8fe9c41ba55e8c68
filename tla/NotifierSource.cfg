SPECIFICATION Spec
CONSTANTS
    Tags = {t1, t2, t3}
    NoTag = NoTag
    MaxQueue = 3
    MaxWd = 4
SYMMETRY Symmetry
INVARIANTS
    TypeOK
    SlotsAreSound
PROPERTY ImplementsMap
