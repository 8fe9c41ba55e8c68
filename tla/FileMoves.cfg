SPECIFICATION FairSpec
CONSTANTS
    Names = {a, b, c}
    Excluded = {c}
    IsRoot = FALSE
    MaxQueue = 2
    MaxMoves = 2
CONSTRAINT NothingLost
INVARIANTS
    TypeOK
    ExistenceIsRight
    OldMeansOld
PROPERTY MovesAreClosed
