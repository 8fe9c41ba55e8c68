SPECIFICATION FairSpec
CONSTANTS
    Names = {a, b}
    Excluded = {b}
    IsRoot = TRUE
    MaxQueue = 2
    MaxRuns = 2
INVARIANTS
    TypeOK
    IInv
    ExistenceIsRight
    TypeIsRight
    ListenerUpToDate
PROPERTIES
    ResultsOnlyGrow
    CatchesUp
