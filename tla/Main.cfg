SPECIFICATION FairSpec
CONSTANTS
    ArgLists <- MCArgLists
    Others = {"n"}
    OutFiles = {"in", "out"}
    Watched = {"in"}
    Dashed <- MCDashed
    Slashed = {"a/b"}
    Refused = {"x"}
    Numbers <- MCNumbers
    MaxQueue = 2
    LineLength = 2
INVARIANTS
    TypeOK
    ZonesAsWritten
    OutputIsWhole
PROPERTIES
    ControlDEnds
CHECK_DEADLOCK FALSE
