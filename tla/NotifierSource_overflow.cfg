SPECIFICATION Spec
CONSTANTS
    Tags = {t1, t2}
    NoTag = NoTag
    MaxQueue = 2
    MaxWd = 2
INVARIANT OverflowIsReported
