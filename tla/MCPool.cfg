SPECIFICATION FairSpec
CONSTANTS
    Items = {i1, i2, i3}
    WithContext = {i1}
    Failing = {i2}
    Workers = {w1, w2}
    Concurrency = 1
    Sizes = {2}
    None = None
INVARIANTS
    TypeOK
    CountersExact
    NoItemLostOrDuplicated
    ShutdownDrains
PROPERTIES
    AcceptedAreProcessed
CHECK_DEADLOCK FALSE
