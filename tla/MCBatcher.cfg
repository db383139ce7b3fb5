SPECIFICATION FairSpec
CONSTANTS
    Records = {r1, r2, r3, r4}
    Timers = {t1, t2}
    Flushers = {f1}
    Closer = closer
    MaxSize = 3
INVARIANTS
    TypeOK
    BatchesBounded
    OnePlace
    TimerKeepsGoing
PROPERTIES
    ImplementsHandoff
CHECK_DEADLOCK FALSE
