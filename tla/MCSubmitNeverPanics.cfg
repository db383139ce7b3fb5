SPECIFICATION Spec
CONSTANTS
    Items = {i1, i2, i3}
    WithContext = {i1}
    Failing = {i2}
    Workers = {w1, w2}
    Concurrency = 1
    Sizes = {1, 2}
    None = None
INVARIANTS
    SubmitNeverPanics
CHECK_DEADLOCK FALSE
