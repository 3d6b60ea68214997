SPECIFICATION Spec
CONSTANTS
    Workers = {w1, w2}
    Master = m
    Checks = {c1, c2, c3, c4}
    Good = {c1, c2, c3}
    nBatchSize = 2
INVARIANTS
    TypeOK
    VerdictRight
    Finished
    SomebodyWorks
PROPERTIES
    WaitReturns
CHECK_DEADLOCK FALSE
