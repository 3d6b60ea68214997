SPECIFICATION Spec
CONSTANTS
    Contracts = {c1, c2}
    Names = {n1}
    Values = {v1}
    Null = Null
    NoName = NoName
    NoEntry = NoEntry
    Absent = Absent
    MaxAmount = 1
    MaxHistory = 3
    MaxResets = 0
    MaxResetCommits = 0
    MaxRollbacks = 1
    MaxIoErrors = 0
    MaxCrashes = 1
    MaxEvents = 2
INVARIANTS
    RootIsWorld
CHECK_DEADLOCK FALSE
