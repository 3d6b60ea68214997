SPECIFICATION Spec
CONSTANTS
    Contracts = {c1, c2}
    Names = {n1}
    Values = {v1}
    Null = Null
    NoName = NoName
    NoEntry = NoEntry
    Absent = Absent
    MaxAmount = 1
    MaxHistory = 3
    MaxResets = 1
    MaxResetCommits = 1
    MaxRollbacks = 2
    MaxIoErrors = 1
    MaxCrashes = 1
    MaxEvents = 2
INVARIANTS
    TypeOK
    RootIsWorldWhileUp
    HistoryKept
    DiffsKept
    CommitRepeatable
PROPERTY
    FailedLeavesNoTrace
CHECK_DEADLOCK FALSE
