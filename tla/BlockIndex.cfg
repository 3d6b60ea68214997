SPECIFICATION Spec
CONSTANTS
    Blocks <- Tree
    nChainWork <- Work
    BadContents <- RejectedOnArrival
    BadScripts <- RejectedWhenConnected
    Addresses <- OneOrder
    Processors = {t1}
    Operators = {t2}
    Null = Null
    MIN_BLOCKS_TO_KEEP = 1
    nMinimumChainWork = 0
    MinSequenceId <- MinSeq
    MaxCommands = 2
    Commands = {"precious", "invalidate", "reconsider", "prune", "restart"}
INVARIANTS
    TypeOK
    Status
    FailedHasReason
    Candidates
    UnlinkedRight
    NoAssertFails
    BestChainActive
CHECK_DEADLOCK FALSE
