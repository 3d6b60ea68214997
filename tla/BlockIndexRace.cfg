SPECIFICATION Spec
CONSTANTS
    Blocks <- RaceTree
    nChainWork <- RaceWork
    BadContents <- NoBlocks
    BadScripts <- NoBlocks
    Addresses <- RaceOrders
    Processors = {t1, t2}
    Operators = {}
    Null = Null
    MIN_BLOCKS_TO_KEEP = 1
    nMinimumChainWork = 0
    MinSequenceId <- MinSeq
    MaxCommands = 0
    Commands = {"precious", "invalidate", "reconsider", "prune", "restart"}
INVARIANT BestChainActivated
CHECK_DEADLOCK FALSE
