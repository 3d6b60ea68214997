SPECIFICATION FairSpec
CONSTANTS
    g = g  a1 = a1  a2 = a2  a3 = a3  b1 = b1  x = x
    t1 = t1  t2 = t2  bad = bad
    Blocks <- MCBlocks
    Genesis = g
    Parent <- MCParent
    Height <- MCHeight
    Txs <- MCTxs
    BadTxs = {bad}
    FalseRoots = {x}
    NoBlock = NoBlock
    CheckLevels = {3}
    CheckDepth = 1
    MaxTries = 0
    MaxVerifies = 0
    MaxStops = 1
    MaxInterrupts = 0
    MaxCrashes = 0
    MaxCuts = 0
    MaxTorn = 0
    MaxEvents = 2
    MaxKills = 0
PROPERTIES
    BestChainWins
