SPECIFICATION Spec
CONSTANTS
    g = g  a1 = a1  a2 = a2  a3 = a3  b1 = b1  x = x
    t1 = t1  t2 = t2  bad = bad
    Blocks <- MCBlocks
    Genesis = g
    Parent <- MCParent
    Height <- MCHeight
    Txs <- MCTxs
    BadTxs = {bad}
    FalseRoots = {x}
    NoBlock = NoBlock
    CheckLevels = {3, 4}
    CheckDepth = 1
    MaxTries = 1
    MaxVerifies = 1
    MaxStops = 1
    MaxInterrupts = 1
    MaxCrashes = 1
    MaxCuts = 1
    MaxTorn = 1
    MaxEvents = 2
    MaxKills = 0
INVARIANTS
    TypeOK
    NoFalseInvalidWhileUp
    RootAtTip
    TemplatesRight
    ScopeExitsFindRoot
