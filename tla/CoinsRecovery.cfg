CONSTANTS
    g = g
    a1 = a1
    a2 = a2
    b1 = b1
    b2 = b2
    p = p
    q = q
    r = r
    s = s
    NoBlock = NoBlock
    Genesis = g
    Blocks <- MCBlocks
    OutPoints <- MCOutPoints
    Parent <- MCParent
    Height <- MCHeight
    GetAncestor <- MCGetAncestor
    Spends <- MCSpends
    Creates <- MCCreates
    Utxo <- MCUtxo
    Root <- MCRoot
    EnforceBIP30 = TRUE
    MaxCrashes = 2
    MaxIoErrors = 1

SPECIFICATION Spec

INVARIANTS
    TypeOK
    DbExact
    BetweenTips
    HeadsKnown

PROPERTIES
    OneTransition
    RollbackRecovers
