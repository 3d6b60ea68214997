SPECIFICATION Spec
CONSTANTS
    o1 = o1
    o2 = o2
    c1 = c1
    c2 = c2
    b1 = b1
    b2 = b2
    OutPoints <- MCOutPoints
    Coins <- MCCoins
    Blocks <- MCBlocks
    Usage <- MCUsage
    NoCoin = NoCoin
    NoBlock = NoBlock
    NoEntry = NoEntry
SYMMETRY Symmetric
INVARIANTS
    FlagsHonest
    NoLogicError
    UsageExact
PROPERTIES
    ImplementsViews
