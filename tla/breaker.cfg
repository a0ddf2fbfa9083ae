SPECIFICATION Spec
CONSTANTS
    t1 = t1
    t2 = t2
    t3 = t3
    c1 = c1
    c2 = c2
    b1 = b1
    Trades <- MCTrades
    Closers <- MCClosers
    Baskets <- MCBaskets
    Threshold = 3
    NoTrade = NoTrade
    NoBasket = NoBasket
SYMMETRY MCSymmetry
CHECK_DEADLOCK FALSE
INVARIANTS
    TypeOK
    StreakIsReal
    LegsScoreTogether
