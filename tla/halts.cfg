SPECIFICATION HaltsSpec
CONSTANTS
    t1 = t1
    t2 = t2
    c1 = c1
    c2 = c2
    Trades <- MCTrades
    Closers <- MCClosers
    Pnls <- MCPnls
    Start = 100
    DailyPct = 2
    DrawdownPct = 3
    Arm = 2
    GiveBackPct = 50
    NoTrade = NoTrade
    NoCloser = NoCloser
SYMMETRY MCSymmetry
CONSTRAINT OneMiss
CHECK_DEADLOCK FALSE
INVARIANTS
    BreachStopsTheDay
