SPECIFICATION Spec
CONSTANTS
    watcher = watcher
    direct1 = direct1
    scan1 = scan1
    grid1 = grid1
    ime1 = ime1
    manual1 = manual1
    bot1 = bot1
    s1 = s1
    s2 = s2
    t1 = t1
    t2 = t2
    Signals = {s1, s2}
    Trades = {t1, t2}
    Tasks = {watcher, direct1}
    KindOf <- MCKindOf
    Cap = 1
    MaxAttempts = 2
    MaxCrashes = 1
    NoSignal = NoSignal
    NoTrade = NoTrade
SYMMETRY Symmetry
INVARIANTS
    TypeOK
    ClaimExclusive
    OneOrderPerTrade
    SlotsWithinCap
PROPERTIES
    UnknownNeverRequeued
CHECK_DEADLOCK FALSE
