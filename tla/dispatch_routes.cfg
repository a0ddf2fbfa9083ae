SPECIFICATION FairSpec
CONSTANTS
    watcher = watcher
    direct1 = direct1
    scan1 = scan1
    grid1 = grid1
    ime1 = ime1
    manual1 = manual1
    bot1 = bot1
    s1 = s1
    t1 = t1
    t2 = t2
    Signals = {s1}
    Trades = {t1, t2}
    Tasks = {watcher, scan1, ime1, grid1, manual1, bot1, direct1}
    KindOf <- MCKindOf
    Cap = 1
    MaxAttempts = 2
    MaxCrashes = 1
    NoSignal = NoSignal
    NoTrade = NoTrade

    
PROPERTIES
    ClaimsSettle
CHECK_DEADLOCK FALSE
