SPECIFICATION FairSpec
CONSTANTS
    ladder = ladder
    finisher = finisher
    monitor = monitor
    reader = reader
    user = user
    sync1 = sync1
    sync2 = sync2
    native = native
    scripted = scripted
    NoTrade = NoTrade
    NoStamp = NoStamp
    Trades = {native}
    Tasks = {reader, monitor, sync1}
    KindOf <- MCKindOf
    Managed <- MCManaged
    Loss = 2
    Lots = 2
    Levels = 1
    Win = 2
    Fee = 1
    Lag = TRUE
    Blind = TRUE
    MaxFaults = 1
INVARIANTS
    RowTracksBroker
    StampIsFinal
PROPERTIES
    ExitsSettle
CHECK_DEADLOCK FALSE
