SPECIFICATION FairSpec
CONSTANTS
    ladder = ladder
    finisher = finisher
    monitor = monitor
    reader = reader
    user = user
    sync1 = sync1
    sync2 = sync2
    native = native
    scripted = scripted
    NoTrade = NoTrade
    NoStamp = NoStamp
    Trades = {scripted}
    Tasks = {ladder, finisher, monitor, user, sync1}
    KindOf <- MCKindOf
    Managed <- MCManaged
    Loss <- MCLoss
    Lots = 2
    Levels = 2
    Win = 1
    Fee = 1
    Lag = TRUE
    Blind = TRUE
    MaxFaults = 1
INVARIANTS
    TypeOK
    BooksBalance
    StampIsBooked
    OneVerdict
    RowTracksBroker
    LevelTakenOnce
PROPERTIES
    ExitsSettle
CHECK_DEADLOCK FALSE
