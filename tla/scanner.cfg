SPECIFICATION FairSpec
CONSTANTS
    MaxPosts = 2
    MaxEdits = 1
    PollLimit = 2
    Scripts <- MCScripts
    Settings <- MCSettings
    ScanLimit = 2
    MaxMishaps = 1
CHECK_DEADLOCK FALSE
CONSTRAINT MishapIsSmall
INVARIANTS
    TypeOK
    TradedOnce
    TriggerActsOnce
PROPERTIES
    HoldsSettle
