SPECIFICATION FairSpec
CONSTANTS
    MaxTickets = 3
    MaxDrops = 2
    MaxQueue = 2
CONSTRAINT Unraced
CHECK_DEADLOCK FALSE
INVARIANTS
    TypeOK
    OneOrder
    RowTellsBook
PROPERTY
    FillIsRecorded
