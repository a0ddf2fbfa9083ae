\* Both nodes save, restart and lose their link.
SPECIFICATION FairSpec
CONSTANTS
    sl = sl
    v1 = v1
    v2 = v2
    v3 = v3
    None = None
    Keys <- MCKeys
    Values <- MCValues
    Default <- MCDefault
    MaxEvents = 3
    MaxConns = 2
CONSTRAINT OneRace
CHECK_DEADLOCK FALSE
INVARIANTS
    NodesAgree
    LastEditStands
PROPERTIES
    EditsSettle
