\* Safety and liveness of the hand-over, two dashboards.
SPECIFICATION FairSpec
CONSTANTS
    t1 = t1
    t2 = t2
    breakout = breakout
    reversal = reversal
    Tabs <- MCTabs
    Engines <- MCEngines
    MaxSends <- MCMaxSends
CHECK_DEADLOCK FALSE
INVARIANTS
    TwoTradersOnlyHandingBack
    NoTraderOnlyInTakeover
PROPERTIES
    SomeoneTakesOver
