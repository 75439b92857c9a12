SPECIFICATION FairSpec
CONSTANTS
    N = 2
    Action <- SellAndReduce
    When <- FallingAndAlways
    Scheduler = {"s1", "s2"}
    Bought = 1
    MaxOrders = 2
    MaxEvents = 2
ACTION_CONSTRAINT FirstBegins
INVARIANTS
    TypeOK
    OneLiveSell
    OversoldHasACause
    OneSellPerRun
PROPERTIES
    RuleIsCarriedOut
CHECK_DEADLOCK FALSE
