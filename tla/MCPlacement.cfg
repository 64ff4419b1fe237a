SPECIFICATION PlacementFairSpec
CONSTANTS
    o1 = o1
    o2 = o2
    Orders = {o1, o2}
    Users = {"ann", "bob"}
    Buyer <- MCBuyer
    HomeShard <- MCHomeShard
    NumShards = 2
    Stock = 2
    RedisFaults = {"err", "open"}
    Leaves = TRUE
    Requested <- MCNoQty
    PublishAttempts = 3
    MaxDeliver = 3
    NatsFaults = {"err", "open"}
    StoreFaults = {"err", "lost"}
    Crashes = {"backend", "worker"}
    DLQFed = FALSE
    Outage = FALSE
INVARIANTS
    PlacementTypeOK
    AcceptedIsDurable
    LiveOrderHoldsUnit
    OneUnitPerOrder
PROPERTIES
    PlaceReturns
    AcceptedIsPersisted
CHECK_DEADLOCK FALSE
