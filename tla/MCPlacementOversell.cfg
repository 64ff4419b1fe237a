SPECIFICATION PlacementSpec
CONSTANTS
    o1 = o1
    o2 = o2
    Orders = {o1, o2}
    Users = {"ann", "bob"}
    Buyer <- MCBuyer
    HomeShard <- MCHomeShard
    NumShards = 2
    Stock = 2
    RedisFaults = {}
    Leaves = FALSE
    Requested <- MCNoQty
    PublishAttempts = 2
    MaxDeliver = 2
    NatsFaults = {"lost"}
    StoreFaults = {}
    Crashes = {}
    DLQFed = FALSE
    Outage = FALSE
INVARIANTS
    LiveOrderHoldsUnit
CHECK_DEADLOCK FALSE
