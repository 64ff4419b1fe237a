SPECIFICATION PlacementSpec
CONSTANTS
    o1 = o1
    o2 = o2
    Orders = {o1, o2}
    Users = {"ann", "bob"}
    Buyer <- MCSameBuyer
    HomeShard <- MCLastShard
    NumShards = 2
    Stock = 1
    RedisFaults = {}
    Leaves = TRUE
    Requested <- MCNoQty
    PublishAttempts = 2
    MaxDeliver = 1
    NatsFaults = {"err", "lost", "open"}
    StoreFaults = {}
    Crashes = {"worker"}
    DLQFed = TRUE
    Outage = FALSE
SYMMETRY SameBuyerSymmetry
INVARIANTS
    RefundToOrigin
    
    
CHECK_DEADLOCK FALSE
