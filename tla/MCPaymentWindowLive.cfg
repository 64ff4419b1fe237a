SPECIFICATION FairSpec
CONSTANTS
    o1 = o1
    o2 = o2
    Orders = {o1, o2}
    Users = {"ann", "bob"}
    Buyer <- MCBuyer
    HomeShard <- MCHomeShard
    NumShards = 1
    Stock = 2
    RedisFaults = {}
    Leaves = FALSE
    Requested <- MCNoQty
    PublishAttempts = 1
    MaxDeliver = 1
    NatsFaults = {"open"}
    StoreFaults = {}
    Crashes = {}
    DLQFed = FALSE
    Outage = FALSE
    Reconcilers = {"rec"}
    BatchLimit = 1
PROPERTIES
    UnpaidIsCancelled
CHECK_DEADLOCK FALSE
