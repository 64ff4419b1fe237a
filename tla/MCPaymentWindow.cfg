SPECIFICATION Spec
CONSTANTS
    o1 = o1
    o2 = o2
    Orders = {o1}
    Users = {"ann", "bob"}
    Buyer <- MCBuyer
    HomeShard <- MCHomeShard
    NumShards = 2
    Stock = 2
    RedisFaults = {"err", "lost", "open"}
    Leaves = TRUE
    Requested <- MCNoQty
    PublishAttempts = 2
    MaxDeliver = 2
    NatsFaults = {"err", "open"}
    StoreFaults = {"err", "lost"}
    Crashes = {"backend", "worker"}
    DLQFed = FALSE
    Outage = FALSE
    Reconcilers = {"rec1", "rec2"}
    BatchLimit = 1
INVARIANTS
    TypeOK
    LiveOrderHoldsUnit
    CancelledOnce
PROPERTIES
    CancelIsFinal
    InventorySpec
CHECK_DEADLOCK FALSE
