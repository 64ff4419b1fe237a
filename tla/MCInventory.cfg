SPECIFICATION InventorySpec
CONSTANTS
    o1 = o1
    o2 = o2
    o3 = o3
    Orders = {o1, o2, o3}
    Users = {"ann", "bob", "cyd"}
    Buyer <- MCBuyer
    HomeShard <- MCHomeShard
    NumShards = 2
    Stock = 2
    RedisFaults = {"err", "lost", "open"}
    Leaves = TRUE
INVARIANTS
    InventoryTypeOK
    RefundAtMostOnce
    ShardConserved
PROPERTIES
    PublishedIsFinal
    LedgerSpec
CHECK_DEADLOCK FALSE
