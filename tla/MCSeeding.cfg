SPECIFICATION SeedingSpec
CONSTANTS
    Orders = {o1, o2}
    Users = {o1, o2}
    Buyer <- MCBuyer
    HomeShard <- MCHomeShard
    NumShards = 2
    Stock = 1
    RedisFaults = {}
    Leaves = FALSE
    Requested <- MCNoQty
    PublishAttempts = 1
    MaxDeliver = 1
    NatsFaults = {}
    StoreFaults = {"lost"}
    Crashes = {}
    DLQFed = FALSE
    Outage = FALSE
    Reconcilers = {"rec"}
    BatchLimit = 1
    SeedShards = 2
    SeedFaults = {"err", "lost"}
    MaxSeeds = 2
    Quiet = TRUE
SYMMETRY BuyerSymmetry
INVARIANTS
    ConservedSinceSeed
    SaleOpens
    LiveWithinStock
CHECK_DEADLOCK FALSE
