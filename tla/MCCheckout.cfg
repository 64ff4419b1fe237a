SPECIFICATION CheckoutFairSpec
CONSTANTS
    Sessions = {1}
    Pollers = {}
    Rate = 2
    RoomFaults = {"err", "lost"}
    RoomCrashes = TRUE
    MaxClock = 2
    MaxReseeds = 0
    Requests = {1, 2, 3, 4}
    SessionOf <- OneSession
    Body <- TwoBodies
    Malformed = {4}
    UpstreamFaults = {"err"}
    Disconnects = TRUE
INVARIANTS CheckoutTypeOK ExecutesOnce OneExecutionPerDraw ReplayMatches
PROPERTY PendingIsResolved
