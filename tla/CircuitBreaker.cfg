SPECIFICATION BreakerFairSpec
CONSTANTS
    Callers = {c1, c2, c3}
    MaxConsecutiveFailures = 5
    HalfOpenMaxSuccess = 2
INVARIANTS
    BreakerTypeOK
    ClosedBelowLimit
PROPERTIES
    TripsOnRunOfFailures
    ClosesOnRunOfSuccesses
    ClosesWhenHealthy
