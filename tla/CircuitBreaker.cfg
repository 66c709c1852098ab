SPECIFICATION BreakerFairSpec
CONSTANTS
    Requests = {r1, r2, r3, r4}
    FailureThreshold = 5
    HalfOpenSuccesses = 2
    ResetTime = 2
    MaxFailures = 7
INVARIANT TripsOnThreshold
PROPERTY ClosesAgain
