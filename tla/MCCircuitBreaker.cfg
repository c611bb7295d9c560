CONSTANTS
    c1 = c1  c2 = c2  c3 = c3
    Calls <- MCCalls
    Threshold = 2
    MaxFailures = 6
CHECK_DEADLOCK FALSE
SPECIFICATION FairSpec
INVARIANTS
    TypeOK
    ClosedBelowThreshold
    ProgressOnlyInHalfOpen
PROPERTIES
    ClosesAfterSuccesses
    Recovers
