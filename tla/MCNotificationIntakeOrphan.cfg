CONSTANTS
    a1 = a1  a2 = a2  a3 = a3  b1 = b1
    ra = ra  rb = rb  g1 = g1  g2 = g2
    None = None
    Calls <- MCCalls
    RequestIds <- MCRequestIds
    RequestOf <- MCRequestOf
    Instances <- MCInstances
    MaxSends = 2
    MaxCrashes = 1
CHECK_DEADLOCK FALSE
SPECIFICATION Spec

INVARIANTS
    StoredIsQueued
