CONSTANTS
    c1 = c1  c2 = c2
    Callers <- MCCallers
    NoTemplate = NoTemplate
    MaxWrites = 4
CHECK_DEADLOCK FALSE
SPECIFICATION FairSpec
INVARIANTS
    TypeOK
    StaleHasCause
    VersionWithinChanges
PROPERTIES
    EventuallyFresh
    DeactivatedDiesOut
