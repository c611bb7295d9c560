CONSTANTS
    c1 = c1  c2 = c2
    Clients <- MCClients
    NoClient = NoClient
    MaxWrites = 3
CHECK_DEADLOCK FALSE
SPECIFICATION FairSpec
INVARIANTS
    TypeOK
    CreatedCanLogin
    StaleHasCause
PROPERTIES
    EventuallyFresh
