CONSTANTS
    e1 = e1  e2 = e2  p1 = p1  c1 = c1  c2 = c2
    EmailMsgs <- MCEmailMsgs
    PushMsgs <- MCPushMsgs
    Procs <- MCProcs
    Prefetch = 2
    MaxRetries = 3
    MaxFailures = 1
    MaxFaults = 2
CHECK_DEADLOCK FALSE
SPECIFICATION Spec
SYMMETRY MCSymmetry
INVARIANTS
    TypeOK
    HandlerHoldsDelivery
    NoStuckDelivery
    HandlersNeedFaults
    AckedOnlyAfterCompletion
PROPERTIES
    OnlyHolderSettles
    ImplementsContract
