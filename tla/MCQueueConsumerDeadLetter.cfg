CONSTANTS
    e1 = e1  e2 = e2  p1 = p1  c1 = c1  c2 = c2
    EmailMsgs <- MCOneMsg
    PushMsgs <- MCNone
    Procs <- MCProcs
    Prefetch = 1
    MaxRetries = 3
    MaxFailures = 1
    MaxFaults = 0
CHECK_DEADLOCK FALSE
SPECIFICATION Spec
INVARIANTS
    DeadLettersKept
