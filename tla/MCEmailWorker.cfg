CONSTANTS
    n1 = n1  n2 = n2  m1 = m1  m1again = m1again  m2 = m2  w1 = w1  w2 = w2
    Notes <- MCNotes
    Incomplete <- MCIncomplete
    Msgs <- MCMsgs
    NoteOf <- MCNoteOf
    Workers <- MCWorkers
    MaxRetries = 1
    MaxFaults = 1
CHECK_DEADLOCK FALSE
SPECIFICATION FairSpec
INVARIANTS
    TypeOK
    ExtraMailsNeedFaults
    SettledHasOutcome
    SettledStatusIsRight
    LogFollowsStatus
PROPERTIES
    SendingEnds
