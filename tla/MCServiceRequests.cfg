SPECIFICATION Spec
CONSTANTS
    p1 = p1
    p2 = p2
    Procs <- MCProcs
    Fleets <- MCFleets
    MaxRestarts = 2
    MaxFaults = 2
    c1 = c1
    c2 = c2
    Calls <- MCCalls
    Workloads <- MCWorkloads
    NoProc = NoProc
    Limit = 1
INVARIANTS
    TypeOK
    GivenUpHasCause
    AnswerTellsEffect
    AdmittedWithinLimit
CHECK_DEADLOCK FALSE
PROPERTIES
    ServesOrGivenUp
    SystemComesBack
    AnswersWereTrue
    Answered
