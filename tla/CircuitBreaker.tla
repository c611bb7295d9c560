---------------------------- MODULE CircuitBreaker ----------------------------
(***************************************************************************)
(* The circuit breaker of libs/common/src/utils/circuit-breaker.ts.        *)
(*                                                                         *)
(* Calls of execute overlap: a call admitted in one state of the breaker   *)
(* may report its result in another.  Every result is counted in the state *)
(* it finds, which is what the properties are about.                       *)
(***************************************************************************)
EXTENDS Integers

CONSTANTS
    Calls,         \* callers, each with at most one call in flight
    Threshold,     \* options.threshold
    MaxFailures    \* bound: failing calls of one behaviour

ASSUME ThresholdAssumption ==
    /\ Threshold \in Nat \ {0}
    /\ MaxFailures \in Nat

VARIABLES
    state,
    failureCount,
    successCount,
    waiting,       \* whether Date.now() is before nextAttempt
    flying,        \* callers whose call has been admitted and has not settled
    streak,        \* history: successes in a row, counted up to Threshold, since
                   \*   the last failure, reset or change to HALF_OPEN
    failures       \* history: failing calls so far

vars == <<state, failureCount, successCount, waiting, flying, streak, failures>>

AtLimit(n) == n >= Threshold

-------------------------------------------------------------------------------

\* Mutant: the call passes, but the state stays OPEN.
AdmitStaysOpen(c) ==
    /\ c \notin flying
    /\ state = "OPEN" => ~waiting
    /\ flying' = flying \cup {c}
    /\ UNCHANGED <<state, failureCount, successCount, waiting, streak, failures>>

\* execute, up to its await: an OPEN breaker throws before nextAttempt, and
\* goes HALF_OPEN with the first call after it.  All later calls pass too.
Admit(c) ==
    /\ c \notin flying
    /\ state = "OPEN" => ~waiting
    /\ state'  = IF state = "OPEN" THEN "HALF_OPEN" ELSE state
    /\ streak' = IF state = "OPEN" THEN 0 ELSE streak
    /\ flying' = flying \cup {c}
    /\ UNCHANGED <<failureCount, successCount, waiting, failures>>

\* Mutant: the breaker closes one success late.
OnSuccessOneMore ==
    /\ failureCount' = 0
    /\ IF state # "HALF_OPEN" THEN UNCHANGED <<state, successCount>>
       ELSE IF successCount + 1 > Threshold
            THEN state' = "CLOSED" /\ successCount' = 0
            ELSE successCount' = successCount + 1 /\ UNCHANGED state

OnSuccess ==
    /\ failureCount' = 0
    /\ IF state # "HALF_OPEN" THEN UNCHANGED <<state, successCount>>
       ELSE IF AtLimit(successCount + 1)
            THEN state' = "CLOSED" /\ successCount' = 0
            ELSE successCount' = successCount + 1 /\ UNCHANGED state

\* Mutant: a failure leaves the successes of HALF_OPEN counted.
OnFailureKeepsSuccesses ==
    /\ failureCount' = failureCount + 1
    /\ UNCHANGED successCount
    /\ IF AtLimit(failureCount + 1)
       THEN state' = "OPEN" /\ waiting' = TRUE
       ELSE UNCHANGED <<state, waiting>>

\* Mutant: the breaker opens one failure late.
OnFailureOneMore ==
    /\ failureCount' = failureCount + 1
    /\ successCount' = 0
    /\ IF failureCount + 1 > Threshold
       THEN state' = "OPEN" /\ waiting' = TRUE
       ELSE UNCHANGED <<state, waiting>>

\* In every state: a late failure of an OPEN breaker puts nextAttempt off.
OnFailure ==
    /\ failureCount' = failureCount + 1
    /\ successCount' = 0
    /\ IF AtLimit(failureCount + 1)
       THEN state' = "OPEN" /\ waiting' = TRUE
       ELSE UNCHANGED <<state, waiting>>

\* The race of fn and the timeout settles; what comes after is ignored.
Succeeds(c) ==
    /\ c \in flying
    /\ flying' = flying \ {c}
    /\ OnSuccess
    /\ streak' = IF streak < Threshold THEN streak + 1 ELSE streak
    /\ UNCHANGED <<waiting, failures>>

Fails(c) ==
    /\ c \in flying
    /\ failures < MaxFailures
    /\ failures' = failures + 1
    /\ flying' = flying \ {c}
    /\ OnFailure
    /\ streak' = 0

\* The clock reaches nextAttempt.
Elapse ==
    /\ waiting
    /\ waiting' = FALSE
    /\ UNCHANGED <<state, failureCount, successCount, flying, streak, failures>>

\* nextAttempt stays as it is; calls in flight go on.
Reset ==
    /\ state' = "CLOSED"
    /\ failureCount' = 0
    /\ successCount' = 0
    /\ streak' = 0
    /\ UNCHANGED <<waiting, flying, failures>>

-------------------------------------------------------------------------------
(* Specification *)

Init ==
    /\ state = "CLOSED"
    /\ failureCount = 0 /\ successCount = 0
    /\ waiting = FALSE
    /\ flying = {}
    /\ streak = 0
    /\ failures = 0

Next ==
    \/ \E c \in Calls : Admit(c) \/ Succeeds(c) \/ Fails(c)
    \/ Elapse
    \/ Reset

Spec == Init /\ [][Next]_vars

\* Time passes, calls settle (the timeout sees to that) and callers keep
\* calling.  Nobody is bound to call reset.
FairSpec ==
    /\ Spec
    /\ WF_vars(Elapse)
    /\ \A c \in Calls : WF_vars(Admit(c)) /\ WF_vars(Succeeds(c) \/ Fails(c))

-------------------------------------------------------------------------------
(* Properties *)

\* Every variable keeps its type; successCount stays below the threshold.
TypeOK ==
    /\ state \in {"CLOSED", "OPEN", "HALF_OPEN"}
    /\ failureCount \in Nat
    /\ successCount \in 0..Threshold - 1
    /\ waiting \in BOOLEAN
    /\ flying \subseteq Calls
    /\ streak \in 0..Threshold
    /\ failures \in Nat

\* A closed breaker has seen fewer failures in a row than the threshold,
\* whichever results of earlier states arrived meanwhile
\* (circuit-breaker.ts 51-61 and 65-70).
ClosedBelowThreshold == state = "CLOSED" => failureCount < Threshold

\* Successes are counted towards closing only in HALF_OPEN, and a failure
\* discards them (circuit-breaker.ts 40-54).
ProgressOnlyInHalfOpen ==
    successCount > 0 => state = "HALF_OPEN" /\ failureCount = 0

\* The result of a call closes the breaker only after Threshold successes in a
\* row since it went HALF_OPEN; an OPEN breaker is never closed by a result
\* that comes late.  Reset is the only other way to CLOSED.
ClosesAfterSuccesses ==
    [][state # "CLOSED" /\ state' = "CLOSED" /\ flying' # flying
            => state = "HALF_OPEN" /\ streak' = Threshold]_vars

\* When calls stop failing, the breaker closes: late results, put-off attempts
\* and relapses from HALF_OPEN to OPEN cannot keep it open for ever.
Recovers == []<>(state = "CLOSED")

===============================================================================
