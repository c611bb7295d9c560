------------------------- MODULE CircuitBreakerProofs -------------------------
(***************************************************************************)
(* Safety of the circuit breaker for every threshold, every number of      *)
(* overlapping callers and every number of failures.                       *)
(***************************************************************************)
EXTENDS CircuitBreaker, TLAPS

LEMMA ThresholdIsPositive == Threshold \in Nat \ {0}
  BY ThresholdAssumption

\* TypeOK without the Boolean: arithmetic and Booleans are proved apart.
NumbersOK ==
    /\ state \in {"CLOSED", "OPEN", "HALF_OPEN"}
    /\ failureCount \in Nat
    /\ successCount \in 0..Threshold - 1
    /\ flying \subseteq Calls
    /\ streak \in 0..Threshold
    /\ failures \in Nat

LEMMA TypeParts == TypeOK <=> NumbersOK /\ waiting \in BOOLEAN
  BY DEF TypeOK, NumbersOK

\* In HALF_OPEN the counter is exactly the number of successes in a row.
CountIsStreak == state = "HALF_OPEN" => successCount = streak

\* The inductive invariant without the clock.
CountersOK == NumbersOK /\ ClosedBelowThreshold /\ ProgressOnlyInHalfOpen /\ CountIsStreak

IInv == CountersOK /\ waiting \in BOOLEAN

LEMMA InitIInv == Init => IInv
<1>1. Init => CountersOK
  BY ThresholdIsPositive
  DEF Init, CountersOK, NumbersOK, ClosedBelowThreshold, ProgressOnlyInHalfOpen, CountIsStreak
<1>2. Init => waiting \in BOOLEAN
  BY DEF Init
<1> QED
  BY <1>1, <1>2 DEF IInv

\* Only a failure starts the wait, and only the clock ends it.
LEMMA WaitingNext == waiting \in BOOLEAN /\ [Next]_vars => waiting' \in BOOLEAN
  BY DEF Next, Admit, Succeeds, Fails, OnFailure, Elapse, Reset, vars

\* Admitting a call keeps the counters: entering HALF_OPEN starts at zero.
LEMMA AdmitCounters ==
    ASSUME CountersOK, NEW c \in Calls, Admit(c)
    PROVE  CountersOK'
<1> USE ThresholdIsPositive DEF CountersOK
<1>1. state # "HALF_OPEN" => successCount = 0
  BY DEF ProgressOnlyInHalfOpen, NumbersOK
<1>2. NumbersOK'
  BY DEF Admit, NumbersOK
<1>3. ClosedBelowThreshold'
  BY DEF Admit, ClosedBelowThreshold, NumbersOK
<1>4. ProgressOnlyInHalfOpen' /\ CountIsStreak'
  BY <1>1 DEF Admit, ProgressOnlyInHalfOpen, CountIsStreak, NumbersOK
<1> QED
  BY <1>2, <1>3, <1>4

\* A success keeps the counters, in the state it finds.
LEMMA SucceedsCounters ==
    ASSUME CountersOK, NEW c \in Calls, Succeeds(c)
    PROVE  CountersOK'
<1> USE ThresholdIsPositive
    DEF CountersOK, NumbersOK, ClosedBelowThreshold, ProgressOnlyInHalfOpen, CountIsStreak
<1>1. CASE state # "HALF_OPEN"
  <2>1. successCount = 0
    BY <1>1
  <2> QED
    BY <1>1, <2>1 DEF Succeeds, OnSuccess
<1>2. CASE state = "HALF_OPEN" /\ successCount + 1 >= Threshold
  BY <1>2 DEF Succeeds, OnSuccess, AtLimit
<1>3. CASE state = "HALF_OPEN" /\ ~(successCount + 1 >= Threshold)
  BY <1>3 DEF Succeeds, OnSuccess, AtLimit
<1> QED
  BY <1>1, <1>2, <1>3

\* A failure keeps the counters: below the limit in any state, or opening.
LEMMA FailsCounters ==
    ASSUME CountersOK, NEW c \in Calls, Fails(c)
    PROVE  CountersOK'
<1> USE ThresholdIsPositive DEF CountersOK, NumbersOK, Fails, OnFailure, AtLimit
<1>1. NumbersOK'
  OBVIOUS
<1>2. ClosedBelowThreshold'
  BY DEF ClosedBelowThreshold
<1>3. ProgressOnlyInHalfOpen' /\ CountIsStreak'
  BY DEF ProgressOnlyInHalfOpen, CountIsStreak
<1> QED
  BY <1>1, <1>2, <1>3

\* The clock and an operator's reset keep the counters.
LEMMA OtherCounters ==
    ASSUME CountersOK, Elapse \/ Reset \/ UNCHANGED vars
    PROVE  CountersOK'
  BY ThresholdIsPositive
  DEF Elapse, Reset, vars, CountersOK, NumbersOK, ClosedBelowThreshold,
      ProgressOnlyInHalfOpen, CountIsStreak

LEMMA IInvNext == IInv /\ [Next]_vars => IInv'
<1> SUFFICES ASSUME IInv, [Next]_vars PROVE IInv'
  OBVIOUS
<1>0. CountersOK
  BY DEF IInv
<1>1. ASSUME NEW c \in Calls, Admit(c) \/ Succeeds(c) \/ Fails(c) PROVE CountersOK'
  BY <1>0, <1>1, AdmitCounters, SucceedsCounters, FailsCounters
<1>2. ASSUME Elapse \/ Reset \/ UNCHANGED vars PROVE CountersOK'
  BY <1>0, <1>2, OtherCounters
<1>3. CountersOK'
  BY <1>1, <1>2 DEF Next
<1> QED
  BY <1>3, WaitingNext DEF IInv

\* The invariant holds throughout.
THEOREM Invariance == Spec => []IInv
<1> QED
  BY InitIInv, IInvNext, PTL DEF Spec

\* The model is type correct; successCount never reaches the threshold.
THEOREM TypeCorrect == Spec => []TypeOK
<1>1. IInv => TypeOK
  BY TypeParts DEF IInv, CountersOK
<1> QED
  BY <1>1, Invariance, PTL

\* A closed breaker is below its threshold of failures.
THEOREM ClosedIsBelow == Spec => []ClosedBelowThreshold
<1>1. IInv => ClosedBelowThreshold
  BY DEF IInv, CountersOK
<1> QED
  BY <1>1, Invariance, PTL

\* Progress towards closing is made in HALF_OPEN only and lost by a failure.
THEOREM ProgressInHalfOpen == Spec => []ProgressOnlyInHalfOpen
<1>1. IInv => ProgressOnlyInHalfOpen
  BY DEF IInv, CountersOK
<1> QED
  BY <1>1, Invariance, PTL

\* No result closes the breaker without Threshold successes in a row in
\* HALF_OPEN, however late the results of earlier calls arrive.
THEOREM ClosesProperly == Spec => ClosesAfterSuccesses
<1> DEFINE Closing == state # "CLOSED" /\ state' = "CLOSED" /\ flying' # flying
<1> DEFINE Proper == state = "HALF_OPEN" /\ streak' = Threshold
<1>1. ASSUME IInv, Next, Closing PROVE Proper
  <2>1. ~Elapse /\ ~Reset
    BY <1>1 DEF Elapse, Reset
  <2>2. \A c \in Calls : ~Admit(c) /\ ~Fails(c)
    BY <1>1 DEF Admit, Fails, OnFailure
  <2>3. PICK c \in Calls : Succeeds(c)
    BY <1>1, <2>1, <2>2 DEF Next
  <2>4. state = "HALF_OPEN" /\ successCount + 1 >= Threshold
    BY <1>1, <2>3 DEF Succeeds, OnSuccess, AtLimit
  <2>5. streak \in 0..Threshold - 1 /\ streak + 1 >= Threshold
    BY <1>1, <2>4 DEF IInv, CountersOK, CountIsStreak, NumbersOK
  <2>6. streak' = Threshold
    BY <2>3, <2>5, ThresholdIsPositive DEF Succeeds
  <2> QED
    BY <2>4, <2>6
<1>2. IInv /\ [Next]_vars => [Closing => Proper]_vars
  BY <1>1
<1> QED
  BY <1>2, Invariance, PTL DEF Spec, ClosesAfterSuccesses

-------------------------------------------------------------------------------
(* How far the breaker is from closing                                     *)

\* Steps that bring an open breaker nearer to CLOSED: the wait, the call that
\* tries, and one success for each of the threshold.
Distance ==
    IF state = "CLOSED" THEN 0
    ELSE IF state = "HALF_OPEN" THEN Threshold - successCount
    ELSE IF waiting THEN Threshold + 2 ELSE Threshold + 1

\* The end of the wait, the first call after it, and each success of HALF_OPEN.
Nearer ==
    \/ state = "OPEN" /\ Elapse
    \/ state = "OPEN" /\ \E c \in Calls : Admit(c)
    \/ state = "HALF_OPEN" /\ \E c \in Calls : Succeeds(c)

\* Only a failing call takes the breaker away from CLOSED again: late
\* successes, further callers and the clock do not, and every step of Nearer
\* brings it closer, so that without failures at most Threshold + 2 of them
\* come before it closes (circuit-breaker.ts 19-71).
OnlyFailuresSetBack ==
    failures' = failures =>
        /\ Distance' <= Distance
        /\ Nearer => Distance' < Distance

LEMMA DistanceNext ==
    ASSUME IInv, IInv', Next, failures' = failures
    PROVE  Distance' <= Distance /\ (Nearer => Distance' < Distance)
<1>t. Threshold \in Nat \ {0} /\ successCount \in 0..Threshold - 1 /\ successCount' \in 0..Threshold - 1
  BY ThresholdIsPositive DEF IInv, CountersOK, NumbersOK
<1>s. state \in {"CLOSED", "OPEN", "HALF_OPEN"} /\ failures \in Nat
  BY DEF IInv, CountersOK, NumbersOK
<1>z. state = "OPEN" => successCount = 0
  BY <1>t DEF IInv, CountersOK, ProgressOnlyInHalfOpen
<1>d. Distance \in Nat /\ Distance' \in Nat
  <2> DEFINE Values == {0, Threshold + 1, Threshold + 2}
  <2>1. Distance \in Values \cup {Threshold - successCount}
    BY DEF Distance
  <2>2. Distance' \in Values \cup {Threshold - successCount'}
    BY DEF Distance
  <2>3. ASSUME NEW n \in 0..Threshold - 1 PROVE Threshold - n \in Nat
    BY ThresholdIsPositive
  <2>4. Values \subseteq Nat
    BY <1>t
  <2> QED
    BY <1>t, <2>1, <2>2, <2>3, <2>4
<1>1. ASSUME NEW c \in Calls, Admit(c)
      PROVE  Distance' <= Distance /\ (state = "OPEN" => Distance' < Distance)
  <2>1. CASE state = "OPEN"
    <3>1. state' = "HALF_OPEN" /\ successCount' = successCount /\ ~waiting
      BY <1>1, <2>1 DEF Admit
    <3>2. Distance = Threshold + 1 /\ Distance' = Threshold
      BY <1>t, <1>z, <2>1, <3>1 DEF Distance
    <3> QED
      BY <1>t, <3>2
  <2>2. CASE state # "OPEN"
    <3>1. Distance' = Distance
      BY <1>1, <2>2 DEF Admit, Distance
    <3> QED
      BY <1>d, <2>2, <3>1
  <2> QED
    BY <2>1, <2>2
<1>2. ASSUME NEW c \in Calls, Succeeds(c)
      PROVE  Distance' <= Distance /\ (state = "HALF_OPEN" => Distance' < Distance)
  <2>1. CASE state # "HALF_OPEN"
    <3>1. Distance' = Distance
      BY <1>2, <2>1 DEF Succeeds, OnSuccess, Distance
    <3> QED
      BY <1>d, <2>1, <3>1
  <2>2. CASE state = "HALF_OPEN" /\ AtLimit(successCount + 1)
    <3>1. state' = "CLOSED"
      BY <1>2, <2>2 DEF Succeeds, OnSuccess
    <3>2. Distance' = 0 /\ Distance = Threshold - successCount
      BY <2>2, <3>1 DEF Distance
    <3> QED
      BY <1>t, <3>2
  <2>3. CASE state = "HALF_OPEN" /\ ~AtLimit(successCount + 1)
    <3>1. state' = "HALF_OPEN" /\ successCount' = successCount + 1
      BY <1>2, <2>3 DEF Succeeds, OnSuccess
    <3>2. Distance' = Threshold - (successCount + 1) /\ Distance = Threshold - successCount
      BY <2>3, <3>1 DEF Distance
    <3> QED
      BY <1>t, <3>2
  <2> QED
    BY <2>1, <2>2, <2>3
<1>3. ASSUME NEW c \in Calls PROVE ~Fails(c)
  BY <1>s DEF Fails
<1>4. ASSUME Elapse
      PROVE  Distance' <= Distance /\ (state = "OPEN" => Distance' < Distance)
  <2>1. CASE state = "OPEN"
    <3>1. waiting /\ ~waiting' /\ state' = "OPEN"
      BY <1>4, <2>1 DEF Elapse
    <3>2. Distance = Threshold + 2 /\ Distance' = Threshold + 1
      BY <2>1, <3>1 DEF Distance
    <3> QED
      BY <1>t, <3>2
  <2>2. CASE state # "OPEN"
    <3>1. Distance' = Distance
      BY <1>4, <1>s, <2>2 DEF Elapse, Distance
    <3> QED
      BY <1>d, <2>2, <3>1
  <2> QED
    BY <2>1, <2>2
<1>5. ASSUME Reset PROVE Distance' <= Distance
  <2>1. Distance' = 0
    BY <1>5 DEF Reset, Distance
  <2> QED
    BY <1>d, <2>1
<1>6. Distance' <= Distance
  BY <1>1, <1>2, <1>3, <1>4, <1>5 DEF Next
<1> QED
  BY <1>1, <1>2, <1>4, <1>6 DEF Nearer

\* The safety half of Recovers, for every threshold and any number of callers:
\* without failures the breaker only ever gets closer to CLOSED.
THEOREM RecoveryDescends == Spec => [][OnlyFailuresSetBack]_vars
<1>1. IInv /\ [Next]_vars => [OnlyFailuresSetBack]_vars
  BY IInvNext, DistanceNext DEF OnlyFailuresSetBack
<1> QED
  BY <1>1, Invariance, PTL DEF Spec

===============================================================================
