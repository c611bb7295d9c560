----------------------- MODULE NotificationIntakeProofs -----------------------
(***************************************************************************)
(* Proofs about NotificationIntake for every set of calls, request ids and *)
(* gateway processes.  The row of a request id is the anchor: it is        *)
(* written once, and the queue, the maps and the answers all agree with it *)
(* (RowAnchors); maps and answers also know that the broker accepted it.   *)
(***************************************************************************)
EXTENDS NotificationIntake, TLAPS

\* A call that publishes created the row; what a map or a client has been
\* told is that row, and was queued.
RowAnchors ==
    /\ \A c \in Calls : phase[c] = "publishing" => row[RequestOf[c]] = c
    /\ QueuedHasRow
    /\ \A i \in Instances, r \in RequestIds :
          cache[i][r] # None => cache[i][r] = row[r] /\ sent[row[r]] > 0
    /\ \A c \in Calls :
          answer[c].status = "ok" => /\ answer[c].id = row[RequestOf[c]]
                                     /\ answer[c].id \in Calls
                                     /\ sent[answer[c].id] > 0

IInv == TypeOK /\ RowAnchors

-------------------------------------------------------------------------------

\* Answers are what the client can get, and only Ok has status "ok".
LEMMA AnswerFacts ==
    /\ NoAnswer \in Answers /\ NoAnswer.status # "ok"
    /\ \A n \in Calls : Ok(n) \in Answers /\ Ok(n).status = "ok" /\ Ok(n).id = n
    /\ \A why \in {"refused", "error", "lost"} :
          Failed(why) \in Answers /\ Failed(why).status # "ok"
BY DEF Answers, NoAnswer, Ok, Failed

LEMMA TypeOKNext == TypeOK /\ [Next]_vars => TypeOK'
<1> SUFFICES ASSUME TypeOK, [Next]_vars PROVE TypeOK'
  OBVIOUS
<1> USE CallsAssumption, AnswerFacts DEF TypeOK, Notifications
<1>r. \A c \in Calls : RequestOf[c] \in RequestIds
  OBVIOUS
\* What Reply and Goto do to their two variables.
<1>a. ASSUME NEW c \in Calls, NEW a \in Answers, Reply(c, a)
      PROVE  phase' \in [Calls -> {"idle", "validating", "creating", "publishing", "answered"}]
             /\ answer' \in [Calls -> Answers]
  BY <1>a DEF Reply
<1>g. ASSUME NEW c \in Calls, NEW there \in {"validating", "creating", "publishing"}, Goto(c, there)
      PROVE  phase' \in [Calls -> {"idle", "validating", "creating", "publishing", "answered"}]
             /\ answer' \in [Calls -> Answers]
  BY <1>g DEF Goto
<1>1. ASSUME NEW c \in Calls, NEW i \in Instances, Arrive(c, i) PROVE TypeOK'
  <2> DEFINE cached == cache[i][RequestOf[c]]
  <2>1. cached # None => Ok(cached) \in Answers
    BY <1>r
  <2>2. at' \in [Calls -> Instances] /\ UNCHANGED <<row, sent, cache, aged, crashes>>
    BY <1>1 DEF Arrive
  <2>3. (cached # None /\ Reply(c, Ok(cached))) \/ Goto(c, "validating")
    BY <1>1 DEF Arrive
  <2> HIDE DEF cached
  <2> QED
    BY <1>a, <1>g, <2>1, <2>2, <2>3
<1>2. ASSUME NEW c \in Calls, Validate(c) \/ Refuse(c) PROVE TypeOK'
  BY <1>2 DEF Validate, Refuse, Reply, Goto
<1>3. ASSUME NEW c \in Calls, Create(c) \/ CreateFails(c) PROVE TypeOK'
  <2>1. row' \in [RequestIds -> Notifications]
    BY <1>3 DEF Create, CreateFails
  <2>2. Reply(c, Failed("error")) \/ Goto(c, "publishing")
    BY <1>3 DEF Create, CreateFails
  <2> QED
    BY <1>3, <1>a, <1>g, <2>1, <2>2 DEF Create, CreateFails
<1>4. ASSUME NEW c \in Calls, BrokerAccepts(c) \/ PublishFails(c) PROVE TypeOK'
  <2>1. CASE BrokerAccepts(c)
    BY <2>1 DEF BrokerAccepts
  <2>2. CASE PublishFails(c)
    BY <1>a, <2>2 DEF PublishFails
  <2> QED
    BY <1>4, <2>1, <2>2
<1>5. ASSUME NEW c \in Calls, Confirmed(c) PROVE TypeOK'
  <2>1. at[c] \in Instances /\ RequestOf[c] \in RequestIds
    BY <1>r
  <2>2. cache' \in [Instances -> [RequestIds -> Notifications]]
    <3> DEFINE map == [q \in RequestIds |->
                          IF q = RequestOf[c] THEN c
                          ELSE IF q \in aged[at[c]] THEN None ELSE cache[at[c]][q]]
    <3>1. cache' = [cache EXCEPT ![at[c]] = map] \/ UNCHANGED cache
      BY <1>5 DEF Confirmed
    <3>2. map \in [RequestIds -> Notifications]
      BY <2>1
    <3> HIDE DEF map
    <3> QED
      BY <2>1, <3>1, <3>2
  <2>3. aged' \in [Instances -> SUBSET RequestIds]
    BY <1>5, <2>1 DEF Confirmed
  <2>4. Reply(c, Ok(c)) /\ UNCHANGED <<at, row, sent, crashes>>
    BY <1>5 DEF Confirmed
  <2> QED
    BY <1>a, <2>2, <2>3, <2>4
<1>6. ASSUME NEW i \in Instances, NEW r \in RequestIds, Age(i, r) PROVE TypeOK'
  BY <1>6 DEF Age
<1>7. ASSUME NEW i \in Instances, Crash(i) PROVE TypeOK'
  BY <1>7 DEF Crash
<1>8. CASE UNCHANGED vars
  BY <1>8 DEF vars
<1> QED
  BY <1>1, <1>2, <1>3, <1>4, <1>5, <1>6, <1>7, <1>8 DEF Next

\* A step that leaves rows, counts and maps alone, starts no publish and
\* answers at most with what a map holds.
LEMMA QuietStep ==
    ASSUME IInv, TypeOK', UNCHANGED <<row, sent>>,
           \A i \in Instances, r \in RequestIds : cache'[i][r] \in {cache[i][r], None},
           \A c \in Calls : phase'[c] = "publishing" => phase[c] = "publishing",
           \A c \in Calls :
              \/ answer'[c] = answer[c]
              \/ answer'[c].status # "ok"
              \/ \E i \in Instances : /\ cache[i][RequestOf[c]] # None
                                      /\ answer'[c] = Ok(cache[i][RequestOf[c]])
    PROVE  IInv'
<1> USE CallsAssumption DEF IInv, RowAnchors
<1>1. QueuedHasRow'
  BY DEF QueuedHasRow
<1>2. \A c \in Calls : phase'[c] = "publishing" => row'[RequestOf[c]] = c
  OBVIOUS
<1>3. \A i \in Instances, r \in RequestIds :
         cache'[i][r] # None => cache'[i][r] = row'[r] /\ sent'[row'[r]] > 0
  OBVIOUS
<1>4. ASSUME NEW c \in Calls, answer'[c].status = "ok"
      PROVE  /\ answer'[c].id = row'[RequestOf[c]]
             /\ answer'[c].id \in Calls /\ sent'[answer'[c].id] > 0
  <2>1. CASE answer'[c] = answer[c]
    BY <1>4, <2>1
  <2>2. ASSUME NEW i \in Instances, cache[i][RequestOf[c]] # None,
               answer'[c] = Ok(cache[i][RequestOf[c]])
        PROVE  /\ answer'[c].id = row'[RequestOf[c]]
               /\ answer'[c].id \in Calls /\ sent'[answer'[c].id] > 0
    <3>1. RequestOf[c] \in RequestIds /\ cache[i][RequestOf[c]] \in Calls
      BY <2>2 DEF TypeOK, Notifications
    <3> QED
      BY <2>2, <3>1, AnswerFacts
  <2> QED
    BY <1>4, <2>1, <2>2
<1> QED
  BY <1>1, <1>2, <1>3, <1>4

LEMMA IInvNext == IInv /\ [Next]_vars => IInv'
<1> SUFFICES ASSUME IInv, [Next]_vars PROVE IInv'
  OBVIOUS
<1> USE CallsAssumption
<1>t. TypeOK /\ TypeOK'
  BY TypeOKNext DEF IInv
<1>r. \A c \in Calls : RequestOf[c] \in RequestIds
  OBVIOUS
<1>1. ASSUME NEW c \in Calls, NEW i \in Instances, Arrive(c, i) PROVE IInv'
  <2>1. UNCHANGED <<row, sent, cache>>
    BY <1>1 DEF Arrive
  <2>2. \A e \in Calls : phase'[e] = "publishing" => phase[e] = "publishing"
    BY <1>1, <1>t DEF Arrive, Reply, Goto, TypeOK
  <2>3. \A e \in Calls :
           \/ answer'[e] = answer[e]
           \/ e = c /\ cache[i][RequestOf[e]] # None /\ answer'[e] = Ok(cache[i][RequestOf[e]])
    BY <1>1, <1>t DEF Arrive, Reply, Goto, TypeOK
  <2> QED
    BY <1>t, <2>1, <2>2, <2>3, QuietStep
<1>2. ASSUME NEW c \in Calls, Validate(c) \/ Refuse(c) \/ PublishFails(c) PROVE IInv'
  <2>1. UNCHANGED <<row, sent, cache>>
    BY <1>2 DEF Validate, Refuse, PublishFails
  <2>2. \A e \in Calls : phase'[e] = "publishing" => phase[e] = "publishing"
    BY <1>2, <1>t DEF Validate, Refuse, PublishFails, Reply, Goto, TypeOK
  <2>3. \A e \in Calls : answer'[e] = answer[e] \/ answer'[e].status # "ok"
    BY <1>2, <1>t, AnswerFacts DEF Validate, Refuse, PublishFails, Reply, Goto, TypeOK
  <2> QED
    BY <1>t, <2>1, <2>2, <2>3, QuietStep
\* A row is written only where there was none.
<1>3. ASSUME NEW c \in Calls, Create(c) \/ CreateFails(c) PROVE IInv'
  <2>1. UNCHANGED <<sent, cache>>
    BY <1>3 DEF Create, CreateFails
  <2>2. \A r \in RequestIds : row[r] # None => row'[r] = row[r]
    BY <1>3, <1>t, <1>r DEF Create, CreateFails, TypeOK
  <2>3. \A e \in Calls : phase'[e] = "publishing" =>
           phase[e] = "publishing" \/ (e = c /\ row'[RequestOf[c]] = c)
    BY <1>3, <1>t, <1>r DEF Create, CreateFails, Reply, Goto, TypeOK
  <2>4. \A e \in Calls : answer'[e] = answer[e] \/ answer'[e].status # "ok"
    BY <1>3, <1>t, AnswerFacts DEF Create, CreateFails, Reply, Goto, TypeOK
  <2>5. \A e \in Calls : phase'[e] = "publishing" => row'[RequestOf[e]] = e
    BY <1>r, <2>2, <2>3 DEF IInv, RowAnchors
  <2>6. QueuedHasRow'
    BY <1>r, <2>1, <2>2 DEF IInv, RowAnchors, QueuedHasRow
  <2>7. \A i \in Instances, r \in RequestIds :
           cache'[i][r] # None => cache'[i][r] = row'[r] /\ sent'[row'[r]] > 0
    BY <2>1, <2>2 DEF IInv, RowAnchors
  <2>8. \A e \in Calls : answer'[e].status = "ok" =>
           /\ answer'[e].id = row'[RequestOf[e]]
           /\ answer'[e].id \in Calls /\ sent'[answer'[e].id] > 0
    BY <1>r, <2>1, <2>2, <2>4 DEF IInv, RowAnchors
  <2> QED
    BY <1>t, <2>5, <2>6, <2>7, <2>8 DEF IInv, RowAnchors
<1>4. ASSUME NEW c \in Calls, BrokerAccepts(c) PROVE IInv'
  <2>1. /\ phase[c] = "publishing" /\ sent' = [sent EXCEPT ![c] = @ + 1]
        /\ UNCHANGED <<phase, answer, row, cache>>
    BY <1>4 DEF BrokerAccepts
  <2>2. \A n \in Calls : sent[n] > 0 => sent'[n] > 0
    BY <1>t, <2>1 DEF TypeOK
  <2>3. QueuedHasRow'
    BY <1>t, <2>1 DEF IInv, RowAnchors, QueuedHasRow, TypeOK
  <2>4. \A i \in Instances, r \in RequestIds :
           cache'[i][r] # None => cache'[i][r] = row'[r] /\ sent'[row'[r]] > 0
    <3> SUFFICES ASSUME NEW i \in Instances, NEW r \in RequestIds, cache[i][r] # None
                 PROVE  cache[i][r] = row[r] /\ sent'[row[r]] > 0
      BY <2>1
    <3>1. cache[i][r] \in Calls
      BY <1>t DEF TypeOK, Notifications
    <3> QED
      BY <2>2, <3>1 DEF IInv, RowAnchors
  <2> QED
    BY <1>t, <2>1, <2>2, <2>3, <2>4 DEF IInv, RowAnchors
<1>5. ASSUME NEW c \in Calls, Confirmed(c) PROVE IInv'
  <2>1. /\ phase[c] = "publishing" /\ sent[c] > 0 /\ Reply(c, Ok(c))
        /\ UNCHANGED <<row, sent>>
    BY <1>5 DEF Confirmed
  <2>2. row[RequestOf[c]] = c /\ at[c] \in Instances
    BY <1>t, <2>1 DEF IInv, RowAnchors, TypeOK
  <2>3. \A i \in Instances, r \in RequestIds :
           \/ cache'[i][r] \in {cache[i][r], None}
           \/ r = RequestOf[c] /\ cache'[i][r] = c
    <3> DEFINE map == [q \in RequestIds |->
                          IF q = RequestOf[c] THEN c
                          ELSE IF q \in aged[at[c]] THEN None ELSE cache[at[c]][q]]
    <3>1. cache' = [cache EXCEPT ![at[c]] = map] \/ UNCHANGED cache
      BY <1>5 DEF Confirmed
    <3>2. \A r \in RequestIds :
             map[r] \in {cache[at[c]][r], None} \/ (r = RequestOf[c] /\ map[r] = c)
      OBVIOUS
    <3> HIDE DEF map
    <3> QED
      BY <1>t, <2>2, <3>1, <3>2 DEF TypeOK
  <2>4. \A i \in Instances, r \in RequestIds :
           cache'[i][r] # None => cache'[i][r] = row'[r] /\ sent'[row'[r]] > 0
    BY <2>1, <2>2, <2>3 DEF IInv, RowAnchors
  <2>5. \A e \in Calls : answer'[e] = IF e = c THEN Ok(c) ELSE answer[e]
    BY <1>t, <2>1 DEF Reply, TypeOK
  <2>6. \A e \in Calls : phase'[e] = "publishing" => phase[e] = "publishing"
    BY <1>t, <2>1 DEF Reply, TypeOK
  <2>7. \A e \in Calls : answer'[e].status = "ok" =>
           /\ answer'[e].id = row'[RequestOf[e]]
           /\ answer'[e].id \in Calls /\ sent'[answer'[e].id] > 0
    BY <2>1, <2>2, <2>5, AnswerFacts DEF IInv, RowAnchors
  <2>8. QueuedHasRow'
    BY <2>1 DEF IInv, RowAnchors, QueuedHasRow
  <2> QED
    BY <1>t, <2>1, <2>4, <2>6, <2>7, <2>8 DEF IInv, RowAnchors
<1>6. ASSUME NEW i \in Instances, NEW r \in RequestIds, Age(i, r) PROVE IInv'
  BY <1>6, <1>t, QuietStep DEF Age
<1>7. ASSUME NEW i \in Instances, Crash(i) PROVE IInv'
  <2>1. UNCHANGED <<row, sent>> /\ cache' = [cache EXCEPT ![i] = [r \in RequestIds |-> None]]
    BY <1>7 DEF Crash
  <2>2. \A j \in Instances, r \in RequestIds : cache'[j][r] \in {cache[j][r], None}
    BY <1>t, <2>1 DEF TypeOK
  <2>3. \A e \in Calls : phase'[e] = "publishing" => phase[e] = "publishing"
    BY <1>7 DEF Crash
  <2>4. \A e \in Calls : answer'[e] = answer[e] \/ answer'[e].status # "ok"
    BY <1>7, AnswerFacts DEF Crash
  <2> QED
    BY <1>t, <2>1, <2>2, <2>3, <2>4, QuietStep
<1>8. CASE UNCHANGED vars
  BY <1>8, <1>t, QuietStep DEF vars
<1> QED
  BY <1>1, <1>2, <1>3, <1>4, <1>5, <1>6, <1>7, <1>8 DEF Next

LEMMA InitIInv == Init => IInv
<1> SUFFICES ASSUME Init PROVE IInv
  OBVIOUS
<1>1. TypeOK
  BY CallsAssumption, AnswerFacts DEF Init, TypeOK, Notifications
<1>2. RowAnchors
  BY AnswerFacts DEF Init, RowAnchors, QueuedHasRow
<1> QED
  BY <1>1, <1>2 DEF IInv

-------------------------------------------------------------------------------
(* Theorems *)

THEOREM Invariance == Spec => []IInv
<1> QED
  BY InitIInv, IInvNext, PTL DEF Spec

\* The model is type correct for every instance.
THEOREM TypeCorrect == Spec => []TypeOK
<1>1. IInv => TypeOK
  BY DEF IInv
<1> QED
  BY <1>1, Invariance, PTL

\* createNotification with any number of gateway processes: all successful
\* answers to one request_id name the same notification.
THEOREM OneAnswer == Spec => []OneAnswerPerRequest
<1>1. IInv => OneAnswerPerRequest
  BY DEF IInv, RowAnchors, OneAnswerPerRequest
<1> QED
  BY <1>1, Invariance, PTL

\* A successful answer, from the database or from a map, names a
\* notification the broker accepted.
THEOREM AnsweredIsQueued == Spec => []OkMeansQueued
<1>1. IInv => OkMeansQueued
  BY DEF IInv, RowAnchors, OkMeansQueued
<1> QED
  BY <1>1, Invariance, PTL

\* Only the notification in the row of a request_id is ever queued for it.
THEOREM OneQueued == Spec => []QueuedHasRow
<1>1. IInv => QueuedHasRow
  BY DEF IInv, RowAnchors
<1> QED
  BY <1>1, Invariance, PTL
-------------------------------------------------------------------------------
(* Refinement of IntakeContract, and notifications left behind *)

\* The notifications the broker has accepted, and what clients were told.
Queued == {c \in Calls : sent[c] > 0}
Told   == {<<RequestOf[c], answer[c].id>> : c \in {d \in Calls : answer[d].status = "ok"}}

\* A call has no answer before its end, and a row belongs to its request.
EndsAndRows ==
    /\ \A c \in Calls : phase[c] # "answered" => answer[c] = NoAnswer
    /\ \A r \in RequestIds : row[r] # None => row[r] \in Calls /\ RequestOf[row[r]] = r

\* A stored row stays, and is made by a call that carries its request.
RowsStay ==
    \A r \in RequestIds :
        \/ row'[r] = row[r]
        \/ row[r] = None /\ row'[r] \in Calls /\ RequestOf[row'[r]] = r

LEMMA RowsStayNext == IInv /\ [Next]_vars => RowsStay
<1> SUFFICES ASSUME IInv, [Next]_vars PROVE RowsStay
  OBVIOUS
<1>1. ASSUME NEW c \in Calls, Create(c) \/ CreateFails(c) PROVE RowsStay
  <2>1. UNCHANGED row \/ (row[RequestOf[c]] = None /\ row' = [row EXCEPT ![RequestOf[c]] = c])
    BY <1>1 DEF Create, CreateFails
  <2> QED
    BY <2>1, CallsAssumption DEF RowsStay, IInv, TypeOK
<1>2. CASE UNCHANGED row
  BY <1>2 DEF RowsStay
<1> QED
  BY <1>1, <1>2
     DEF Next, vars, Arrive, Validate, Refuse, BrokerAccepts, Confirmed, PublishFails, Age, Crash

\* What a step does to the phase and the answer of a call: nothing, a move
\* of a call under way, or its end.
LEMMA AnswerStep ==
    ASSUME IInv, [Next]_vars, NEW c \in Calls
    PROVE  \/ phase'[c] = phase[c] /\ answer'[c] = answer[c]
           \/ phase[c] # "answered" /\ phase'[c] # "answered" /\ answer'[c] = answer[c]
           \/ phase[c] # "answered" /\ phase'[c] = "answered"
<1>t. phase \in [Calls -> {"idle", "validating", "creating", "publishing", "answered"}]
      /\ answer \in [Calls -> Answers]
  BY DEF IInv, TypeOK
<1> DEFINE Good == \/ phase'[c] = phase[c] /\ answer'[c] = answer[c]
                   \/ phase[c] # "answered" /\ phase'[c] # "answered" /\ answer'[c] = answer[c]
                   \/ phase[c] # "answered" /\ phase'[c] = "answered"
<1>1. ASSUME NEW d \in Calls, NEW a, phase[d] # "answered", Reply(d, a) PROVE Good
  BY <1>t, <1>1 DEF Reply
<1>2. ASSUME NEW d \in Calls, NEW there \in {"validating", "creating", "publishing"},
             phase[d] # "answered", Goto(d, there)
      PROVE  Good
  BY <1>t, <1>2 DEF Goto
<1>3. ASSUME UNCHANGED <<phase, answer>> PROVE Good
  BY <1>3
<1>4. ASSUME NEW i \in Instances, Crash(i) PROVE Good
  BY <1>4 DEF Crash
<1> HIDE DEF Good
<1>5. ASSUME NEW d \in Calls, NEW i \in Instances, Arrive(d, i) PROVE Good
  BY <1>1, <1>2, <1>5 DEF Arrive
<1>6. ASSUME NEW d \in Calls,
             Validate(d) \/ Refuse(d) \/ Create(d) \/ CreateFails(d) \/ Confirmed(d) \/ PublishFails(d)
      PROVE  Good
  BY <1>1, <1>2, <1>6 DEF Validate, Refuse, Create, CreateFails, Confirmed, PublishFails
<1>7. ASSUME NEW d \in Calls, BrokerAccepts(d) PROVE Good
  BY <1>3, <1>7 DEF BrokerAccepts
<1>8. ASSUME NEW i \in Instances, NEW r \in RequestIds, Age(i, r) PROVE Good
  BY <1>3, <1>8 DEF Age
<1>9. ASSUME UNCHANGED vars PROVE Good
  BY <1>3, <1>9 DEF vars
<1>10. Good
  BY <1>4, <1>5, <1>6, <1>7, <1>8, <1>9 DEF Next
<1> QED
  BY <1>10 DEF Good

LEMMA EndsAndRowsNext == IInv /\ EndsAndRows /\ [Next]_vars => EndsAndRows'
<1> SUFFICES ASSUME IInv, EndsAndRows, [Next]_vars PROVE EndsAndRows'
  OBVIOUS
<1>1. \A c \in Calls : phase'[c] # "answered" => answer'[c] = NoAnswer
  BY AnswerStep DEF EndsAndRows
<1>2. \A r \in RequestIds : row'[r] # None => row'[r] \in Calls /\ RequestOf[row'[r]] = r
  BY RowsStayNext DEF EndsAndRows, RowsStay
<1> QED
  BY <1>1, <1>2 DEF EndsAndRows

\* An error tells a client nothing.
LEMMA Untold ==
    ASSUME EndsAndRows,
           \A c \in Calls : \/ answer'[c] = answer[c]
                            \/ phase[c] # "answered" /\ answer'[c].status # "ok"
    PROVE  UNCHANGED Told
<1>1. \A c \in Calls :
         \/ answer'[c] = answer[c]
         \/ answer[c].status # "ok" /\ answer'[c].status # "ok"
  BY AnswerFacts DEF EndsAndRows
<1> QED
  BY <1>1 DEF Told

\* A success answer tells one client of one notification.
LEMMA Telling ==
    ASSUME IInv, EndsAndRows, NEW c \in Calls, NEW n \in Calls,
           phase[c] # "answered", Reply(c, Ok(n))
    PROVE  Told' = Told \cup {<<RequestOf[c], n>>}
<1>1. answer[c].status # "ok" /\ Ok(n).status = "ok" /\ Ok(n).id = n
  BY AnswerFacts DEF EndsAndRows
<1>2. \A d \in Calls : answer'[d] = IF d = c THEN Ok(n) ELSE answer[d]
  BY DEF Reply, IInv, TypeOK
<1> QED
  BY <1>1, <1>2 DEF Told

\* A map or a confirmed publish only reports what the contract lets it.
LEMMA TellStep ==
    ASSUME IInv, EndsAndRows, NEW c \in Calls, NEW n \in Calls,
           row[RequestOf[c]] = n, sent[n] > 0,
           phase[c] # "answered", Reply(c, Ok(n)), UNCHANGED <<row, sent>>
    PROVE  Contract!Tell(n)
<1>1. RequestOf[c] \in RequestIds /\ n # None
  BY CallsAssumption
<1>2. RequestOf[n] = RequestOf[c]
  BY <1>1 DEF EndsAndRows
<1>3. Told' = Told \cup {<<RequestOf[n], n>>}
  BY <1>2, Telling
<1> QED
  BY <1>2, <1>3 DEF Contract!Tell, Told

LEMMA ContractNext == IInv /\ EndsAndRows /\ [Next]_vars => [Contract!INext]_Contract!ivars
<1> SUFFICES ASSUME IInv, EndsAndRows, [Next]_vars PROVE [Contract!INext]_Contract!ivars
  OBVIOUS
<1> USE CallsAssumption
<1>t. /\ phase \in [Calls -> {"idle", "validating", "creating", "publishing", "answered"}]
      /\ answer \in [Calls -> Answers] /\ sent \in [Calls -> Nat]
      /\ row \in [RequestIds -> Notifications]
  BY DEF IInv, TypeOK
<1>r. \A c \in Calls : RequestOf[c] \in RequestIds
  OBVIOUS
<1>s. ASSUME UNCHANGED <<row, sent, Told>> PROVE UNCHANGED Contract!ivars
  BY <1>s DEF Contract!ivars, Told
\* Replies without success.
<1>e. ASSUME NEW c \in Calls, NEW a, a.status # "ok", phase[c] # "answered", Reply(c, a)
      PROVE  UNCHANGED Told
  <2>1. \A d \in Calls : answer'[d] = IF d = c THEN a ELSE answer[d]
    BY <1>t, <1>e DEF Reply
  <2> QED
    BY <1>e, <2>1, Untold
<1>g. ASSUME UNCHANGED answer PROVE UNCHANGED Told
  BY <1>g, Untold
<1>1. ASSUME NEW c \in Calls, NEW i \in Instances, Arrive(c, i)
      PROVE  [Contract!INext]_Contract!ivars
  <2>1. CASE cache[i][RequestOf[c]] # None
    <3>1. PICK n \in Calls :
             /\ cache[i][RequestOf[c]] = n /\ row[RequestOf[c]] = n /\ sent[n] > 0
      BY <1>r, <2>1 DEF IInv, TypeOK, Notifications, RowAnchors
    <3>2. phase[c] # "answered" /\ Reply(c, Ok(n)) /\ UNCHANGED <<row, sent>>
      BY <1>1, <2>1, <3>1 DEF Arrive
    <3>3. Contract!Tell(n)
      BY <3>1, <3>2, TellStep
    <3> QED
      BY <3>3 DEF Contract!INext
  <2>2. CASE cache[i][RequestOf[c]] = None
    BY <1>1, <1>g, <1>s, <2>2 DEF Arrive, Goto
  <2> QED
    BY <2>1, <2>2
<1>2. ASSUME NEW c \in Calls, Validate(c) \/ Refuse(c) \/ PublishFails(c)
      PROVE  UNCHANGED Contract!ivars
  <2>1. UNCHANGED Told
    BY <1>2, <1>e, <1>g, AnswerFacts DEF Validate, Refuse, PublishFails, Goto
  <2> QED
    BY <1>2, <1>s, <2>1 DEF Validate, Refuse, PublishFails
<1>3. ASSUME NEW c \in Calls, Create(c) \/ CreateFails(c)
      PROVE  Contract!Store(c) \/ UNCHANGED Contract!ivars
  <2>1. UNCHANGED Told
    BY <1>3, <1>e, <1>g, AnswerFacts DEF Create, CreateFails, Goto
  <2>2. UNCHANGED sent
    BY <1>3 DEF Create, CreateFails
  <2>3. CASE UNCHANGED row
    BY <1>s, <2>1, <2>2, <2>3
  <2>4. CASE row[RequestOf[c]] = None /\ row' = [row EXCEPT ![RequestOf[c]] = c]
    BY <2>1, <2>2, <2>4 DEF Contract!Store, Told
  <2> QED
    BY <1>3, <2>3, <2>4 DEF Create, CreateFails
<1>4. ASSUME NEW c \in Calls, BrokerAccepts(c) PROVE Contract!Enqueue(c)
  <2>1. row[RequestOf[c]] = c
    BY <1>4 DEF BrokerAccepts, IInv, RowAnchors
  <2>2. Queued' = Queued \cup {c}
    BY <1>4, <1>t DEF BrokerAccepts, Queued
  <2>3. UNCHANGED Told
    BY <1>4, <1>g DEF BrokerAccepts
  <2> QED
    BY <1>4, <2>1, <2>2, <2>3 DEF BrokerAccepts, Contract!Enqueue, Queued, Told
<1>5. ASSUME NEW c \in Calls, Confirmed(c) PROVE Contract!Tell(c)
  <2>1. /\ phase[c] = "publishing" /\ sent[c] > 0 /\ Reply(c, Ok(c))
        /\ UNCHANGED <<row, sent>>
    BY <1>5 DEF Confirmed
  <2>2. row[RequestOf[c]] = c
    BY <2>1 DEF IInv, RowAnchors
  <2> QED
    BY <2>1, <2>2, TellStep
<1>6. ASSUME NEW i \in Instances, Crash(i) PROVE UNCHANGED Contract!ivars
  <2>1. \A c \in Calls : \/ answer'[c] = answer[c]
                         \/ phase[c] # "answered" /\ answer'[c].status # "ok"
    BY <1>6, AnswerFacts DEF Crash
  <2> QED
    BY <1>6, <1>s, <2>1, Untold DEF Crash
<1>7. CASE UNCHANGED <<answer, row, sent>>
  BY <1>g, <1>s, <1>7
<1> QED
  BY <1>1, <1>2, <1>3, <1>4, <1>5, <1>6, <1>7 DEF Next, vars, Age, Contract!INext

LEMMA EndsAndRowsHold == Spec => []EndsAndRows
<1>1. Init => EndsAndRows
  BY DEF Init, EndsAndRows
<1> QED
  BY <1>1, EndsAndRowsNext, Invariance, PTL DEF Spec

\* Gateway processes, idempotency maps, crashes and repeated publishes
\* implement the contract: store once, queue that one, then report it.
THEOREM Refinement == Spec => ImplementsIntake
<1>1. Init => Contract!IInit
  <2> SUFFICES ASSUME Init PROVE Contract!IInit
    OBVIOUS
  <2>1. Queued = {} /\ Told = {}
    BY AnswerFacts DEF Init, Queued, Told
  <2> QED
    BY <2>1 DEF Init, Contract!IInit, Queued, Told
<1> QED
  BY <1>1, ContractNext, EndsAndRowsHold, Invariance, PTL
     DEF Spec, ImplementsIntake, Contract!ISpec

\* The row of r was stored, but its message never queued, and the call that
\* would have queued it has ended.
Orphan(r) == row[r] # None /\ phase[row[r]] = "answered" /\ sent[row[r]] = 0

LEMMA OrphanNext ==
    ASSUME IInv, EndsAndRows, [Next]_vars, NEW r \in RequestIds, Orphan(r)
    PROVE  Orphan(r)'
<1>1. row[r] \in Calls /\ row'[r] = row[r]
  BY RowsStayNext DEF RowsStay, EndsAndRows, Orphan
<1>2. phase'[row[r]] = "answered"
  BY <1>1, AnswerStep DEF Orphan
<1>3. sent'[row[r]] = sent[row[r]]
  <2>1. ASSUME NEW c \in Calls, BrokerAccepts(c) PROVE sent'[row[r]] = sent[row[r]]
    BY <1>1, <2>1 DEF BrokerAccepts, Orphan, IInv, TypeOK
  <2> QED
    BY <2>1 DEF Next, vars, Arrive, Validate, Refuse, Create, CreateFails, Confirmed,
                PublishFails, Age, Crash
<1> QED
  BY <1>1, <1>2, <1>3 DEF Orphan

\* createNotification 58-105: once the call that stored the row has failed to
\* publish, or died before it, nothing makes up for it.  No retry with the same
\* request_id, to whatever process, queues the notification or succeeds.
OrphanStays == \A r \in RequestIds : Orphan(r) => Orphan(r)'

OrphanNotServed ==
    \A c \in Calls : Orphan(RequestOf[c]) => answer[c].status # "ok"

THEOREM OrphanIsForever == Spec => [][OrphanStays]_vars /\ []OrphanNotServed
<1>1. IInv /\ EndsAndRows /\ [Next]_vars => OrphanStays
  BY OrphanNext DEF OrphanStays
<1>2. IInv => OrphanNotServed
  <2> SUFFICES ASSUME IInv, NEW c \in Calls, Orphan(RequestOf[c]), answer[c].status = "ok"
               PROVE  FALSE
    BY DEF OrphanNotServed
  <2>1. answer[c].id = row[RequestOf[c]] /\ sent[answer[c].id] > 0
    BY DEF IInv, RowAnchors
  <2> QED
    BY <2>1 DEF Orphan
<1> QED
  BY <1>1, <1>2, EndsAndRowsHold, Invariance, PTL DEF Spec
===============================================================================
