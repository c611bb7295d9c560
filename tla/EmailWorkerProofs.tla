-------------------------- MODULE EmailWorkerProofs --------------------------
(***************************************************************************)
(* Proofs about EmailWorker for every set of notifications, messages and   *)
(* workers and every number of retries and faults.  The copies of a        *)
(* notification are bounded by a budget: the copies sent, the workers that *)
(* may still send or give their message back, the messages that wait, and  *)
(* the first publication while it is to come add up to at most one more    *)
(* than the faults (CopiesBound).                                          *)
(***************************************************************************)
EXTENDS EmailWorker, FiniteSetTheorems, TLAPS

\* Worker w can still lead to another copy of n without a fault: by sending
\* it, or by giving its message back after a retriable error.
MaySend(w, n) ==
    /\ Busy(w)
    /\ NoteAt(w) = n
    /\ \/ job[w].step \in {"fetch", "render", "send"}
       \/ job[w].error = "retriable" /\ w \in holds

Senders(n) == {w \in Workers : MaySend(w, n)}

Waits(m, n) == NoteOf[m] = n /\ phase[m] = "waiting"

Waiting(n) == {m \in Msgs : Waits(m, n)}

Unpublished(n) == \A m \in Msgs : NoteOf[m] = n => phase[m] = "unsent"

One(b) == IF b THEN 1 ELSE 0

CopiesBound ==
    \A n \in Notes :
        mails[n] + Cardinality(Senders(n)) + Cardinality(Waiting(n)) + One(Unpublished(n))
            <= 1 + faults

\* A result without an error was sent, or there was nothing to send; a log
\* entry comes after the row.
JobFacts ==
    \A w \in Workers : Busy(w) =>
        /\ job[w].step \in {"fetch", "render", "send"} => job[w].error = "none"
        /\ job[w].step \in {"mark", "log"} /\ job[w].error = "none" => mails[NoteAt(w)] > 0
        /\ job[w].step = "finish" /\ job[w].error = "none" =>
              mails[NoteAt(w)] > 0 \/ NoteAt(w) \in Incomplete
        /\ job[w].step = "log" => status[NoteAt(w)] # "PENDING"

-------------------------------------------------------------------------------
(* What a step does to the job of its worker *)

\* A busy worker has a message, a step, a count and an error.
LEMMA BusyJob ==
    ASSUME job \in [Workers -> Jobs], NEW w \in Workers, Busy(w)
    PROVE  /\ job[w] \in [msg : Msgs, step : Steps, tries : 0..MaxRetries,
                          error : Errors \cup {"none"}]
           /\ job[w].msg \in Msgs /\ NoteAt(w) \in Notes
<1>1. job[w] \in [msg : Msgs, step : Steps, tries : 0..MaxRetries,
                  error : Errors \cup {"none"}]
  BY DEF Jobs, Idle, Busy, At
<1> QED
  BY <1>1, WorkerAssumption DEF NoteAt

\* Goto moves one worker to another step and keeps the rest of its job.
LEMMA GotoJob ==
    ASSUME job \in [Workers -> Jobs], NEW w \in Workers, Busy(w),
           NEW step \in Steps, Goto(w, step)
    PROVE  /\ job' \in [Workers -> Jobs]
           /\ job'[w] = [job[w] EXCEPT !.step = step]
           /\ job'[w].step = step /\ job'[w].msg = job[w].msg /\ NoteAt(w)' = NoteAt(w)
           /\ job'[w].error = job[w].error
           /\ \A v \in Workers : v # w => job'[v] = job[v]
<1>1. job[w] \in [msg : Msgs, step : Steps, tries : 0..MaxRetries,
                  error : Errors \cup {"none"}]
  BY BusyJob
<1>2. [job[w] EXCEPT !.step = step] \in Jobs
  BY <1>1 DEF Jobs
<1>3. job' = [job EXCEPT ![w] = [job[w] EXCEPT !.step = step]]
  BY DEF Goto
<1> QED
  BY <1>1, <1>2, <1>3 DEF NoteAt

\* Fail also sets the error.
LEMMA FailJob ==
    ASSUME job \in [Workers -> Jobs], NEW w \in Workers, Busy(w),
           NEW step \in Steps, NEW err \in Errors, Fail(w, step, err)
    PROVE  /\ job' \in [Workers -> Jobs]
           /\ job'[w].step = step /\ job'[w].msg = job[w].msg /\ NoteAt(w)' = NoteAt(w)
           /\ job'[w].error = err
           /\ \A v \in Workers : v # w => job'[v] = job[v]
<1>1. job[w] \in [msg : Msgs, step : Steps, tries : 0..MaxRetries,
                  error : Errors \cup {"none"}]
  BY BusyJob
<1> DEFINE failed == [job[w] EXCEPT !.step = step, !.error = err]
<1>2. failed \in Jobs
  BY <1>1 DEF Jobs
<1>3. job' = [job EXCEPT ![w] = failed]
  BY DEF Fail
<1> QED
  BY <1>1, <1>2, <1>3 DEF NoteAt

\* An error of the SMTP call is tried again or ends the sending.
LEMMA SendErrorJob ==
    ASSUME job \in [Workers -> Jobs], NEW w \in Workers, At(w, "send"),
           NEW err \in Errors, SendError(w, err)
    PROVE  /\ job' \in [Workers -> Jobs]
           /\ job'[w].msg = job[w].msg /\ NoteAt(w)' = NoteAt(w)
           /\ \/ job'[w].step = "send" /\ job'[w].error = job[w].error
              \/ job'[w].step = "mark" /\ job'[w].error = err
           /\ \A v \in Workers : v # w => job'[v] = job[v]
<1>0. Busy(w) /\ "mark" \in Steps
  BY DEF Busy, At, Steps
<1>1. job[w] \in [msg : Msgs, step : Steps, tries : 0..MaxRetries,
                  error : Errors \cup {"none"}]
  BY <1>0, BusyJob
<1>2. CASE job[w].tries < MaxRetries
  <2> DEFINE again == [job[w] EXCEPT !.tries = @ + 1]
  <2>1. job[w].tries + 1 \in 0..MaxRetries
    BY <1>1, <1>2, WorkerAssumption
  <2>2. again \in Jobs
    BY <1>1, <2>1 DEF Jobs
  <2>3. job' = [job EXCEPT ![w] = again]
    BY <1>2 DEF SendError
  <2>4. again.step = "send" /\ again.msg = job[w].msg /\ again.error = job[w].error
    BY <1>1 DEF At
  <2> HIDE DEF again
  <2> QED
    BY <2>2, <2>3, <2>4 DEF NoteAt
<1>3. CASE ~(job[w].tries < MaxRetries)
  <2>1. Fail(w, "mark", err)
    BY <1>3 DEF SendError
  <2> QED
    BY <1>0, <2>1, FailJob
<1> QED
  BY <1>2, <1>3

\* GoIdle ends the job and the hold on the delivery.
LEMMA IdleJob ==
    ASSUME job \in [Workers -> Jobs], NEW w \in Workers, GoIdle(w)
    PROVE  /\ job' \in [Workers -> Jobs]
           /\ job'[w].step = "idle"
           /\ \A v \in Workers : v # w => job'[v] = job[v]
           /\ holds' = holds \ {w}
BY DEF GoIdle, Jobs, Idle

-------------------------------------------------------------------------------
(* Types *)

\* What the queue's actions do to the phases.
LEMMA QueueTypes ==
    ASSUME phase \in [Msgs -> Queue!Phases], processed \subseteq Msgs,
           \/ \E m \in Msgs : Queue!Send(m) \/ Queue!Take(m) \/ Queue!Complete(m) \/ Queue!Discard(m)
           \/ \E S \in SUBSET Msgs : Queue!GiveBack(S)
    PROVE  phase' \in [Msgs -> Queue!Phases] /\ processed' \subseteq Msgs
BY DEF Queue!Send, Queue!Take, Queue!Complete, Queue!Discard, Queue!GiveBack, Queue!Move, Queue!Phases

LEMMA TypeOKNext == TypeOK /\ [Next]_vars => TypeOK'
<1> SUFFICES ASSUME TypeOK, [Next]_vars PROVE TypeOK'
  OBVIOUS
<1> USE DEF TypeOK, Busy, At, history, dbVars, queueVars
<1>s. Steps = {"fetch", "render", "send", "mark", "log", "finish"}
  BY DEF Steps
<1>b. \A w \in Workers : Busy(w) =>
         /\ job[w].msg \in Msgs /\ NoteAt(w) \in Notes
         /\ Outcome(job[w]) \in {"DELIVERED", "FAILED"}
  BY BusyJob DEF Outcome
\* The workers that hold a delivery stay busy if w does or gives it up.
<1>h. ASSUME NEW w \in Workers, \A v \in Workers : v # w => job'[v] = job[v],
             \/ job'[w].step # "idle" /\ holds' \subseteq holds \cup {w}
             \/ holds' \subseteq holds \ {w}
      PROVE  holds' \subseteq {v \in Workers : Busy(v)'}
  BY <1>h
<1>1. ASSUME NEW m \in Msgs, Arrive(m) \/ Expire(m) PROVE TypeOK'
  <2>1. phase' \in [Msgs -> Queue!Phases] /\ processed' \subseteq Msgs
    BY <1>1, QueueTypes DEF Arrive, Expire
  <2>2. faults' \in Nat
    BY <1>1 DEF Arrive, Expire, Fault
  <2> QED
    BY <1>1, <2>1, <2>2 DEF Arrive, Expire
<1>2. ASSUME NEW w \in Workers, NEW m \in Msgs, Start(w, m) PROVE TypeOK'
  <2> DEFINE begun == [msg |-> m, tries |-> 0, error |-> "none",
                       step |-> IF NoteOf[m] \in Incomplete THEN "finish" ELSE "fetch"]
  <2>1. phase' \in [Msgs -> Queue!Phases] /\ processed' \subseteq Msgs
    BY <1>2, QueueTypes DEF Start
  <2>2. begun \in Jobs /\ begun.step # "idle"
    BY WorkerAssumption, <1>s DEF Jobs
  <2>3. job' = [job EXCEPT ![w] = begun]
    BY <1>2 DEF Start
  <2> HIDE DEF begun
  <2>4. job' \in [Workers -> Jobs] /\ job'[w].step # "idle"
    BY <2>2, <2>3
  <2>5. holds' \subseteq {v \in Workers : Busy(v)'}
    BY <1>2, <1>h, <2>3, <2>4 DEF Start
  <2> QED
    BY <1>2, <2>1, <2>4, <2>5 DEF Start
\* A step within a job leaves the queue alone.
<1>m. ASSUME NEW w \in Workers, Busy(w), job' \in [Workers -> Jobs],
             \A v \in Workers : v # w => job'[v] = job[v],
             job'[w].step # "idle", UNCHANGED <<queueVars, holds>>,
             status' = status \/ SetStatus(w), logged' = logged \/ Log(w),
             mails' = mails \/ MailAccepted(w), gaveUp' = gaveUp,
             lostUpdates' = lostUpdates \/ lostUpdates' = lostUpdates \cup {NoteAt(w)},
             faults' = faults \/ Fault
      PROVE  TypeOK'
  <2>1. holds' \subseteq {v \in Workers : Busy(v)'}
    BY <1>m, <1>h
  <2>2. status' \in [Notes -> {"PENDING", "DELIVERED", "FAILED"}]
    BY <1>m, <1>b DEF SetStatus
  <2>3. logged' \in [Notes -> SUBSET {"DELIVERED", "FAILED"}]
    BY <1>m, <1>b DEF Log
  <2>4. mails' \in [Notes -> Nat] /\ faults' \in Nat /\ lostUpdates' \subseteq Notes
    BY <1>m, <1>b DEF MailAccepted, Fault
  <2> QED
    BY <1>m, <2>1, <2>2, <2>3, <2>4
<1>3. ASSUME NEW w \in Workers, Fetch(w) \/ Render(w) PROVE TypeOK'
  <2>1. PICK next \in {"render", "send"} :
           Goto(w, next) \/ \E err \in Errors : Fail(w, "mark", err)
    BY <1>3 DEF Fetch, Render, Prepare
  <2>2. Busy(w)
    BY <1>3 DEF Fetch, Render, Prepare
  <2>3. /\ job' \in [Workers -> Jobs] /\ job'[w].step # "idle"
        /\ \A v \in Workers : v # w => job'[v] = job[v]
    <3>1. CASE Goto(w, next)
      BY <2>2, <3>1, <1>s, GotoJob
    <3>2. CASE \E err \in Errors : Fail(w, "mark", err)
      BY <2>2, <3>2, <1>s, FailJob
    <3> QED
      BY <2>1, <3>1, <3>2
  <2> QED
    BY <1>3, <1>m, <2>2, <2>3 DEF Fetch, Render, Prepare
<1>4. ASSUME NEW w \in Workers, SendOk(w) \/ MarkOk(w) \/ MarkFails(w) \/ Log(w) PROVE TypeOK'
  <2>1. Busy(w)
    BY <1>4 DEF SendOk, MarkOk, MarkFails, Log
  <2>2. Goto(w, "mark") \/ Goto(w, "log") \/ Goto(w, "finish")
    BY <1>4 DEF SendOk, MarkOk, MarkFails, Log
  <2>3. /\ job' \in [Workers -> Jobs] /\ job'[w].step # "idle"
        /\ \A v \in Workers : v # w => job'[v] = job[v]
    BY <2>1, <2>2, <1>s, GotoJob
  <2> QED
    BY <1>4, <1>m, <2>1, <2>3 DEF SendOk, MarkOk, MarkFails, Log
<1>5. ASSUME NEW w \in Workers, SendRefused(w) \/ SendReplyLost(w) PROVE TypeOK'
  <2>1. /\ job' \in [Workers -> Jobs] /\ job'[w].step # "idle"
        /\ \A v \in Workers : v # w => job'[v] = job[v]
    BY <1>5, SendErrorJob DEF SendRefused, SendReplyLost, Errors
  <2> QED
    BY <1>5, <1>m, <2>1 DEF SendRefused, SendReplyLost
<1>6. ASSUME NEW w \in Workers, Resolve(w) \/ Reject(w) \/ Crash(w) PROVE TypeOK'
  <2>1. Busy(w) /\ GoIdle(w)
    BY <1>6 DEF Resolve, Reject, Crash
  <2>2. phase' \in [Msgs -> Queue!Phases] /\ processed' \subseteq Msgs
    BY <1>6, <1>b, <2>1, QueueTypes DEF Resolve, Reject, Crash
  <2>3. job' \in [Workers -> Jobs] /\ holds' \subseteq {v \in Workers : Busy(v)'}
    BY <2>1, IdleJob, <1>h
  <2>4. gaveUp' \subseteq Msgs /\ faults' \in Nat
    BY <1>6, <1>b, <2>1 DEF Resolve, Reject, Crash, GaveUp, Fault
  <2> QED
    BY <1>6, <2>2, <2>3, <2>4 DEF Resolve, Reject, Crash
<1>7. ASSUME NEW w \in Workers, LoseConnection(w) PROVE TypeOK'
  <2>1. phase' \in [Msgs -> Queue!Phases] /\ processed' \subseteq Msgs
    BY <1>7, <1>b, QueueTypes DEF LoseConnection
  <2> QED
    BY <1>7, <2>1 DEF LoseConnection, Fault
<1>8. CASE UNCHANGED vars
  BY <1>8 DEF vars
<1> QED
  BY <1>1, <1>2, <1>3, <1>4, <1>5, <1>6, <1>7, <1>8 DEF Next

-------------------------------------------------------------------------------
(* The budget of copies *)

\* Two sets that differ at most in x differ by at most one.
LEMMA CountOne ==
    ASSUME NEW X, IsFiniteSet(X), NEW S \in SUBSET X, NEW T \in SUBSET X, NEW x \in X,
           \A y \in X : y # x => (y \in S <=> y \in T)
    PROVE  /\ Cardinality(S) \in Nat /\ Cardinality(T) \in Nat
           /\ Cardinality(T) + One(x \in S) = Cardinality(S) + One(x \in T)
<1>1. IsFiniteSet(S) /\ IsFiniteSet(T)
  BY FS_Subset
<1>2. Cardinality(S) \in Nat /\ Cardinality(T) \in Nat
  BY <1>1, FS_CardinalityType
<1>3. CASE x \in S <=> x \in T
  <2>1. S = T
    BY <1>3
  <2> QED
    BY <1>2, <2>1
<1>4. CASE x \in S /\ x \notin T
  <2>1. T = S \ {x}
    BY <1>4
  <2> QED
    BY <1>1, <1>2, <1>4, <2>1, FS_RemoveElement DEF One
<1>5. CASE x \notin S /\ x \in T
  <2>1. T = S \cup {x}
    BY <1>5
  <2> QED
    BY <1>1, <1>2, <1>5, <2>1, FS_AddElement DEF One
<1> QED
  BY <1>3, <1>4, <1>5

\* The terms of the budget are numbers.
LEMMA BudgetTypes ==
    ASSUME NEW n \in Notes
    PROVE  /\ Cardinality(Senders(n)) \in Nat /\ Cardinality(Waiting(n)) \in Nat
           /\ One(Unpublished(n)) \in Nat
BY WorkerAssumption, FS_Subset, FS_CardinalityType DEF Senders, Waiting, One

\* When the phase of one message changes, so does the share of that message.
LEMMA WaitingShare ==
    ASSUME NEW n \in Notes, NEW m \in Msgs, \A k \in Msgs : k # m => phase'[k] = phase[k]
    PROVE  /\ Cardinality(Waiting(n)) \in Nat /\ Cardinality(Waiting(n)') \in Nat
           /\ Cardinality(Waiting(n)') + One(Waits(m, n))
                 = Cardinality(Waiting(n)) + One(Waits(m, n)')
<1>1. \A k \in Msgs : k # m => (k \in Waiting(n) <=> k \in Waiting(n)')
  BY DEF Waiting, Waits
<1>2. Waiting(n) \subseteq Msgs /\ Waiting(n)' \subseteq Msgs
  BY DEF Waiting
<1>3. /\ Cardinality(Waiting(n)) \in Nat /\ Cardinality(Waiting(n)') \in Nat
      /\ Cardinality(Waiting(n)') + One(m \in Waiting(n))
            = Cardinality(Waiting(n)) + One(m \in Waiting(n)')
  BY <1>1, <1>2, CountOne, WorkerAssumption
<1>4. (m \in Waiting(n) <=> Waits(m, n)) /\ (m \in Waiting(n)' <=> Waits(m, n)')
  BY DEF Waiting
<1> QED
  BY <1>3, <1>4 DEF One

\* When one worker changes, so does the share of that worker.
LEMMA SendersShare ==
    ASSUME NEW n \in Notes, NEW w \in Workers,
           \A v \in Workers : v # w => job'[v] = job[v] /\ (v \in holds' <=> v \in holds)
    PROVE  /\ Cardinality(Senders(n)) \in Nat /\ Cardinality(Senders(n)') \in Nat
           /\ Cardinality(Senders(n)') + One(MaySend(w, n))
                 = Cardinality(Senders(n)) + One(MaySend(w, n)')
<1>1. \A v \in Workers : v # w => (v \in Senders(n) <=> v \in Senders(n)')
  BY DEF Senders, MaySend, NoteAt, Busy, At
<1>2. Senders(n) \subseteq Workers /\ Senders(n)' \subseteq Workers
  BY DEF Senders
<1>3. /\ Cardinality(Senders(n)) \in Nat /\ Cardinality(Senders(n)') \in Nat
      /\ Cardinality(Senders(n)') + One(w \in Senders(n))
            = Cardinality(Senders(n)) + One(w \in Senders(n)')
  BY <1>1, <1>2, CountOne, WorkerAssumption
<1>4. (w \in Senders(n) <=> MaySend(w, n)) /\ (w \in Senders(n)' <=> MaySend(w, n)')
  BY DEF Senders
<1> QED
  BY <1>3, <1>4 DEF One

\* A step of one worker and one message keeps the budget if their own share
\* of it does.
LEMMA Budget ==
    ASSUME TypeOK, TypeOK', CopiesBound, NEW w \in Workers, NEW m \in Msgs,
           \A v \in Workers : v # w => job'[v] = job[v] /\ (v \in holds' <=> v \in holds),
           \A k \in Msgs : k # m => phase'[k] = phase[k],
           phase'[m] = "unsent" => phase[m] = "unsent",
           \A n \in Notes :
              mails'[n] + One(MaySend(w, n)') + One(Waits(m, n)') + faults
                 <= mails[n] + One(MaySend(w, n)) + One(Waits(m, n)) + faults'
    PROVE  CopiesBound'
<1> SUFFICES ASSUME NEW n \in Notes
             PROVE  mails'[n] + Cardinality(Senders(n)') + Cardinality(Waiting(n)')
                       + One(Unpublished(n)') <= 1 + faults'
  BY DEF CopiesBound
<1>1. /\ Cardinality(Senders(n)) \in Nat /\ Cardinality(Senders(n)') \in Nat
      /\ Cardinality(Senders(n)') + One(MaySend(w, n))
            = Cardinality(Senders(n)) + One(MaySend(w, n)')
  BY SendersShare
<1>2. /\ Cardinality(Waiting(n)) \in Nat /\ Cardinality(Waiting(n)') \in Nat
      /\ Cardinality(Waiting(n)') + One(Waits(m, n))
            = Cardinality(Waiting(n)) + One(Waits(m, n)')
  BY WaitingShare
<1>3. Unpublished(n)' => Unpublished(n)
  BY DEF Unpublished
<1>4. mails[n] + Cardinality(Senders(n)) + Cardinality(Waiting(n)) + One(Unpublished(n))
         <= 1 + faults
  BY DEF CopiesBound
<1>5. mails[n] \in Nat /\ mails'[n] \in Nat /\ faults \in Nat /\ faults' \in Nat
  BY DEF TypeOK
<1> QED
  BY <1>1, <1>2, <1>3, <1>4, <1>5 DEF One

LEMMA CopiesBoundNext ==
    TypeOK /\ TypeOK' /\ JobFacts /\ CopiesBound /\ [Next]_vars => CopiesBound'
<1> SUFFICES ASSUME TypeOK, TypeOK', JobFacts, CopiesBound, [Next]_vars PROVE CopiesBound'
  OBVIOUS
<1> USE DEF history, dbVars, queueVars
<1>t. /\ job \in [Workers -> Jobs] /\ \A n \in Notes : mails[n] \in Nat /\ mails'[n] \in Nat
      /\ phase \in [Msgs -> Queue!Phases] /\ mails \in [Notes -> Nat]
      /\ faults \in Nat /\ faults' \in Nat
  BY DEF TypeOK
<1>s. {"render", "send", "mark", "log", "finish"} \subseteq Steps
  BY DEF Steps
<1>n. \A w \in Workers : Busy(w) => job[w].msg \in Msgs /\ NoteAt(w) \in Notes
  BY <1>t, BusyJob
\* Publishing again is a fault; the first publication was accounted for.
<1>1. ASSUME NEW m \in Msgs, Arrive(m) \/ Expire(m) PROVE CopiesBound'
  <2>1. /\ \A k \in Msgs : k # m => phase'[k] = phase[k]
        /\ phase[m] \in {"unsent", "waiting"} /\ phase'[m] \in {"waiting", "dead"}
        /\ mails' = mails
    BY <1>1, <1>t DEF Arrive, Expire, Queue!Send, Queue!Discard, Queue!Move
  <2>2. \A n \in Notes : Senders(n)' = Senders(n)
    BY <1>1 DEF Arrive, Expire, Senders, MaySend, NoteAt, Busy, At
  <2> SUFFICES ASSUME NEW n \in Notes
               PROVE  mails'[n] + Cardinality(Senders(n)') + Cardinality(Waiting(n)')
                         + One(Unpublished(n)') <= 1 + faults'
    BY DEF CopiesBound
  <2>3. mails[n] + Cardinality(Senders(n)) + Cardinality(Waiting(n)) + One(Unpublished(n))
           <= 1 + faults
    BY DEF CopiesBound
  <2>4. /\ Cardinality(Waiting(n)) \in Nat /\ Cardinality(Waiting(n)') \in Nat
        /\ Cardinality(Waiting(n)') + One(Waits(m, n))
              = Cardinality(Waiting(n)) + One(Waits(m, n)')
    BY <2>1, WaitingShare
  <2>5. Unpublished(n)' => Unpublished(n)
    BY <2>1 DEF Unpublished
  <2>6. CASE ~Waits(m, n)' /\ faults' = faults
    BY <1>t, <2>1, <2>2, <2>3, <2>4, <2>5, <2>6, BudgetTypes DEF One
  <2>7. CASE Arrive(m) /\ NoteOf[m] = n /\ Resent(m)
    <3>1. faults' = faults + 1
      BY <2>7 DEF Arrive, Fault
    <3> QED
      BY <1>t, <2>1, <2>2, <2>3, <2>4, <2>5, <3>1, BudgetTypes DEF One
  <2>8. CASE Arrive(m) /\ NoteOf[m] = n /\ ~Resent(m)
    <3>1. Unpublished(n) /\ ~Unpublished(n)' /\ faults' = faults
      BY <2>1, <2>8 DEF Arrive, Resent, Unpublished
    <3> QED
      BY <1>t, <2>1, <2>2, <2>3, <2>4, <3>1, BudgetTypes DEF One
  <2>9. CASE Arrive(m) /\ NoteOf[m] # n
    <3>1. ~Waits(m, n)' /\ (faults' = faults \/ faults' = faults + 1)
      BY <2>9 DEF Arrive, Fault, Waits
    <3> QED
      BY <1>t, <2>1, <2>2, <2>3, <2>4, <2>5, <3>1, BudgetTypes DEF One
  <2>10. Expire(m) => ~Waits(m, n)' /\ faults' = faults
    BY <1>t DEF Expire, Queue!Discard, Queue!Move, Waits
  <2> QED
    BY <1>1, <2>6, <2>7, <2>8, <2>9, <2>10
<1>2. ASSUME NEW w \in Workers, NEW m \in Msgs, Start(w, m) PROVE CopiesBound'
  <2>1. /\ phase[m] = "waiting" /\ phase'[m] = "taken"
        /\ \A k \in Msgs : k # m => phase'[k] = phase[k]
    BY <1>2, <1>t DEF Start, Queue!Take, Queue!Move
  <2>2. \A n \in Notes : (Waits(m, n) <=> n = NoteOf[m]) /\ ~Waits(m, n)'
    BY <2>1 DEF Waits
  <2>3. \A n \in Notes : MaySend(w, n)' => n = NoteOf[m]
    BY <1>2, <1>t DEF Start, MaySend, NoteAt
  <2>4. \A v \in Workers : v # w => job'[v] = job[v] /\ (v \in holds' <=> v \in holds)
    BY <1>2, <1>t DEF Start
  <2>5. mails' = mails /\ faults' = faults
    BY <1>2 DEF Start
  <2>6. \A n \in Notes : mails'[n] + One(MaySend(w, n)') + One(Waits(m, n)') + faults
                           <= mails[n] + One(MaySend(w, n)) + One(Waits(m, n)) + faults'
    BY <1>t, <2>2, <2>3, <2>5 DEF One
  <2> QED
    BY <2>1, <2>4, <2>6, Budget
\* A step that stays within the job of w, and sends at most one copy.
<1>m. ASSUME NEW w \in Workers, Busy(w), UNCHANGED <<phase, holds>>,
             \A v \in Workers : v # w => job'[v] = job[v],
             NoteAt(w)' = NoteAt(w),
             \/ UNCHANGED <<mails, faults>> /\ (MaySend(w, NoteAt(w))' => MaySend(w, NoteAt(w)))
             \/ MailAccepted(w) /\ faults' = faults
                  /\ MaySend(w, NoteAt(w)) /\ ~MaySend(w, NoteAt(w))'
             \/ MailAccepted(w) /\ faults' = faults + 1
                  /\ (MaySend(w, NoteAt(w))' => MaySend(w, NoteAt(w)))
      PROVE  CopiesBound'
  <2>m. PICK m \in Msgs : m = job[w].msg
    BY <1>m, <1>n
  <2>n. PICK n \in Notes : n = NoteAt(w)
    BY <1>m, <1>n
  <2>1. \A k \in Notes : /\ Waits(m, k)' <=> Waits(m, k)
                         /\ k # n => ~MaySend(w, k)' /\ ~MaySend(w, k)
    BY <1>m, <2>n DEF Waits, MaySend
  <2>2. MailAccepted(w) => /\ mails'[n] = mails[n] + 1
                           /\ \A k \in Notes : k # n => mails'[k] = mails[k]
    BY <1>m, <1>t, <2>n DEF MailAccepted
  <2>4. ASSUME NEW k \in Notes
        PROVE  mails'[k] + One(MaySend(w, k)') + One(Waits(m, k)') + faults
                  <= mails[k] + One(MaySend(w, k)) + One(Waits(m, k)) + faults'
    <3>1. CASE k = n
      BY <1>m, <1>t, <2>n, <2>1, <2>2, <3>1 DEF One
    <3>2. CASE k # n
      BY <1>m, <1>t, <2>1, <2>2, <3>2 DEF One
    <3> QED
      BY <3>1, <3>2
  <2> QED
    BY <1>m, <2>4, Budget
<1>3. ASSUME NEW w \in Workers, Fetch(w) \/ Render(w) PROVE CopiesBound'
  <2>1. Busy(w) /\ MaySend(w, NoteAt(w))
    BY <1>3 DEF Fetch, Render, Prepare, MaySend, Busy, At
  <2>2. \/ \E next \in {"render", "send"} : Goto(w, next)
        \/ \E err \in Errors : Fail(w, "mark", err)
    BY <1>3 DEF Fetch, Render, Prepare
  <2>3. NoteAt(w)' = NoteAt(w) /\ \A v \in Workers : v # w => job'[v] = job[v]
    <3>1. CASE \E next \in {"render", "send"} : Goto(w, next)
      BY <1>s, <1>t, <2>1, <3>1, GotoJob
    <3>2. CASE \E err \in Errors : Fail(w, "mark", err)
      BY <1>s, <1>t, <2>1, <3>2, FailJob
    <3> QED
      BY <2>2, <3>1, <3>2
  <2> QED
    BY <1>3, <1>m, <2>1, <2>3 DEF Fetch, Render, Prepare
<1>4. ASSUME NEW w \in Workers, SendOk(w) PROVE CopiesBound'
  <2>1. Busy(w) /\ MaySend(w, NoteAt(w)) /\ job[w].error = "none"
    BY <1>4 DEF SendOk, MaySend, Busy, At, JobFacts
  <2>2. /\ NoteAt(w)' = NoteAt(w) /\ job'[w].step = "mark" /\ job'[w].error = "none"
        /\ \A v \in Workers : v # w => job'[v] = job[v]
    BY <1>4, <1>s, <1>t, <2>1, GotoJob DEF SendOk
  <2>3. ~MaySend(w, NoteAt(w))'
    BY <2>2 DEF MaySend
  <2> QED
    BY <1>4, <1>m, <2>1, <2>2, <2>3 DEF SendOk
<1>5. ASSUME NEW w \in Workers, SendRefused(w) \/ SendReplyLost(w) PROVE CopiesBound'
  <2>1. Busy(w) /\ MaySend(w, NoteAt(w))
    BY <1>5 DEF SendRefused, SendReplyLost, MaySend, Busy, At
  <2>2. NoteAt(w)' = NoteAt(w) /\ \A v \in Workers : v # w => job'[v] = job[v]
    BY <1>5, <1>t, SendErrorJob DEF SendRefused, SendReplyLost, Errors
  <2> QED
    BY <1>5, <1>m, <2>1, <2>2 DEF SendRefused, SendReplyLost, Fault
<1>6. ASSUME NEW w \in Workers, MarkOk(w) \/ MarkFails(w) \/ Log(w) PROVE CopiesBound'
  <2>1. Busy(w)
    BY <1>6 DEF MarkOk, MarkFails, Log, Busy, At
  <2>2. Goto(w, "log") \/ Goto(w, "finish")
    BY <1>6 DEF MarkOk, MarkFails, Log
  <2>3. /\ NoteAt(w)' = NoteAt(w) /\ job'[w].step \in {"log", "finish"}
        /\ job'[w].error = job[w].error
        /\ \A v \in Workers : v # w => job'[v] = job[v]
    BY <1>s, <1>t, <2>1, <2>2, GotoJob
  <2>4. MaySend(w, NoteAt(w))' => MaySend(w, NoteAt(w))
    BY <1>6, <2>1, <2>3 DEF MaySend, MarkOk, MarkFails, Log
  <2> QED
    BY <1>6, <1>m, <2>1, <2>3, <2>4 DEF MarkOk, MarkFails, Log
\* A step that gives the message of w back, if w holds it, and costs what w
\* might send: a temporary error, or a fault.
<1>g. ASSUME NEW w \in Workers, Busy(w), UNCHANGED mails,
             Queue!GiveBack(IF w \in holds THEN {job[w].msg} ELSE {}),
             holds' = holds \ {w}, \A v \in Workers : v # w => job'[v] = job[v],
             \A n \in Notes : MaySend(w, n)' => MaySend(w, n),
             \/ faults' = faults + 1
             \/ /\ faults' = faults /\ \A n \in Notes : ~MaySend(w, n)'
                /\ w \in holds => MaySend(w, NoteAt(w))
      PROVE  CopiesBound'
  <2>1. PICK m \in Msgs : m = job[w].msg /\ NoteAt(w) \in Notes /\ NoteOf[m] = NoteAt(w)
    BY <1>g, <1>n DEF NoteAt
  <2>2. /\ w \in holds => phase[m] = "taken" /\ phase'[m] = "waiting"
        /\ w \notin holds => phase'[m] = phase[m]
        /\ \A k \in Msgs : k # m => phase'[k] = phase[k]
    BY <1>g, <2>1 DEF Queue!GiveBack
  <2>3. ASSUME NEW n \in Notes
        PROVE  mails'[n] + One(MaySend(w, n)') + One(Waits(m, n)') + faults
                  <= mails[n] + One(MaySend(w, n)) + One(Waits(m, n)) + faults'
    <3>1. CASE n = NoteAt(w)
      BY <1>g, <1>t, <2>1, <2>2, <3>1 DEF One, Waits
    <3>2. CASE n # NoteAt(w)
      BY <1>g, <1>t, <2>1, <2>2, <3>2 DEF One, Waits, MaySend
    <3> QED
      BY <3>1, <3>2
  <2>4. \A v \in Workers : v # w => job'[v] = job[v] /\ (v \in holds' <=> v \in holds)
    BY <1>g
  <2> QED
    BY <2>1, <2>2, <2>3, <2>4, Budget
<1>7. ASSUME NEW w \in Workers, Resolve(w) PROVE CopiesBound'
  <2>1. PICK m \in Msgs : Busy(w) /\ m = job[w].msg
    BY <1>7, <1>n DEF Resolve, Busy, At
  <2>2. /\ job'[w].step = "idle" /\ holds' = holds \ {w}
        /\ \A v \in Workers : v # w => job'[v] = job[v]
    BY <1>7, <1>t, IdleJob DEF Resolve
  <2>3. \A n \in Notes : ~MaySend(w, n)'
    BY <2>2 DEF MaySend, Busy, At
  <2>4. /\ phase'[m] \in {phase[m], "settled"}
        /\ \A k \in Msgs : k # m => phase'[k] = phase[k]
    BY <1>7, <1>t, <2>1 DEF Resolve, Queue!Complete, Queue!Move
  <2>5. mails' = mails /\ faults' = faults
    BY <1>7 DEF Resolve
  <2>6. \A v \in Workers : v # w => job'[v] = job[v] /\ (v \in holds' <=> v \in holds)
    BY <2>2
  <2>7. \A n \in Notes : mails'[n] + One(MaySend(w, n)') + One(Waits(m, n)') + faults
                           <= mails[n] + One(MaySend(w, n)) + One(Waits(m, n)) + faults'
    BY <1>t, <2>3, <2>4, <2>5 DEF One, Waits
  <2> QED
    BY <2>1, <2>4, <2>6, <2>7, Budget
<1>8. ASSUME NEW w \in Workers, Reject(w) \/ Crash(w) PROVE CopiesBound'
  <2>1. Busy(w)
    BY <1>8 DEF Reject, Crash, Busy, At
  <2>2. /\ job'[w].step = "idle" /\ holds' = holds \ {w}
        /\ \A v \in Workers : v # w => job'[v] = job[v]
    BY <1>8, <1>t, IdleJob DEF Reject, Crash
  <2>3. \A n \in Notes : ~MaySend(w, n)'
    BY <2>2 DEF MaySend, Busy, At
  <2>4. Reject(w) => faults' = faults /\ (w \in holds => MaySend(w, NoteAt(w)))
    BY <2>1 DEF Reject, MaySend
  <2>5. Crash(w) => faults' = faults + 1
    BY DEF Crash, Fault
  <2>6. mails' = mails /\ Queue!GiveBack(IF w \in holds THEN {job[w].msg} ELSE {})
    BY <1>8 DEF Reject, Crash
  <2> QED
    BY <1>8, <1>g, <2>1, <2>2, <2>3, <2>4, <2>5, <2>6
<1>9. ASSUME NEW w \in Workers, LoseConnection(w) PROVE CopiesBound'
  <2>1. /\ w \in holds /\ Busy(w)
        /\ holds' = holds \ {w} /\ UNCHANGED <<job, mails>> /\ faults' = faults + 1
        /\ Queue!GiveBack({job[w].msg})
    BY <1>9 DEF LoseConnection, TypeOK, Fault
  <2>2. \A n \in Notes : MaySend(w, n)' => MaySend(w, n)
    BY <2>1 DEF MaySend, NoteAt, Busy, At
  <2> QED
    BY <1>g, <2>1, <2>2
<1>10. CASE UNCHANGED vars
  BY <1>10 DEF vars, CopiesBound, Senders, MaySend, NoteAt, Busy, At, Waiting, Waits, Unpublished
<1> QED
  BY <1>1, <1>2, <1>3, <1>4, <1>5, <1>6, <1>7, <1>8, <1>9, <1>10 DEF Next

-------------------------------------------------------------------------------
(* Outcomes and the log *)

Outcomes == JobFacts /\ SettledHasOutcome /\ LogFollowsStatus

\* The facts about the job of w follow from what its step did; those about
\* the others from counts that only grow and rows that never go back.
LEMMA OtherJobs ==
    ASSUME TypeOK, JobFacts, NEW w \in Workers,
           \A v \in Workers : v # w => job'[v] = job[v],
           \A n \in Notes : mails[n] > 0 => mails'[n] > 0,
           \A n \in Notes : status[n] # "PENDING" => status'[n] # "PENDING",
           Busy(w)' =>
              /\ job'[w].step \in {"fetch", "render", "send"} => job'[w].error = "none"
              /\ job'[w].step \in {"mark", "log"} /\ job'[w].error = "none" => mails'[NoteAt(w)'] > 0
              /\ job'[w].step = "finish" /\ job'[w].error = "none" =>
                    mails'[NoteAt(w)'] > 0 \/ NoteAt(w)' \in Incomplete
              /\ job'[w].step = "log" => status'[NoteAt(w)'] # "PENDING"
    PROVE  JobFacts'
<1> SUFFICES ASSUME NEW v \in Workers, Busy(v)', v # w
             PROVE  /\ job'[v].step \in {"fetch", "render", "send"} => job'[v].error = "none"
                    /\ job'[v].step \in {"mark", "log"} /\ job'[v].error = "none" => mails'[NoteAt(v)'] > 0
                    /\ job'[v].step = "finish" /\ job'[v].error = "none" =>
                          mails'[NoteAt(v)'] > 0 \/ NoteAt(v)' \in Incomplete
                    /\ job'[v].step = "log" => status'[NoteAt(v)'] # "PENDING"
  BY DEF JobFacts
<1>1. job'[v] = job[v] /\ Busy(v)
  BY DEF Busy, At
<1>2. NoteAt(v) \in Notes /\ NoteAt(v)' = NoteAt(v)
  BY <1>1, BusyJob DEF TypeOK, NoteAt
<1> QED
  BY <1>1, <1>2 DEF JobFacts

LEMMA OutcomesNext == TypeOK /\ Outcomes /\ [Next]_vars => Outcomes'
<1> SUFFICES ASSUME TypeOK, Outcomes, [Next]_vars PROVE Outcomes'
  OBVIOUS
<1> USE DEF history, dbVars, queueVars, Outcomes
<1>t. /\ job \in [Workers -> Jobs] /\ phase \in [Msgs -> Queue!Phases]
      /\ mails \in [Notes -> Nat]
      /\ status \in [Notes -> {"PENDING", "DELIVERED", "FAILED"}]
      /\ logged \in [Notes -> SUBSET {"DELIVERED", "FAILED"}]
      /\ gaveUp \subseteq Msgs
  BY DEF TypeOK
<1>s. {"render", "send", "mark", "log", "finish"} \subseteq Steps
  BY DEF Steps
<1>n. \A w \in Workers : Busy(w) => /\ job[w].msg \in Msgs /\ NoteAt(w) \in Notes
                                      /\ job[w].error \in Errors \cup {"none"}
  BY <1>t, BusyJob
\* A step that settles nothing and logs nothing keeps the two properties.
<1>k. ASSUME \A m \in Msgs : phase'[m] = "settled" => phase[m] = "settled",
             \A n \in Notes : mails[n] > 0 => mails'[n] > 0,
             \A n \in Notes : status[n] # "PENDING" => status'[n] # "PENDING",
             UNCHANGED <<gaveUp, logged>>
      PROVE  SettledHasOutcome' /\ LogFollowsStatus'
  BY <1>k, WorkerAssumption DEF SettledHasOutcome, LogFollowsStatus
<1>1. ASSUME NEW m \in Msgs, Arrive(m) \/ Expire(m) PROVE Outcomes'
  <2>1. JobFacts'
    BY <1>1 DEF Arrive, Expire, JobFacts, NoteAt, Busy, At
  <2>2. \A k \in Msgs : phase'[k] = "settled" => phase[k] = "settled"
    BY <1>1, <1>t DEF Arrive, Expire, Queue!Send, Queue!Discard, Queue!Move
  <2> QED
    BY <1>1, <1>k, <2>1, <2>2 DEF Arrive, Expire
<1>2. ASSUME NEW w \in Workers, NEW m \in Msgs, Start(w, m) PROVE Outcomes'
  <2>1. /\ job'[w].step \in {"fetch", "finish"} /\ job'[w].error = "none"
        /\ job'[w].step = "finish" => NoteAt(w)' \in Incomplete
        /\ \A v \in Workers : v # w => job'[v] = job[v]
        /\ UNCHANGED <<mails, status, logged, gaveUp>>
    BY <1>2, <1>t DEF Start, NoteAt
  <2>2. \A k \in Msgs : phase'[k] = "settled" => phase[k] = "settled"
    BY <1>2, <1>t DEF Start, Queue!Take, Queue!Move
  <2> QED
    BY <1>k, <2>1, <2>2, OtherJobs
\* Preparing fails or moves on; rows and mails stay.
<1>3. ASSUME NEW w \in Workers, Fetch(w) \/ Render(w) PROVE Outcomes'
  <2>1. Busy(w) /\ job[w].error = "none"
    BY <1>3 DEF Fetch, Render, Prepare, Busy, At, JobFacts
  <2>2. /\ \/ job'[w].step \in {"render", "send"} /\ job'[w].error = "none"
           \/ job'[w].step = "mark" /\ job'[w].error \in Errors
        /\ \A v \in Workers : v # w => job'[v] = job[v]
    <3>1. CASE \E next \in {"render", "send"} : Goto(w, next)
      BY <1>s, <1>t, <2>1, <3>1, GotoJob
    <3>2. CASE \E err \in Errors : Fail(w, "mark", err)
      BY <1>s, <1>t, <2>1, <3>2, FailJob
    <3> QED
      BY <1>3, <3>1, <3>2 DEF Fetch, Render, Prepare
  <2>3. UNCHANGED <<phase, mails, status, logged, gaveUp>>
    BY <1>3 DEF Fetch, Render, Prepare
  <2> QED
    BY <1>k, <2>2, <2>3, OtherJobs DEF Errors
<1>4. ASSUME NEW w \in Workers, SendOk(w) PROVE Outcomes'
  <2>1. Busy(w) /\ NoteAt(w) \in Notes
    BY <1>4, <1>n DEF SendOk, Busy, At
  <2>2. /\ NoteAt(w)' = NoteAt(w) /\ job'[w].step = "mark"
        /\ \A v \in Workers : v # w => job'[v] = job[v]
    BY <1>4, <1>s, <1>t, <2>1, GotoJob DEF SendOk
  <2>3. /\ mails'[NoteAt(w)] > 0 /\ \A n \in Notes : mails[n] > 0 => mails'[n] > 0
        /\ UNCHANGED <<phase, status, logged, gaveUp>>
    BY <1>4, <1>t, <2>1 DEF SendOk, MailAccepted
  <2> QED
    BY <1>k, <2>2, <2>3, OtherJobs
<1>5. ASSUME NEW w \in Workers, SendRefused(w) \/ SendReplyLost(w) PROVE Outcomes'
  <2>1. Busy(w) /\ NoteAt(w) \in Notes /\ job[w].error = "none"
    BY <1>5, <1>n DEF SendRefused, SendReplyLost, Busy, At, JobFacts
  <2>2. /\ \/ job'[w].step = "send" /\ job'[w].error = "none"
           \/ job'[w].step = "mark" /\ job'[w].error \in Errors
        /\ \A v \in Workers : v # w => job'[v] = job[v]
    BY <1>5, <1>t, <2>1, SendErrorJob DEF SendRefused, SendReplyLost, Errors
  <2>3. /\ \A n \in Notes : mails[n] > 0 => mails'[n] > 0
        /\ UNCHANGED <<phase, status, logged, gaveUp>>
    BY <1>5, <1>t, <2>1 DEF SendRefused, SendReplyLost, MailAccepted
  <2> QED
    BY <1>k, <2>2, <2>3, OtherJobs DEF Errors
<1>6. ASSUME NEW w \in Workers, MarkOk(w) \/ MarkFails(w) PROVE Outcomes'
  <2>1. Busy(w) /\ NoteAt(w) \in Notes
    BY <1>6, <1>n DEF MarkOk, MarkFails, Busy, At
  <2>2. Goto(w, "log") \/ Goto(w, "finish")
    BY <1>6 DEF MarkOk, MarkFails
  <2>3. /\ NoteAt(w)' = NoteAt(w) /\ job'[w].step \in {"log", "finish"}
        /\ job'[w].error = job[w].error
        /\ MarkFails(w) => job'[w].step = "finish"
        /\ \A v \in Workers : v # w => job'[v] = job[v]
    BY <1>s, <1>t, <2>1, <2>2, GotoJob DEF MarkFails
  <2>4. /\ \A n \in Notes : status[n] # "PENDING" => status'[n] # "PENDING"
        /\ MarkOk(w) => status'[NoteAt(w)] # "PENDING"
        /\ UNCHANGED <<phase, mails, logged, gaveUp>>
    BY <1>6, <1>t, <2>1 DEF MarkOk, MarkFails, SetStatus, Outcome
  <2>5. job[w].error = "none" => mails[NoteAt(w)] > 0
    BY <1>6, <2>1 DEF MarkOk, MarkFails, At, JobFacts
  <2> QED
    BY <1>6, <1>k, <2>3, <2>4, <2>5, OtherJobs
<1>7. ASSUME NEW w \in Workers, Log(w) PROVE Outcomes'
  <2>1. Busy(w) /\ NoteAt(w) \in Notes
    BY <1>7, <1>n DEF Log, Busy, At
  <2>2. /\ status[NoteAt(w)] # "PENDING"
        /\ job[w].error = "none" => mails[NoteAt(w)] > 0
    BY <1>7, <2>1 DEF Log, At, JobFacts
  <2>3. /\ NoteAt(w)' = NoteAt(w) /\ job'[w].step = "finish" /\ job'[w].error = job[w].error
        /\ \A v \in Workers : v # w => job'[v] = job[v]
    BY <1>7, <1>s, <1>t, <2>1, GotoJob DEF Log
  <2>4. UNCHANGED <<phase, mails, status, gaveUp>>
    BY <1>7 DEF Log
  <2>5. LogFollowsStatus'
    <3>1. \/ UNCHANGED logged
          \/ logged' = [logged EXCEPT ![NoteAt(w)] = @ \cup {Outcome(job[w])}]
      BY <1>7 DEF Log
    <3> QED
      BY <1>t, <2>1, <2>2, <2>4, <3>1 DEF LogFollowsStatus, Outcome
  <2>6. SettledHasOutcome'
    BY <2>4 DEF SettledHasOutcome
  <2> QED
    BY <2>2, <2>3, <2>4, <2>5, <2>6, OtherJobs
<1>8. ASSUME NEW w \in Workers, Resolve(w) PROVE Outcomes'
  <2> DEFINE m == job[w].msg
  <2>1. /\ Busy(w) /\ m \in Msgs /\ NoteOf[m] = NoteAt(w) /\ NoteAt(w) \in Notes
        /\ job[w].error \in {"none", "final"}
    BY <1>8, <1>n DEF Resolve, Busy, At, Errors, NoteAt
  <2>2. job[w].error = "none" => mails[NoteOf[m]] > 0 \/ NoteOf[m] \in Incomplete
    BY <1>8, <2>1 DEF Resolve, At, JobFacts
  <2>3. job'[w].step = "idle" /\ \A v \in Workers : v # w => job'[v] = job[v]
    BY <1>8, <1>t, IdleJob DEF Resolve
  <2>4. UNCHANGED <<mails, status, logged>>
    BY <1>8 DEF Resolve
  <2>5. /\ gaveUp \subseteq gaveUp'
        /\ job[w].error = "final" => m \in gaveUp'
        /\ \A k \in Msgs : phase'[k] = "settled" => k = m \/ phase[k] = "settled"
    BY <1>8, <1>t, <2>1 DEF Resolve, GaveUp, Queue!Complete, Queue!Move
  <2>6. SettledHasOutcome' /\ LogFollowsStatus'
    BY <2>1, <2>2, <2>4, <2>5 DEF SettledHasOutcome, LogFollowsStatus
  <2> QED
    BY <2>3, <2>4, <2>6, OtherJobs DEF Busy, At
<1>9. ASSUME NEW w \in Workers, Reject(w) \/ Crash(w) \/ LoseConnection(w) PROVE Outcomes'
  <2>1. /\ UNCHANGED <<mails, status, logged, gaveUp>>
        /\ \A m \in Msgs : phase'[m] = "settled" => phase[m] = "settled"
    BY <1>9 DEF Reject, Crash, LoseConnection, Queue!GiveBack
  <2>2. CASE LoseConnection(w)
    <3>1. JobFacts'
      BY <2>1, <2>2 DEF LoseConnection, JobFacts, NoteAt, Busy, At
    <3> QED
      BY <1>k, <2>1, <3>1
  <2>3. CASE Reject(w) \/ Crash(w)
    <3>1. job'[w].step = "idle" /\ \A v \in Workers : v # w => job'[v] = job[v]
      BY <1>t, <2>3, IdleJob DEF Reject, Crash
    <3> QED
      BY <1>k, <2>1, <3>1, OtherJobs DEF Busy, At
  <2> QED
    BY <1>9, <2>2, <2>3
<1>10. CASE UNCHANGED vars
  BY <1>10 DEF vars, JobFacts, NoteAt, Busy, At, SettledHasOutcome, LogFollowsStatus
<1> QED
  BY <1>1, <1>2, <1>3, <1>4, <1>5, <1>6, <1>7, <1>8, <1>9, <1>10 DEF Next

-------------------------------------------------------------------------------
(* Theorems *)

LEMMA InitOK == Init => TypeOK /\ Outcomes /\ CopiesBound
<1> SUFFICES ASSUME Init PROVE TypeOK /\ Outcomes /\ CopiesBound
  OBVIOUS
<1> USE DEF Init, Queue!CInit, Idle, Busy, At
<1>1. TypeOK
  BY DEF TypeOK, Jobs, Queue!Phases
<1>2. Outcomes
  BY DEF Outcomes, JobFacts, SettledHasOutcome, LogFollowsStatus
<1>3. CopiesBound
  <2>1. \A n \in Notes : Senders(n) = {} /\ Waiting(n) = {}
    BY DEF Senders, MaySend, Waiting, Waits
  <2> QED
    BY <2>1, FS_EmptySet DEF CopiesBound, One
<1> QED
  BY <1>1, <1>2, <1>3

IInv == TypeOK /\ Outcomes /\ CopiesBound

THEOREM Invariance == Spec => []IInv
<1>1. Init => IInv
  BY InitOK DEF IInv
<1>2. IInv /\ [Next]_vars => IInv'
  BY TypeOKNext, OutcomesNext, CopiesBoundNext DEF IInv, Outcomes
<1> QED
  BY <1>1, <1>2, PTL DEF Spec

\* The handlers of the email service keep the types of their state.
THEOREM TypeCorrect == Spec => []TypeOK
BY Invariance, PTL DEF IInv

\* handleMessage and sendEmail send a notification once and at most once more
\* per fault (a message published again among them), however many workers,
\* messages and retries there are.
THEOREM CopiesNeedFaults == Spec => []ExtraMailsNeedFaults
<1>1. IInv => ExtraMailsNeedFaults
  <2> SUFFICES ASSUME IInv, NEW n \in Notes PROVE mails[n] <= 1 + faults
    BY DEF ExtraMailsNeedFaults
  <2>1. mails[n] + Cardinality(Senders(n)) + Cardinality(Waiting(n)) + One(Unpublished(n))
           <= 1 + faults
    BY DEF IInv, CopiesBound
  <2>2. mails[n] \in Nat /\ faults \in Nat
    BY DEF IInv, TypeOK
  <2> QED
    BY <2>1, <2>2, BudgetTypes
<1> QED
  BY <1>1, Invariance, PTL

\* handleMessage acknowledges a message only when its mail was sent, a handler
\* of it ended with an error isRetriableError does not call retriable, or there
\* was nothing to send: whatever else happens, a retriable error loses no mail.
THEOREM OutcomeOfSettled == Spec => []SettledHasOutcome
BY Invariance, PTL DEF IInv, Outcomes

\* updateNotificationStatus writes the log after the row, and a DELIVERED
\* entry only for a mail that was sent.
THEOREM LogIsBehindRow == Spec => []LogFollowsStatus
BY Invariance, PTL DEF IInv, Outcomes

-------------------------------------------------------------------------------
(* The row of a notification without faults.  As long as nothing breaks, a *)
(* notification has one message in the queue, and a busy worker holds it   *)
(* and is alone with the notification.                                     *)

Fine(w) ==
    /\ w \in holds /\ phase[job[w].msg] = "taken"
    /\ NoteAt(w) \in Incomplete => job[w].step = "finish" /\ job[w].error = "none"
    /\ NoteAt(w) \notin Incomplete =>
          (mails[NoteAt(w)] > 0 <=>
              job[w].step \in {"mark", "log", "finish"} /\ job[w].error = "none")
    /\ NoteAt(w) \notin Incomplete /\ NoteAt(w) \notin lostUpdates
          /\ job[w].step \in {"log", "finish"} => status[NoteAt(w)] = Outcome(job[w])

\* No worker has had n since it was published or given back last.
ToCome(n) == \A m \in Msgs : NoteOf[m] = n => phase[m] \in {"unsent", "waiting"}

Settled(n) == \E m \in Msgs : NoteOf[m] = n /\ phase[m] = "settled"

\* What a notification no worker is at looks like.
Resting(n) ==
    /\ ToCome(n) => mails[n] = 0
    /\ n \in Incomplete => mails[n] = 0 /\ status[n] = "PENDING"
    /\ n \notin lostUpdates /\ Settled(n) =>
           status[n] = IF n \in Incomplete THEN "PENDING"
                       ELSE IF mails[n] > 0 THEN "DELIVERED" ELSE "FAILED"

Alone ==
    \A v, w \in Workers :
        Busy(v) /\ Busy(w) /\ v # w => NoteAt(v) # NoteAt(w)

PublishedOnce ==
    \A j, k \in Msgs :
        NoteOf[j] = NoteOf[k] /\ phase[j] # "unsent" /\ phase[k] # "unsent" => j = k

Undisturbed ==
    faults = 0 => /\ Alone /\ PublishedOnce
                  /\ \A w \in Workers : Busy(w) => Fine(w)
                  /\ \A n \in Notes : Resting(n)

\* Without faults the one published message of a notification stands for it.
LEMMA OneMessage ==
    ASSUME PublishedOnce, NEW m \in Msgs, phase[m] # "unsent", phase'[m] # "unsent",
           \A k \in Msgs : k # m => phase'[k] = phase[k]
    PROVE  /\ PublishedOnce'
           /\ ToCome(NoteOf[m]) <=> phase[m] = "waiting"
           /\ ToCome(NoteOf[m])' <=> phase'[m] \in {"unsent", "waiting"}
           /\ Settled(NoteOf[m])' <=> phase'[m] = "settled"
<1>1. \A k \in Msgs : k # m /\ NoteOf[k] = NoteOf[m] => phase[k] = "unsent" /\ phase'[k] = "unsent"
  BY DEF PublishedOnce
<1>2. PublishedOnce'
  <2> SUFFICES ASSUME NEW j \in Msgs, NEW k \in Msgs, NoteOf[j] = NoteOf[k],
                      phase'[j] # "unsent", phase'[k] # "unsent"
               PROVE  j = k
    BY DEF PublishedOnce
  <2>1. phase[j] # "unsent" /\ phase[k] # "unsent"
    OBVIOUS
  <2> QED
    BY <2>1 DEF PublishedOnce
<1> QED
  BY <1>1, <1>2 DEF ToCome, Settled

\* A step of w at notification n keeps what is known of the others.
LEMMA OwnStep ==
    ASSUME TypeOK, NEW w \in Workers, NEW n \in Notes,
           Alone, \A v \in Workers : Busy(v) => Fine(v), \A k \in Notes : Resting(k),
           \A v \in Workers : Busy(v) /\ v # w => NoteAt(v) # n,
           \A v \in Workers : v # w => job'[v] = job[v] /\ (v \in holds => v \in holds'),
           \A m \in Msgs : NoteOf[m] # n => phase'[m] = phase[m],
           \A k \in Notes : k # n =>
               /\ mails'[k] = mails[k] /\ status'[k] = status[k]
               /\ k \in lostUpdates' <=> k \in lostUpdates,
           PublishedOnce',
           Busy(w)' => NoteAt(w)' = n /\ Fine(w)',
           Resting(n)'
    PROVE  Undisturbed'
<1>1. \A v \in Workers : v # w => (Busy(v)' <=> Busy(v)) /\ NoteAt(v)' = NoteAt(v)
  BY DEF Busy, At, NoteAt
<1>2. Alone'
  BY <1>1 DEF Alone
<1>3. ASSUME NEW v \in Workers, Busy(v)' PROVE Fine(v)'
  <2>1. CASE v = w
    BY <1>3, <2>1
  <2>2. CASE v # w
    <3> DEFINE k == NoteAt(v)
    <3>1. /\ Busy(v) /\ job'[v] = job[v] /\ NoteAt(v)' = k /\ k # n /\ k \in Notes /\ Fine(v)
          /\ job[v].msg \in Msgs /\ NoteOf[job[v].msg] = k
      BY <1>1, <1>3, <2>2, BusyJob DEF TypeOK, NoteAt
    <3>2. /\ mails'[k] = mails[k] /\ status'[k] = status[k]
          /\ phase'[job[v].msg] = phase[job[v].msg]
          /\ k \in lostUpdates' => k \in lostUpdates
          /\ k \in lostUpdates => k \in lostUpdates'
      BY <3>1
    <3>3. v \in holds'
      BY <2>2, <3>1 DEF Fine
    <3> HIDE DEF k
    <3>4. NoteAt(v) = k
      BY DEF k
    <3> QED
      BY <3>1, <3>2, <3>3, <3>4 DEF Fine, Outcome
  <2> QED
    BY <2>1, <2>2
<1>4. ASSUME NEW k \in Notes PROVE Resting(k)'
  <2>1. CASE k = n
    BY <2>1
  <2>2. CASE k # n
    <3>1. /\ mails'[k] = mails[k] /\ status'[k] = status[k]
          /\ k \in lostUpdates' => k \in lostUpdates
          /\ k \in lostUpdates => k \in lostUpdates'
      BY <2>2
    <3>2. (ToCome(k)' <=> ToCome(k)) /\ (Settled(k)' <=> Settled(k))
      BY <2>2 DEF ToCome, Settled
    <3> QED
      BY <3>1, <3>2 DEF Resting
  <2> QED
    BY <2>1, <2>2
<1> QED
  BY <1>2, <1>3, <1>4 DEF Undisturbed

LEMMA UndisturbedNext == TypeOK /\ JobFacts /\ Undisturbed /\ [Next]_vars => Undisturbed'
<1> SUFFICES ASSUME TypeOK, JobFacts, Undisturbed, [Next]_vars, faults' = 0 PROVE Undisturbed'
  BY DEF Undisturbed
<1> USE DEF history, dbVars, queueVars
<1>t. /\ job \in [Workers -> Jobs] /\ phase \in [Msgs -> Queue!Phases]
      /\ mails \in [Notes -> Nat] /\ faults \in Nat
      /\ status \in [Notes -> {"PENDING", "DELIVERED", "FAILED"}]
      /\ lostUpdates \subseteq Notes /\ processed \subseteq Msgs
  BY DEF TypeOK
<1>s. {"render", "send", "mark", "log", "finish"} \subseteq Steps
  BY DEF Steps
<1>f. ~Fault
  BY <1>t DEF Fault
<1>z. faults = 0
  BY <1>f, <1>t
     DEF Next, Arrive, Expire, Start, Fetch, Render, Prepare, SendOk, SendRefused, SendReplyLost,
         MarkOk, MarkFails, Log, Resolve, Reject, LoseConnection, Crash, vars
<1>u. Alone /\ PublishedOnce /\ (\A w \in Workers : Busy(w) => Fine(w)) /\ \A n \in Notes : Resting(n)
  BY <1>z DEF Undisturbed
<1>o. ASSUME NEW w \in Workers, Busy(w)
      PROVE  /\ NoteAt(w) \in Notes /\ Fine(w) /\ Resting(NoteAt(w))
             /\ job[w].msg \in Msgs /\ NoteOf[job[w].msg] = NoteAt(w)
             /\ job[w].error \in Errors \cup {"none"}
             /\ \A v \in Workers : Busy(v) /\ v # w => NoteAt(v) # NoteAt(w)
  BY <1>o, <1>t, <1>u, BusyJob DEF Alone, NoteAt
<1>1. ASSUME NEW m \in Msgs, Arrive(m) \/ Expire(m) PROVE Undisturbed'
  <2> DEFINE n == NoteOf[m]
  <2>1. /\ UNCHANGED <<job, holds, mails, status, lostUpdates>>
        /\ \A k \in Msgs : k # m => phase'[k] = phase[k]
        /\ n \in Notes
    BY <1>1, <1>t, WorkerAssumption DEF Arrive, Expire, Queue!Send, Queue!Discard, Queue!Move
  <2>2. \/ /\ phase[m] = "unsent" /\ phase'[m] = "waiting"
           /\ \A k \in Msgs : NoteOf[k] = n => phase[k] = "unsent"
        \/ phase[m] = "waiting" /\ phase'[m] = "dead"
    BY <1>1, <1>f, <1>t DEF Arrive, Expire, Resent, Queue!Send, Queue!Discard, Queue!Move
  <2>3. PublishedOnce'
    BY <1>u, <2>1, <2>2 DEF PublishedOnce
  <2>4. ToCome(n) /\ ~Settled(n)'
    BY <1>u, <2>1, <2>2 DEF ToCome, Settled, PublishedOnce
  <2>5. Resting(n)'
    BY <1>u, <2>1, <2>4 DEF Resting
  <2>6. ASSUME NEW w \in Workers, Busy(w)' PROVE Fine(w)'
    <3>1. Busy(w) /\ Fine(w) /\ job[w].msg \in Msgs /\ NoteAt(w) \in Notes /\ NoteAt(w)' = NoteAt(w)
      BY <2>1, <2>6, <1>o DEF Busy, At, NoteAt
    <3>2. job[w].msg # m
      BY <2>2, <3>1 DEF Fine
    <3>3. phase'[job[w].msg] = "taken"
      BY <2>1, <3>1, <3>2 DEF Fine
    <3> QED
      BY <2>1, <3>1, <3>3 DEF Fine, Outcome
  <2>7. ASSUME NEW k \in Notes, k # n PROVE Resting(k)'
    <3>1. (ToCome(k)' <=> ToCome(k)) /\ (Settled(k)' <=> Settled(k))
      BY <2>1, <2>7 DEF ToCome, Settled
    <3> QED
      BY <1>u, <2>1, <3>1 DEF Resting
  <2>8. Alone'
    BY <1>u, <2>1 DEF Alone, Busy, At, NoteAt
  <2> QED
    BY <2>3, <2>5, <2>6, <2>7, <2>8 DEF Undisturbed
<1>2. ASSUME NEW w \in Workers, NEW m \in Msgs, Start(w, m) PROVE Undisturbed'
  <2>1. /\ ~Busy(w) /\ phase[m] = "waiting" /\ phase'[m] = "taken"
        /\ \A k \in Msgs : k # m => phase'[k] = phase[k]
        /\ UNCHANGED <<mails, status, lostUpdates>> /\ holds' = holds \cup {w}
    BY <1>2, <1>t DEF Start, Queue!Take, Queue!Move, Busy, At
  <2>2. PICK n \in Notes : n = NoteOf[m]
    BY WorkerAssumption
  <2>3. /\ NoteAt(w)' = n /\ job'[w].msg = m /\ job'[w].error = "none"
        /\ job'[w].step = IF n \in Incomplete THEN "finish" ELSE "fetch"
        /\ \A v \in Workers : v # w => job'[v] = job[v]
    BY <1>2, <1>t, <2>2 DEF Start, NoteAt
  <2>4. \A v \in Workers : Busy(v) /\ v # w => NoteAt(v) # n
    BY <1>o, <1>u, <2>1, <2>2 DEF Fine, PublishedOnce
  <2>5. /\ PublishedOnce' /\ ToCome(n) /\ ~ToCome(n)' /\ ~Settled(n)'
    BY <1>u, <2>1, <2>2, OneMessage
  <2>6. Resting(n) /\ mails[n] = 0
    BY <1>u, <2>5 DEF Resting
  <2>7. Fine(w)' /\ Resting(n)'
    BY <2>1, <2>3, <2>5, <2>6 DEF Fine, Resting
  <2>8. \A k \in Msgs : NoteOf[k] # n => phase'[k] = phase[k]
    BY <2>1, <2>2
  <2> QED
    BY <1>u, <2>1, <2>3, <2>4, <2>5, <2>7, <2>8, OwnStep
\* A step within the job of w: its notification stays taken.
<1>m. ASSUME NEW w \in Workers, Busy(w), UNCHANGED <<phase, holds>>,
             \A v \in Workers : v # w => job'[v] = job[v],
             NoteAt(w)' = NoteAt(w), job'[w].msg = job[w].msg,
             \A k \in Notes : k # NoteAt(w) =>
                 /\ mails'[k] = mails[k] /\ status'[k] = status[k]
                 /\ k \in lostUpdates' <=> k \in lostUpdates,
             NoteAt(w) \in Incomplete =>
                 /\ job'[w].step = "finish" /\ job'[w].error = "none"
                 /\ mails'[NoteAt(w)] = 0 /\ status'[NoteAt(w)] = "PENDING",
             NoteAt(w) \notin Incomplete =>
                 (mails'[NoteAt(w)] > 0 <=>
                     job'[w].step \in {"mark", "log", "finish"} /\ job'[w].error = "none"),
             NoteAt(w) \notin Incomplete /\ NoteAt(w) \notin lostUpdates'
                 /\ job'[w].step \in {"log", "finish"} => status'[NoteAt(w)] = Outcome(job'[w])
      PROVE  Undisturbed'
  <2>1. PICK n \in Notes : n = NoteAt(w) /\ Fine(w)
                             /\ \A v \in Workers : Busy(v) /\ v # w => NoteAt(v) # n
    BY <1>m, <1>o
  <2>2. phase[job[w].msg] = "taken" /\ job[w].msg \in Msgs /\ NoteOf[job[w].msg] = n /\ w \in holds'
    BY <1>m, <1>o, <2>1 DEF Fine
  <2>3. Fine(w)'
    BY <1>m, <2>1, <2>2 DEF Fine
  <2>4. PublishedOnce' /\ ~ToCome(n)' /\ ~Settled(n)'
    BY <1>m, <1>u, <2>2, OneMessage
  <2>5. Resting(n)'
    BY <1>m, <2>1, <2>4 DEF Resting
  <2>6. Busy(w)' => NoteAt(w)' = n /\ Fine(w)'
    BY <1>m, <2>1, <2>3
  <2>7. \A k \in Notes : k # n =>
            /\ mails'[k] = mails[k] /\ status'[k] = status[k]
            /\ k \in lostUpdates' <=> k \in lostUpdates
    BY <1>m, <2>1
  <2> QED
    BY <1>m, <1>u, <2>1, <2>4, <2>5, <2>6, <2>7, OwnStep
<1>3. ASSUME NEW w \in Workers, Fetch(w) \/ Render(w) PROVE Undisturbed'
  <2>1. Busy(w) /\ job[w].step \in {"fetch", "render"}
    BY <1>3 DEF Fetch, Render, Prepare, Busy, At
  <2>2. /\ \/ job'[w].step \in {"render", "send"} /\ job'[w].error = job[w].error
           \/ job'[w].step = "mark" /\ job'[w].error \in Errors
        /\ NoteAt(w)' = NoteAt(w) /\ job'[w].msg = job[w].msg
        /\ \A v \in Workers : v # w => job'[v] = job[v]
    <3>1. CASE \E next \in {"render", "send"} : Goto(w, next)
      BY <1>s, <1>t, <2>1, <3>1, GotoJob
    <3>2. CASE \E err \in Errors : Fail(w, "mark", err)
      BY <1>s, <1>t, <2>1, <3>2, FailJob
    <3> QED
      BY <1>3, <3>1, <3>2 DEF Fetch, Render, Prepare
  <2>3. UNCHANGED <<phase, holds, mails, status, lostUpdates>>
    BY <1>3 DEF Fetch, Render, Prepare
  <2>4. Fine(w) /\ NoteAt(w) \notin Incomplete
    BY <1>o, <2>1 DEF Fine
  <2>5. ~(mails[NoteAt(w)] > 0)
    BY <2>1, <2>4 DEF Fine
  <2> QED
    BY <1>m, <2>1, <2>2, <2>3, <2>4, <2>5 DEF Errors
<1>4. ASSUME NEW w \in Workers, SendOk(w) PROVE Undisturbed'
  <2>1. Busy(w) /\ job[w].step = "send" /\ job[w].error = "none"
    BY <1>4 DEF SendOk, Busy, At, JobFacts
  <2>2. /\ NoteAt(w)' = NoteAt(w) /\ job'[w].msg = job[w].msg /\ job'[w].step = "mark" /\ job'[w].error = "none"
        /\ \A v \in Workers : v # w => job'[v] = job[v]
    BY <1>4, <1>s, <1>t, <2>1, GotoJob DEF SendOk
  <2>3. Fine(w) /\ NoteAt(w) \notin Incomplete /\ NoteAt(w) \in Notes
    BY <1>o, <2>1 DEF Fine
  <2>4. /\ mails'[NoteAt(w)] > 0
        /\ \A m \in Notes : m # NoteAt(w) => mails'[m] = mails[m]
        /\ UNCHANGED <<phase, holds, status, lostUpdates>>
    BY <1>4, <1>t, <2>3 DEF SendOk, MailAccepted
  <2> QED
    BY <1>m, <2>1, <2>2, <2>3, <2>4
<1>5. ASSUME NEW w \in Workers, SendRefused(w) PROVE Undisturbed'
  <2>1. Busy(w) /\ job[w].step = "send" /\ job[w].error = "none"
    BY <1>5 DEF SendRefused, Busy, At, JobFacts
  <2>2. /\ \/ job'[w].step = "send" /\ job'[w].error = "none"
           \/ job'[w].step = "mark" /\ job'[w].error \in Errors
        /\ NoteAt(w)' = NoteAt(w) /\ job'[w].msg = job[w].msg
        /\ \A v \in Workers : v # w => job'[v] = job[v]
    BY <1>5, <1>t, <2>1, SendErrorJob DEF SendRefused
  <2>3. UNCHANGED <<phase, holds, mails, status, lostUpdates>>
    BY <1>5 DEF SendRefused
  <2>4. Fine(w) /\ NoteAt(w) \notin Incomplete
    BY <1>o, <2>1 DEF Fine
  <2>5. ~(mails[NoteAt(w)] > 0)
    BY <2>1, <2>4 DEF Fine
  <2> QED
    BY <1>m, <2>1, <2>2, <2>3, <2>4, <2>5 DEF Errors
<1>6. ASSUME NEW w \in Workers, MarkOk(w) \/ MarkFails(w) PROVE Undisturbed'
  <2>1. Busy(w) /\ job[w].step = "mark"
    BY <1>6 DEF MarkOk, MarkFails, Busy, At
  <2>2. Goto(w, "log") \/ Goto(w, "finish")
    BY <1>6 DEF MarkOk, MarkFails
  <2>3. /\ NoteAt(w)' = NoteAt(w) /\ job'[w].msg = job[w].msg /\ job'[w].step \in {"log", "finish"}
        /\ job'[w].error = job[w].error
        /\ \A v \in Workers : v # w => job'[v] = job[v]
    BY <1>s, <1>t, <2>1, <2>2, GotoJob
  <2>4. Fine(w) /\ NoteAt(w) \notin Incomplete /\ NoteAt(w) \in Notes
    BY <1>o, <2>1 DEF Fine
  <2>5. UNCHANGED <<phase, holds, mails>>
    BY <1>6 DEF MarkOk, MarkFails
  <2>6. \A m \in Notes : m # NoteAt(w) =>
            status'[m] = status[m] /\ (m \in lostUpdates' <=> m \in lostUpdates)
    BY <1>6, <1>t, <2>4 DEF MarkOk, MarkFails, SetStatus
  <2>7. NoteAt(w) \in lostUpdates' \/ status'[NoteAt(w)] = Outcome(job[w])
    BY <1>6, <1>t, <2>4 DEF MarkOk, MarkFails, SetStatus
  <2>8. Outcome(job'[w]) = Outcome(job[w])
    BY <2>3 DEF Outcome
  <2>9. mails[NoteAt(w)] > 0 <=> job[w].error = "none"
    BY <2>1, <2>4 DEF Fine
  <2> QED
    BY <1>m, <2>1, <2>3, <2>4, <2>5, <2>6, <2>7, <2>8, <2>9
<1>7. ASSUME NEW w \in Workers, Log(w) PROVE Undisturbed'
  <2>1. Busy(w) /\ job[w].step = "log"
    BY <1>7 DEF Log, Busy, At
  <2>2. /\ NoteAt(w)' = NoteAt(w) /\ job'[w].msg = job[w].msg /\ job'[w].step = "finish" /\ job'[w].error = job[w].error
        /\ \A v \in Workers : v # w => job'[v] = job[v]
    BY <1>7, <1>s, <1>t, <2>1, GotoJob DEF Log
  <2>3. UNCHANGED <<phase, holds, mails, status, lostUpdates>>
    BY <1>7 DEF Log
  <2>4. Fine(w) /\ NoteAt(w) \notin Incomplete
    BY <1>o, <2>1 DEF Fine
  <2>5. Outcome(job'[w]) = Outcome(job[w])
    BY <2>2 DEF Outcome
  <2>6. mails[NoteAt(w)] > 0 <=> job[w].error = "none"
    BY <2>1, <2>4 DEF Fine
  <2>7. NoteAt(w) \notin lostUpdates => status[NoteAt(w)] = Outcome(job[w])
    BY <2>1, <2>4 DEF Fine
  <2> QED
    BY <1>m, <2>1, <2>2, <2>3, <2>4, <2>5, <2>6, <2>7
\* The end of a job: acknowledged, or given back after a temporary error.
<1>8. ASSUME NEW w \in Workers, Resolve(w) \/ Reject(w) PROVE Undisturbed'
  <2>1. Busy(w) /\ job[w].step = "finish" /\ GoIdle(w)
    BY <1>8 DEF Resolve, Reject, Busy, At
  <2>m. PICK m \in Msgs : m = job[w].msg
    BY <1>o, <2>1
  <2>2. PICK n \in Notes :
            /\ n = NoteAt(w) /\ NoteOf[m] = n
            /\ Fine(w) /\ Resting(n) /\ job[w].error \in Errors \cup {"none"}
            /\ \A v \in Workers : Busy(v) /\ v # w => NoteAt(v) # n
    BY <1>o, <2>m, <2>1
  <2>3. /\ job'[w].step = "idle" /\ holds' = holds \ {w}
        /\ \A v \in Workers : v # w => job'[v] = job[v]
    BY <1>t, <2>1, IdleJob
  <2>4. UNCHANGED <<mails, status, lostUpdates>>
    BY <1>8 DEF Resolve, Reject
  <2>5. w \in holds /\ phase[m] = "taken"
    BY <2>m, <2>2 DEF Fine
  <2>6. /\ phase'[m] = IF job[w].error = "retriable" THEN "waiting" ELSE "settled"
        /\ \A k \in Msgs : k # m => phase'[k] = phase[k]
    <3>1. CASE Resolve(w)
      BY <1>t, <2>m, <2>2, <2>5, <3>1 DEF Resolve, Queue!Complete, Queue!Move
    <3>2. CASE Reject(w)
      BY <1>t, <2>m, <2>2, <2>5, <3>2 DEF Reject, Queue!GiveBack
    <3> QED
      BY <1>8, <3>1, <3>2
  <2>o. /\ PublishedOnce'
        /\ ToCome(n)' <=> job[w].error = "retriable"
        /\ Settled(n)' <=> job[w].error # "retriable"
    BY <1>u, <2>2, <2>5, <2>6, OneMessage
  <2>7. Resting(n)'
    <3>1. CASE n \in Incomplete
      BY <2>2, <2>4, <3>1 DEF Resting
    <3>2. CASE n \notin Incomplete
      <4>1. mails[n] > 0 <=> job[w].error = "none"
        BY <2>1, <2>2, <3>2 DEF Fine
      <4>2. n \notin lostUpdates => status[n] = Outcome(job[w])
        BY <2>1, <2>2, <3>2 DEF Fine
      <4>3. ToCome(n)' => mails[n] = 0
        BY <1>t, <2>2, <2>o, <4>1
      <4> QED
        BY <2>4, <3>2, <4>1, <4>2, <4>3 DEF Resting, Outcome
    <3> QED
      BY <3>1, <3>2
  <2>8. ~Busy(w)' /\ \A v \in Workers : v # w => (v \in holds => v \in holds')
    BY <2>3 DEF Busy, At
  <2>9. \A k \in Msgs : NoteOf[k] # n => phase'[k] = phase[k]
    BY <2>2, <2>6
  <2> QED
    BY <1>u, <2>2, <2>3, <2>4, <2>o, <2>7, <2>8, <2>9, OwnStep
<1>9. CASE UNCHANGED vars
  BY <1>9, <1>u
     DEF vars, Undisturbed, Alone, PublishedOnce, Busy, At, NoteAt, Fine, Resting, ToCome, Settled
<1> QED
  BY <1>1, <1>2, <1>3, <1>4, <1>5, <1>6, <1>7, <1>8, <1>9, <1>f
     DEF Next, SendReplyLost, LoseConnection, Crash

\* Without faults and failed updates, the row of a settled message tells what
\* happened to it, whatever FAILED earlier attempts have left there.
THEOREM StatusOfSettled == Spec => []SettledStatusIsRight
<1>1. Init => Undisturbed
  <2> SUFFICES ASSUME Init PROVE Undisturbed
    OBVIOUS
  <2>1. \A w \in Workers : ~Busy(w)
    BY DEF Init, Idle, Busy, At
  <2>2. \A n \in Notes : Resting(n)
    BY DEF Init, Queue!CInit, Resting, Settled
  <2>3. PublishedOnce
    BY DEF Init, Queue!CInit, PublishedOnce
  <2> QED
    BY <2>1, <2>2, <2>3 DEF Undisturbed, Alone
<1>2. IInv /\ Undisturbed /\ [Next]_vars => Undisturbed'
  BY UndisturbedNext DEF IInv, Outcomes
<1>3. Undisturbed => SettledStatusIsRight
  BY WorkerAssumption DEF Undisturbed, Resting, Settled, SettledStatusIsRight
<1> QED
  BY <1>1, <1>2, <1>3, Invariance, PTL DEF Spec

-------------------------------------------------------------------------------
(* Who holds a message *)

\* A message that is taken has exactly one worker that holds it; a worker
\* without a hold is one whose connection broke.
Holding ==
    /\ \A w \in holds : phase[job[w].msg] = "taken"
    /\ \A v, w \in holds : job[v].msg = job[w].msg => v = w
    /\ \A m \in Msgs : phase[m] = "taken" => \E w \in holds : job[w].msg = m
    /\ \A w \in Workers : Busy(w) => phase[job[w].msg] # "unsent"

\* A step within the jobs leaves the holds as they are.
LEMMA InnerStep ==
    ASSUME TypeOK', Holding, UNCHANGED <<phase, holds>>,
           \A w \in Workers : Busy(w)' => Busy(w) /\ job'[w].msg = job[w].msg
    PROVE  Holding'
<1>1. \A w \in holds : w \in Workers /\ Busy(w)' /\ job'[w].msg = job[w].msg
  BY DEF TypeOK
<1> QED
  BY <1>1 DEF Holding

\* w ends its job or loses its connection: if it held the message, this is
\* settled or given back, and otherwise left alone.
LEMMA EndOfHold ==
    ASSUME TypeOK, Holding, NEW w \in Workers, NEW m \in Msgs, Busy(w), job[w].msg = m,
           \A v \in Workers : v # w => job'[v] = job[v],
           ~Busy(w)' \/ job'[w] = job[w],
           holds' = holds \ {w},
           phase'[m] = phase[m] \/ phase'[m] \in {"waiting", "settled"},
           w \in holds <=> phase'[m] # phase[m],
           \A k \in Msgs : k # m => phase'[k] = phase[k]
    PROVE  Holding'
<1>h. \A v \in holds : v \in Workers /\ Busy(v) /\ job[v].msg \in Msgs
  BY BusyJob DEF TypeOK
<1>b. \A v \in Workers : Busy(v)' => Busy(v) /\ job'[v] = job[v] /\ job[v].msg \in Msgs
  BY BusyJob DEF TypeOK, Busy, At
<1>k. \A v \in holds' : v \in holds /\ v # w /\ job'[v] = job[v]
  BY <1>h
<1>1. \A v \in holds' : phase'[job'[v].msg] = "taken"
  <2> SUFFICES ASSUME NEW v \in holds' PROVE phase'[job'[v].msg] = "taken"
    OBVIOUS
  <2>1. CASE w \in holds
    BY <1>h, <1>k, <2>1 DEF Holding
  <2>2. CASE w \notin holds
    BY <1>h, <1>k, <2>2 DEF Holding
  <2> QED
    BY <2>1, <2>2
<1>2. \A k \in Msgs : phase'[k] = "taken" => \E v \in holds' : job'[v].msg = k
  <2> SUFFICES ASSUME NEW k \in Msgs, phase'[k] = "taken"
               PROVE  \E v \in holds' : job'[v].msg = k
    OBVIOUS
  <2>1. phase[k] = "taken" /\ (k = m => w \notin holds)
    OBVIOUS
  <2>2. PICK v \in holds : job[v].msg = k
    BY <2>1 DEF Holding
  <2>3. v # w
    BY <2>1, <2>2
  <2> QED
    BY <1>h, <2>2, <2>3
<1>3. \A v \in Workers : Busy(v)' => phase'[job'[v].msg] # "unsent"
  <2> SUFFICES ASSUME NEW v \in Workers, Busy(v)' PROVE phase'[job[v].msg] # "unsent"
    BY <1>b
  <2>1. phase[job[v].msg] # "unsent" /\ job[v].msg \in Msgs
    BY <1>b DEF Holding
  <2> QED
    BY <2>1
<1>4. \A u, v \in holds' : job'[u].msg = job'[v].msg => u = v
  BY <1>k DEF Holding
<1> QED
  BY <1>1, <1>2, <1>3, <1>4 DEF Holding

LEMMA HoldingNext == TypeOK /\ Holding /\ [Next]_vars => Holding'
<1> SUFFICES ASSUME TypeOK, Holding, [Next]_vars PROVE Holding'
  OBVIOUS
<1> USE DEF history, dbVars, queueVars
<1>t. /\ job \in [Workers -> Jobs] /\ phase \in [Msgs -> Queue!Phases]
      /\ holds \subseteq {w \in Workers : Busy(w)}
  BY DEF TypeOK
<1>u. TypeOK'
  BY TypeOKNext
<1>s. {"render", "send", "mark", "log", "finish"} \subseteq Steps
  BY DEF Steps
<1>n. \A w \in Workers : Busy(w) => job[w].msg \in Msgs
  BY <1>t, BusyJob
<1>1. ASSUME NEW m \in Msgs, Arrive(m) \/ Expire(m) PROVE Holding'
  <2>1. /\ phase[m] \in {"unsent", "waiting"} /\ phase'[m] \in {"waiting", "dead"}
        /\ \A k \in Msgs : k # m => phase'[k] = phase[k]
        /\ UNCHANGED <<job, holds>>
    BY <1>1, <1>t DEF Arrive, Expire, Queue!Send, Queue!Discard, Queue!Move
  <2>2. \A w \in holds : job[w].msg \in Msgs
    BY <1>n, <1>t
  <2> QED
    BY <1>n, <2>1, <2>2 DEF Holding, Busy, At
<1>2. ASSUME NEW w \in Workers, NEW m \in Msgs, Start(w, m) PROVE Holding'
  <2>1. /\ phase[m] = "waiting" /\ phase'[m] = "taken"
        /\ \A k \in Msgs : k # m => phase'[k] = phase[k]
        /\ job'[w].msg = m /\ \A v \in Workers : v # w => job'[v] = job[v]
        /\ holds' = holds \cup {w} /\ ~Busy(w)
    BY <1>2, <1>t DEF Start, Queue!Take, Queue!Move, Busy
  <2>2. \A v \in holds : v # w /\ job'[v] = job[v] /\ job[v].msg \in Msgs /\ job[v].msg # m
    BY <1>n, <1>t, <2>1 DEF Holding
  <2>3. \A k \in Msgs : phase'[k] = "taken" => \E v \in holds' : job'[v].msg = k
    <3> SUFFICES ASSUME NEW k \in Msgs, phase'[k] = "taken", k # m
                 PROVE  \E v \in holds' : job'[v].msg = k
      BY <2>1
    <3>1. PICK v \in holds : job[v].msg = k
      BY <2>1 DEF Holding
    <3> QED
      BY <2>1, <2>2, <3>1
  <2>4. \A v \in Workers : Busy(v)' => phase'[job'[v].msg] # "unsent"
    <3> SUFFICES ASSUME NEW v \in Workers, Busy(v)', v # w PROVE phase'[job[v].msg] # "unsent"
      BY <2>1
    <3>1. Busy(v) /\ phase[job[v].msg] # "unsent" /\ job[v].msg \in Msgs
      BY <1>n, <2>1 DEF Holding, Busy, At
    <3> QED
      BY <2>1, <3>1
  <2>5. \A v \in holds' : phase'[job'[v].msg] = "taken"
    BY <2>1, <2>2 DEF Holding
  <2>6. \A u, v \in holds' : job'[u].msg = job'[v].msg => u = v
    BY <2>1, <2>2 DEF Holding
  <2> QED
    BY <2>3, <2>4, <2>5, <2>6 DEF Holding
<1>3. ASSUME NEW w \in Workers, Busy(w), job'[w].msg = job[w].msg,
             \A v \in Workers : v # w => job'[v] = job[v], UNCHANGED <<phase, holds>>
      PROVE  Holding'
  BY <1>3, <1>u, InnerStep DEF Busy, At
<1>4. ASSUME NEW w \in Workers, Fetch(w) \/ Render(w) PROVE Holding'
  <2>1. Busy(w) /\ UNCHANGED <<phase, holds>>
    BY <1>4 DEF Fetch, Render, Prepare, Busy, At
  <2>2. job'[w].msg = job[w].msg /\ \A v \in Workers : v # w => job'[v] = job[v]
    <3>1. CASE \E next \in {"render", "send"} : Goto(w, next)
      BY <1>s, <1>t, <2>1, <3>1, GotoJob
    <3>2. CASE \E err \in Errors : Fail(w, "mark", err)
      BY <1>s, <1>t, <2>1, <3>2, FailJob
    <3> QED
      BY <1>4, <3>1, <3>2 DEF Fetch, Render, Prepare
  <2> QED
    BY <1>3, <2>1, <2>2
<1>5. ASSUME NEW w \in Workers, SendOk(w) \/ MarkOk(w) \/ MarkFails(w) \/ Log(w) PROVE Holding'
  <2>1. Busy(w) /\ UNCHANGED <<phase, holds>>
    BY <1>5 DEF SendOk, MarkOk, MarkFails, Log, Busy, At
  <2>2. Goto(w, "mark") \/ Goto(w, "log") \/ Goto(w, "finish")
    BY <1>5 DEF SendOk, MarkOk, MarkFails, Log
  <2>3. job'[w].msg = job[w].msg /\ \A v \in Workers : v # w => job'[v] = job[v]
    BY <1>s, <1>t, <2>1, <2>2, GotoJob
  <2> QED
    BY <1>3, <2>1, <2>3
<1>6. ASSUME NEW w \in Workers, SendRefused(w) \/ SendReplyLost(w) PROVE Holding'
  <2>1. Busy(w) /\ At(w, "send") /\ UNCHANGED <<phase, holds>>
    BY <1>6 DEF SendRefused, SendReplyLost, Busy, At
  <2>2. job'[w].msg = job[w].msg /\ \A v \in Workers : v # w => job'[v] = job[v]
    BY <1>6, <1>t, <2>1, SendErrorJob DEF SendRefused, SendReplyLost, Errors
  <2> QED
    BY <1>3, <2>1, <2>2
\* A hold that ends gives the message back, unless the worker acknowledges.
<1>7. ASSUME NEW w \in Workers, Busy(w),
             Queue!GiveBack(IF w \in holds THEN {job[w].msg} ELSE {}),
             holds' = holds \ {w}, ~Busy(w)' \/ job'[w] = job[w],
             \A v \in Workers : v # w => job'[v] = job[v]
      PROVE  Holding'
  <2>1. PICK m \in Msgs : m = job[w].msg
    BY <1>7, <1>n
  <2>2. \A k \in Msgs : phase'[k] = IF w \in holds /\ k = m THEN "waiting" ELSE phase[k]
    BY <1>7, <1>t, <2>1 DEF Queue!GiveBack
  <2>3. w \in holds => phase[m] = "taken"
    BY <2>1 DEF Holding
  <2> QED
    BY <1>7, <2>1, <2>2, <2>3, EndOfHold
<1>8. ASSUME NEW w \in Workers, Reject(w) \/ Crash(w) PROVE Holding'
  <2>1. Busy(w) /\ GoIdle(w)
    BY <1>8 DEF Reject, Crash, Busy, At
  <2>2. ~Busy(w)' /\ holds' = holds \ {w} /\ \A v \in Workers : v # w => job'[v] = job[v]
    BY <1>t, <2>1, IdleJob DEF Busy, At
  <2> QED
    BY <1>7, <1>8, <2>1, <2>2 DEF Reject, Crash
<1>9. ASSUME NEW w \in Workers, LoseConnection(w) PROVE Holding'
  <2>1. w \in holds /\ Busy(w) /\ UNCHANGED job /\ holds' = holds \ {w}
    BY <1>9, <1>t DEF LoseConnection
  <2> QED
    BY <1>7, <1>9, <2>1 DEF LoseConnection
<1>10. ASSUME NEW w \in Workers, Resolve(w) PROVE Holding'
  <2>1. Busy(w) /\ GoIdle(w)
    BY <1>10 DEF Resolve, Busy, At
  <2>2. ~Busy(w)' /\ holds' = holds \ {w} /\ \A v \in Workers : v # w => job'[v] = job[v]
    BY <1>t, <2>1, IdleJob DEF Busy, At
  <2>3. PICK m \in Msgs : m = job[w].msg
    BY <2>1, <1>n
  <2>4. /\ UNCHANGED phase \/ (phase[m] = "taken" /\ phase' = [phase EXCEPT ![m] = "settled"])
        /\ w \in holds <=> phase' # phase
    BY <1>10, <2>3 DEF Resolve, Queue!Complete, Queue!Move
  <2>5. /\ phase'[m] = phase[m] \/ phase'[m] \in {"waiting", "settled"}
        /\ w \in holds <=> phase'[m] # phase[m]
        /\ \A k \in Msgs : k # m => phase'[k] = phase[k]
    BY <1>t, <2>4
  <2> QED
    BY <2>1, <2>2, <2>3, <2>5, EndOfHold
<1>11. CASE UNCHANGED vars
  BY <1>11, <1>u, InnerStep DEF vars, Busy, At
<1> QED
  BY <1>1, <1>2, <1>4, <1>5, <1>6, <1>8, <1>9, <1>10, <1>11 DEF Next

\* email.consumer.ts with any number of concurrent handlers, crashes and broken
\* connections: a message the broker has handed out is held by one handler,
\* never by two and never by none.
THEOREM TakenHasOneHolder == Spec => []Holding
<1>1. Init => Holding
  BY DEF Init, Queue!CInit, Holding, Idle, Busy, At
<1>2. IInv => TypeOK
  BY DEF IInv
<1> QED
  BY <1>1, <1>2, HoldingNext, Invariance, PTL DEF Spec

-------------------------------------------------------------------------------
(* The end of sending *)

SendingSteps == {"send", "mark", "log", "finish"}

\* Steps a handler has left at most: what is left of the retries, the
\* update, the log entry and the return.
Remaining(j) ==
    CASE j.step = "send"   -> 4 + MaxRetries - j.tries
      [] j.step = "mark"   -> 3
      [] j.step = "log"    -> 2
      [] j.step = "finish" -> 1
      [] OTHER             -> 0

\* A handler that has begun to send comes closer to its return with every step
\* it takes, whatever SMTP and the database answer and whatever fails, and it
\* never goes back to an earlier part (email.service.ts sendEmail and
\* updateNotificationStatus).
SendingDescends ==
    \A w \in Workers : job[w].step \in SendingSteps =>
        \/ job'[w] = job[w]
        \/ /\ job'[w].step \in SendingSteps \cup {"idle"}
           /\ Remaining(job'[w]) < Remaining(job[w])

\* The environment never has to do anything for the handler to take its next
\* step: what the return needs of the queue holds whenever it is due.
CanReturn ==
    \A w \in Workers : At(w, "finish") =>
        /\ w \in holds => phase[job[w].msg] = "taken"
        /\ w \notin holds => phase[job[w].msg] # "unsent"

LEMMA RemainingValues ==
    ASSUME job \in [Workers -> Jobs], NEW w \in Workers
    PROVE  /\ job[w].step = "send" =>
                 /\ job[w].tries \in 0..MaxRetries
                 /\ Remaining(job[w]) = 4 + MaxRetries - job[w].tries
                 /\ Remaining(job[w]) \in 4..(4 + MaxRetries)
           /\ job[w].step = "mark" => Remaining(job[w]) = 3
           /\ job[w].step = "log" => Remaining(job[w]) = 2
           /\ job[w].step = "finish" => Remaining(job[w]) = 1
           /\ job[w].step = "idle" => Remaining(job[w]) = 0
<1>1. job[w].step = "send" => job[w].tries \in 0..MaxRetries
  BY BusyJob DEF Busy, At
<1> QED
  BY <1>1, WorkerAssumption DEF Remaining

LEMMA SendingNext == TypeOK /\ TypeOK' /\ [Next]_vars => SendingDescends
<1> SUFFICES ASSUME TypeOK, TypeOK', [Next]_vars, NEW w \in Workers, job[w].step \in SendingSteps,
                    job'[w] # job[w]
             PROVE  /\ job'[w].step \in SendingSteps \cup {"idle"}
                    /\ Remaining(job'[w]) < Remaining(job[w])
  BY DEF SendingDescends
<1> USE DEF SendingSteps
<1>t. job \in [Workers -> Jobs] /\ job' \in [Workers -> Jobs] /\ Busy(w)
  BY DEF TypeOK, Busy, At
<1>s. {"mark", "log", "finish"} \subseteq Steps
  BY DEF Steps
<1>r. /\ job[w].step = "send" => Remaining(job[w]) \in Nat /\ Remaining(job[w]) >= 4
      /\ job[w].step = "mark" => Remaining(job[w]) = 3
      /\ job[w].step = "log" => Remaining(job[w]) = 2
      /\ job[w].step = "finish" => Remaining(job[w]) = 1
  BY <1>t, RemainingValues, WorkerAssumption
<1>q. /\ job'[w].step = "mark" => Remaining(job'[w]) = 3
      /\ job'[w].step = "log" => Remaining(job'[w]) = 2
      /\ job'[w].step = "finish" => Remaining(job'[w]) = 1
      /\ job'[w].step = "idle" => Remaining(job'[w]) = 0
  BY DEF Remaining
\* Steps of w that change its job.
<1>1. CASE SendOk(w) \/ MarkOk(w) \/ MarkFails(w) \/ Log(w)
  <2>1. \/ job[w].step = "send" /\ Goto(w, "mark")
        \/ job[w].step = "mark" /\ (Goto(w, "log") \/ Goto(w, "finish"))
        \/ job[w].step = "log" /\ Goto(w, "finish")
    BY <1>1 DEF SendOk, MarkOk, MarkFails, Log, At
  <2>2. \/ job[w].step = "send" /\ job'[w].step = "mark"
        \/ job[w].step = "mark" /\ job'[w].step \in {"log", "finish"}
        \/ job[w].step = "log" /\ job'[w].step = "finish"
    BY <1>s, <1>t, <2>1, GotoJob
  <2> QED
    BY <1>r, <1>q, <2>2
<1>2. CASE \E err \in Errors : At(w, "send") /\ SendError(w, err)
  <2>1. PICK err \in Errors : At(w, "send") /\ SendError(w, err)
    BY <1>2
  <2>2. CASE job[w].tries < MaxRetries
    <3>1. job[w] \in [msg : Msgs, step : Steps, tries : 0..MaxRetries,
                      error : Errors \cup {"none"}]
      BY <1>t, BusyJob
    <3>2. job'[w] = [job[w] EXCEPT !.tries = @ + 1]
      BY <1>t, <2>1, <2>2 DEF SendError
    <3>3. job'[w].step = "send" /\ job'[w].tries = job[w].tries + 1
      BY <2>1, <3>1, <3>2 DEF At
    <3>4. Remaining(job'[w]) = 4 + MaxRetries - (job[w].tries + 1)
      BY <3>3 DEF Remaining
    <3>5. Remaining(job[w]) = 4 + MaxRetries - job[w].tries /\ job[w].tries \in Nat
      BY <1>t, <2>1, RemainingValues DEF At
    <3> QED
      BY <3>3, <3>4, <3>5, WorkerAssumption
  <2>3. CASE ~(job[w].tries < MaxRetries)
    <3>1. job'[w].step = "mark"
      BY <1>s, <1>t, <2>1, <2>3, FailJob DEF SendError
    <3> QED
      BY <1>r, <1>q, <2>1, <3>1 DEF At
  <2> QED
    BY <2>2, <2>3
<1>3. CASE GoIdle(w)
  <2>1. job'[w].step = "idle"
    BY <1>3, <1>t, IdleJob
  <2> QED
    BY <1>r, <1>q, <2>1
\* Any other step leaves the job of w alone, or is not for a sending worker.
<1>4. ASSUME NEW v \in Workers, v # w,
             \/ \E step \in Steps : Goto(v, step) \/ \E err \in Errors : Fail(v, step, err)
             \/ \E err \in Errors : SendError(v, err)
             \/ GoIdle(v)
      PROVE  FALSE
  BY <1>4, <1>t DEF Goto, Fail, SendError, GoIdle
<1>5. ASSUME NEW v \in Workers, NEW m \in Msgs, Start(v, m) PROVE FALSE
  BY <1>5, <1>t DEF Start, At
<1>6. ASSUME NEW v \in Workers, Fetch(v) \/ Render(v) PROVE FALSE
  <2>1. v # w
    BY <1>6 DEF Fetch, Render, Prepare, At
  <2>2. {"render", "send", "mark"} \subseteq Steps
    BY DEF Steps
  <2> QED
    BY <1>4, <1>6, <2>1, <2>2 DEF Fetch, Render, Prepare
<1>7. ASSUME NEW v \in Workers, v # w PROVE ~SendOk(v) /\ ~MarkOk(v) /\ ~MarkFails(v) /\ ~Log(v)
  BY <1>4, <1>7, <1>s DEF SendOk, MarkOk, MarkFails, Log
<1>8. ASSUME NEW v \in Workers, v # w PROVE ~SendRefused(v) /\ ~SendReplyLost(v)
  BY <1>4, <1>8 DEF SendRefused, SendReplyLost, Errors
<1>9. ASSUME NEW v \in Workers, v # w PROVE ~Resolve(v) /\ ~Reject(v) /\ ~Crash(v)
  BY <1>4, <1>9 DEF Resolve, Reject, Crash
<1>10. SendRefused(w) \/ SendReplyLost(w) => \E err \in Errors : At(w, "send") /\ SendError(w, err)
  BY DEF SendRefused, SendReplyLost, Errors
<1>11. Resolve(w) \/ Reject(w) \/ Crash(w) => GoIdle(w)
  BY DEF Resolve, Reject, Crash
<1>12. \A m \in Msgs : ~Arrive(m) /\ ~Expire(m)
  BY DEF Arrive, Expire
<1>13. \A v \in Workers : ~LoseConnection(v)
  BY DEF LoseConnection
<1>14. ~UNCHANGED vars
  BY DEF vars
<1> QED
  BY <1>1, <1>2, <1>3, <1>5, <1>6, <1>7, <1>8, <1>9, <1>10, <1>11, <1>12, <1>13, <1>14 DEF Next

\* From the first attempt to send, a handler takes at most MaxRetries + 4 steps
\* of its own, each of which it is free to take: the two facts that, with the
\* fairness of its steps, make SendingEnds true for every number of retries.
THEOREM SendingIsBounded == Spec => [][SendingDescends]_vars /\ []CanReturn
<1>1. IInv => TypeOK
  BY DEF IInv
<1>2. TypeOK /\ [Next]_vars => SendingDescends
  BY TypeOKNext, SendingNext
<1>3. Holding => CanReturn
  BY DEF Holding, CanReturn, Busy, At
<1> QED
  BY <1>1, <1>2, <1>3, Invariance, TakenHasOneHolder, PTL DEF Spec

===============================================================================
