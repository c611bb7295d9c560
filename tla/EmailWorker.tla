----------------------------- MODULE EmailWorker -----------------------------
(***************************************************************************)
(* Handling an email notification: EmailConsumer.handleMessage,            *)
(* EmailService.processNotification, sendEmail and updateNotificationStatus *)
(* of apps/email-service/src/email.                                        *)
(*                                                                         *)
(* A worker is one concurrent call of handleMessage.  Handlers share no    *)
(* memory, so it does not matter which process a worker is in.  The queue  *)
(* is DeliveryContract, which QueueConsumer implements: a worker whose     *)
(* connection broke no longer holds its message, goes on all the same, and *)
(* the message may reach another worker meanwhile.                         *)
(***************************************************************************)
EXTENDS Integers, FiniteSets

CONSTANTS
    Notes,         \* notifications
    Incomplete,    \* those stored with an empty template_code
    Msgs,          \* messages in email.queue
    NoteOf,        \* NoteOf[m]: the notification that message m carries
    Workers,       \* concurrent handlers
    MaxRetries,    \* maxRetries of sendEmail (MAX_RETRY_ATTEMPTS)
    MaxFaults      \* bound: broken connections, crashes and lost replies

ASSUME WorkerAssumption ==
    /\ IsFiniteSet(Workers) /\ IsFiniteSet(Msgs)
    /\ Incomplete \subseteq Notes
    /\ NoteOf \in [Msgs -> Notes]
    /\ MaxRetries \in Nat
    /\ MaxFaults \in Nat

VARIABLES
    phase,       \* the queue (DeliveryContract)
    processed,   \* the queue (DeliveryContract)
    job,         \* job[w]: what worker w is doing
    holds,       \* the workers whose connection is the one of their delivery
    status,      \* status[n]: notification row
    logged,      \* logged[n]: events in notification_logs
    mails,       \* history: copies of n the SMTP server accepted
    gaveUp,      \* history: a handler of m ended with a final error
    lostUpdates, \* history: an update of the row of n failed
    faults       \* history: faults so far

queueVars == <<phase, processed>>
dbVars    == <<status, logged>>
history   == <<mails, gaveUp, lostUpdates>>
vars      == <<queueVars, dbVars, job, holds, history, faults>>

Queue == INSTANCE DeliveryContract

-------------------------------------------------------------------------------
(* Jobs *)

\* The verdicts of isRetriableError on an error.  "final" is an error it names
\* as permanent and every error it does not recognise, among them temporary ones
\* (ECONNRESET, socket hang up, ENOTFOUND, 429, 504): its default is false.
Errors == {"retriable", "final"}
Steps  == {"fetch", "render", "send", "mark", "log", "finish"}

Idle == [step |-> "idle"]

Jobs == {Idle} \cup [msg   : Msgs,
                     step  : Steps,
                     tries : 0..MaxRetries,       \* retryCount of sendEmail
                     error : Errors \cup {"none"}] \* of the result

At(w, step) == job[w].step = step

Busy(w) == ~At(w, "idle")

NoteAt(w) == NoteOf[job[w].msg]

\* The status processNotification reports for this result.
Outcome(j) == IF j.error = "none" THEN "DELIVERED" ELSE "FAILED"

Goto(w, step)      == job' = [job EXCEPT ![w].step = step]
Fail(w, step, err) == job' = [job EXCEPT ![w].step = step, ![w].error = err]

Fault == faults < MaxFaults /\ faults' = faults + 1

-------------------------------------------------------------------------------
(* handleMessage, up to the send *)

\* A message without template_code is discarded by an early return.
Start(w, m) ==
    /\ At(w, "idle")
    /\ Queue!Take(m)
    /\ job' = [job EXCEPT ![w] =
                  [msg |-> m, tries |-> 0, error |-> "none",
                   step |-> IF NoteOf[m] \in Incomplete THEN "finish" ELSE "fetch"]]
    /\ holds' = holds \cup {w}
    /\ UNCHANGED <<dbVars, history, faults>>

\* fetchUserDetails, then renderTemplate; either may throw into the catch of
\* processNotification, which records FAILED.
Prepare(w, step, next) ==
    /\ At(w, step)
    /\ \/ Goto(w, next)
       \/ \E err \in Errors : Fail(w, "mark", err)
    /\ UNCHANGED <<queueVars, dbVars, holds, history, faults>>

Fetch(w)  == Prepare(w, "fetch", "render")
Render(w) == Prepare(w, "render", "send")

-------------------------------------------------------------------------------
(* sendEmail *)

\* Mutant: the bound of the retry is off by one.
SendErrorOnceMore(w, err) ==
    IF job[w].tries <= MaxRetries
    THEN job' = [job EXCEPT ![w].tries = @ + 1]
    ELSE Fail(w, "mark", err)

\* Mutant: the count starts again after the last attempt.
SendErrorForever(w, err) ==
    job' = [job EXCEPT ![w].tries = IF @ < MaxRetries THEN @ + 1 ELSE 0]

\* The catch of sendEmail: try again after the delay, or report failure.
SendError(w, err) ==
    IF job[w].tries < MaxRetries
    THEN job' = [job EXCEPT ![w].tries = @ + 1]
    ELSE Fail(w, "mark", err)

MailAccepted(w) == mails' = [mails EXCEPT ![NoteAt(w)] = @ + 1]

SendOk(w) ==
    /\ At(w, "send")
    /\ MailAccepted(w)
    /\ Goto(w, "mark")
    /\ UNCHANGED <<queueVars, dbVars, holds, gaveUp, lostUpdates, faults>>

SendRefused(w) ==
    /\ At(w, "send")
    /\ \E err \in Errors : SendError(w, err)
    /\ UNCHANGED <<queueVars, dbVars, holds, history, faults>>

\* The server took the mail but the connection broke before its reply: the
\* message of that error may be one isRetriableError knows (a timeout) or not
\* (read ECONNRESET, socket hang up).
SendReplyLost(w) ==
    /\ At(w, "send")
    /\ Fault
    /\ MailAccepted(w)
    /\ \E err \in Errors : SendError(w, err)
    /\ UNCHANGED <<queueVars, dbVars, holds, gaveUp, lostUpdates>>

-------------------------------------------------------------------------------
(* updateNotificationStatus *)

SetStatus(w) == status' = [status EXCEPT ![NoteAt(w)] = Outcome(job[w])]

\* Mutant: an error of the update reaches the catch of sendEmail.
MarkFailsLoudly(w) ==
    /\ At(w, "mark")
    /\ IF job[w].error = "none" /\ job[w].tries < MaxRetries
       THEN job' = [job EXCEPT ![w].step = "send", ![w].tries = @ + 1]
       ELSE Fail(w, "finish", "retriable")
    /\ UNCHANGED <<queueVars, dbVars, holds, history, faults>>

\* Mutant: the log entry is written although the update failed.
MarkFailsButLogs(w) ==
    /\ At(w, "mark")
    /\ Goto(w, "log")
    /\ UNCHANGED <<queueVars, dbVars, holds, history, faults>>

\* Mutant: the update leaves a row that is no longer PENDING alone.
MarkPending(w) ==
    /\ At(w, "mark")
    /\ IF status[NoteAt(w)] = "PENDING" THEN SetStatus(w) ELSE UNCHANGED status
    /\ Goto(w, "log")
    /\ UNCHANGED <<queueVars, logged, holds, history, faults>>

\* The update of the row, which replaces whatever status it had.
MarkOk(w) ==
    /\ At(w, "mark")
    /\ SetStatus(w)
    /\ Goto(w, "log")
    /\ UNCHANGED <<queueVars, logged, holds, history, faults>>

\* The update throws, before or after its commit: caught and logged to the
\* console, the result of the handler does not change.
MarkFails(w) ==
    /\ At(w, "mark")
    /\ SetStatus(w) \/ UNCHANGED status
    /\ Goto(w, "finish")
    /\ lostUpdates' = lostUpdates \cup {NoteAt(w)}
    /\ UNCHANGED <<queueVars, logged, holds, mails, gaveUp, faults>>

\* The insert into notification_logs, whose error is caught as well.
Log(w) ==
    /\ At(w, "log")
    /\ \/ logged' = [logged EXCEPT ![NoteAt(w)] = @ \cup {Outcome(job[w])}]
       \/ UNCHANGED logged
    /\ Goto(w, "finish")
    /\ UNCHANGED <<queueVars, status, holds, history, faults>>

-------------------------------------------------------------------------------
(* The end of handleMessage *)

GoIdle(w) == job' = [job EXCEPT ![w] = Idle] /\ holds' = holds \ {w}

GaveUp(w) == gaveUp' = IF job[w].error = "final" THEN gaveUp \cup {job[w].msg} ELSE gaveUp

\* Mutant: every result is acknowledged.
ResolveAlways(w) ==
    /\ At(w, "finish")
    /\ Queue!Complete(job[w].msg)
    /\ w \in holds <=> phase' # phase
    /\ GoIdle(w) /\ GaveUp(w)
    /\ UNCHANGED <<dbVars, mails, lostUpdates, faults>>

\* handleMessage resolves: sent, discarded, or failed with a final error.  The ack
\* counts if the worker still holds the delivery.
Resolve(w) ==
    /\ At(w, "finish")
    /\ job[w].error # "retriable"
    /\ Queue!Complete(job[w].msg)
    /\ w \in holds <=> phase' # phase
    /\ GoIdle(w) /\ GaveUp(w)
    /\ UNCHANGED <<dbVars, mails, lostUpdates, faults>>

\* handleMessage rejects: the message goes back to the queue.
Reject(w) ==
    /\ At(w, "finish")
    /\ job[w].error = "retriable"
    /\ Queue!GiveBack(IF w \in holds THEN {job[w].msg} ELSE {})
    /\ GoIdle(w)
    /\ UNCHANGED <<dbVars, history, faults>>

-------------------------------------------------------------------------------
(* The environment of the handlers *)

\* The worker's connection breaks: the broker gives the message back, the
\* handler goes on.
LoseConnection(w) ==
    /\ w \in holds
    /\ Fault
    /\ Queue!GiveBack({job[w].msg})
    /\ holds' = holds \ {w}
    /\ UNCHANGED <<dbVars, job, history>>

\* The process of the worker exits.
Crash(w) ==
    /\ Busy(w)
    /\ Fault
    /\ Queue!GiveBack(IF w \in holds THEN {job[w].msg} ELSE {})
    /\ GoIdle(w)
    /\ UNCHANGED <<dbVars, history>>

\* Another message of the same notification was published before.
Resent(m) == \E k \in Msgs : NoteOf[k] = NoteOf[m] /\ phase[k] # "unsent"

\* The gateway publishes a notification once; its channel wrapper publishes it
\* again when the connection broke before the confirm of the broker.
Arrive(m) ==
    /\ Queue!Send(m)
    /\ IF Resent(m) THEN Fault ELSE UNCHANGED faults
    /\ UNCHANGED <<dbVars, job, holds, history>>

Expire(m) ==
    /\ phase[m] = "waiting"
    /\ Queue!Discard(m)
    /\ UNCHANGED <<dbVars, job, holds, history, faults>>

-------------------------------------------------------------------------------
(* Specification *)

Init ==
    /\ Queue!CInit
    /\ job = [w \in Workers |-> Idle]
    /\ holds = {}
    /\ status = [n \in Notes |-> "PENDING"]
    /\ logged = [n \in Notes |-> {}]
    /\ mails = [n \in Notes |-> 0]
    /\ gaveUp = {}
    /\ lostUpdates = {}
    /\ faults = 0

\* What a worker does from the send on.
SendSteps(w) == SendOk(w) \/ SendRefused(w) \/ MarkOk(w) \/ MarkFails(w) \/ Log(w)
                  \/ Resolve(w) \/ Reject(w)

Next ==
    \/ \E m \in Msgs : Arrive(m) \/ Expire(m)
    \/ \E w \in Workers, m \in Msgs : Start(w, m)
    \/ \E w \in Workers :
          \/ Fetch(w) \/ Render(w)
          \/ SendOk(w) \/ SendRefused(w) \/ SendReplyLost(w)
          \/ MarkOk(w) \/ MarkFails(w) \/ Log(w)
          \/ Resolve(w) \/ Reject(w)
          \/ LoseConnection(w) \/ Crash(w)

Spec == Init /\ [][Next]_vars

\* SMTP and database calls return: nodemailer's transport has timeouts of its
\* own, and of the database it is assumed that an update ends or fails (Prisma
\* limits the wait for a connection, not a query).  The HTTP client has no
\* timeout, so fetching and rendering are not bound to return.
FairSpec == Spec /\ \A w \in Workers : WF_vars(SendSteps(w))

-------------------------------------------------------------------------------
(* Properties *)

\* Every variable keeps its type; retryCount stays within maxRetries.
TypeOK ==
    /\ phase \in [Msgs -> Queue!Phases]
    /\ processed \subseteq Msgs
    /\ job \in [Workers -> Jobs]
    /\ holds \subseteq {w \in Workers : Busy(w)}
    /\ status \in [Notes -> {"PENDING", "DELIVERED", "FAILED"}]
    /\ logged \in [Notes -> SUBSET {"DELIVERED", "FAILED"}]
    /\ mails \in [Notes -> Nat]
    /\ gaveUp \subseteq Msgs
    /\ lostUpdates \subseteq Notes
    /\ faults \in Nat

\* A recipient gets a notification once, plus at most once for every broken
\* connection (of a consumer or of the gateway), crash or lost SMTP reply:
\* neither the retries of sendEmail, nor those of the queue, nor a database
\* error adds a copy of its own.
ExtraMailsNeedFaults == \A n \in Notes : mails[n] <= 1 + faults

\* A message is acknowledged only when its mail was sent, a handler of this
\* very message ended with an error isRetriableError calls final, or the
\* notification was incomplete: over retries, redeliveries, resends and crashes
\* an error recognised as temporary never loses a mail (email.consumer.ts
\* 83-120).  One that is not recognised does: it is final.
SettledHasOutcome ==
    \A m \in Msgs :
        phase[m] = "settled" =>
            mails[NoteOf[m]] > 0 \/ NoteOf[m] \in Incomplete \/ m \in gaveUp

\* When a message is settled, and no fault and no failed update hit it, the
\* row tells what happened: the FAILED of an earlier attempt is replaced.
SettledStatusIsRight ==
    \A m \in Msgs :
        LET n == NoteOf[m]
        IN  phase[m] = "settled" /\ n \notin lostUpdates /\ faults = 0 =>
                status[n] = IF n \in Incomplete THEN "PENDING"
                            ELSE IF mails[n] > 0 THEN "DELIVERED" ELSE "FAILED"

\* The log never runs ahead of the row: an event is there only if the row has
\* left PENDING, and a DELIVERED event only if a mail was sent.
LogFollowsStatus ==
    \A n \in Notes :
        /\ logged[n] # {} => status[n] # "PENDING"
        /\ "DELIVERED" \in logged[n] => mails[n] > 0

\* A handler that has begun to send returns: the retry loop of sendEmail
\* ends, whatever SMTP and the database answer.
SendingEnds ==
    \A w \in Workers : At(w, "send") ~> At(w, "idle")

===============================================================================
