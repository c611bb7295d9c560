-------------------------- MODULE NotificationIntake --------------------------
(***************************************************************************)
(* The gateway accepting notifications: createNotification of              *)
(* apps/api-gateway/src/notifications/notifications.service.ts with the    *)
(* idempotency map of libs/common, the unique request_id of the database   *)
(* and the confirmed publish of libs/queue.                                *)
(*                                                                         *)
(* A call is one HTTP request of a client; calls that carry the same       *)
(* request_id are retries or duplicates.  Each gateway process (pm2 runs   *)
(* two) has an idempotency map of its own.  A notification is named by the *)
(* call that created its row.                                              *)
(***************************************************************************)
EXTENDS Integers, FiniteSets

CONSTANTS
    Calls,        \* HTTP requests
    RequestIds,   \* values of request_id
    RequestOf,    \* RequestOf[c]: the request_id call c carries
    Instances,    \* gateway processes
    None,         \* no notification
    MaxSends,     \* bound: times the broker accepts the message of one call
    MaxCrashes    \* bound: gateway crashes of one behaviour

ASSUME CallsAssumption ==
    /\ RequestOf \in [Calls -> RequestIds]
    /\ None \notin Calls
    /\ MaxSends \in Nat
    /\ MaxCrashes \in Nat

VARIABLES
    phase,     \* phase[c]: how far createNotification has got for call c
    at,        \* at[c]: the process that serves c
    answer,    \* answer[c]: what the client got
    row,       \* row[r]: the notification stored with request_id r
    sent,      \* sent[c]: times the broker accepted the message of c
    cache,     \* cache[i][r]: the idempotency map of process i
    aged,      \* aged[i]: the entries of that map older than the TTL
    crashes    \* gateway crashes so far

vars == <<phase, at, answer, row, sent, cache, aged, crashes>>

Notifications == Calls \cup {None}

NoAnswer    == [status |-> "none", id |-> None]
Ok(n)       == [status |-> "ok", id |-> n]
Failed(why) == [status |-> why, id |-> None]

Answers ==
    {NoAnswer} \cup {Ok(n) : n \in Calls} \cup {Failed(why) : why \in {"refused", "error", "lost"}}

\* The call returns or throws; the client gets a.
Reply(c, a) ==
    /\ phase'  = [phase EXCEPT ![c] = "answered"]
    /\ answer' = [answer EXCEPT ![c] = a]

Goto(c, there) == phase' = [phase EXCEPT ![c] = there] /\ UNCHANGED answer

-------------------------------------------------------------------------------
(* createNotification *)

\* Mutant: the stored result is returned whether there is one or not.
ArriveAnswered(c, i) ==
    /\ phase[c] = "idle"
    /\ at' = [at EXCEPT ![c] = i]
    /\ Reply(c, Ok(cache[i][RequestOf[c]]))
    /\ UNCHANGED <<row, sent, cache, aged, crashes>>

\* The idempotency check, with the map of the process the call landed on.
\* An entry past the TTL still answers: only a store cleans up.
Arrive(c, i) ==
    LET cached == cache[i][RequestOf[c]]
    IN  /\ phase[c] = "idle"
        /\ at' = [at EXCEPT ![c] = i]
        /\ IF cached # None THEN Reply(c, Ok(cached)) ELSE Goto(c, "validating")
        /\ UNCHANGED <<row, sent, cache, aged, crashes>>

\* The user exists and has the channel enabled.
Validate(c) ==
    /\ phase[c] = "validating"
    /\ Goto(c, "creating")
    /\ UNCHANGED <<at, row, sent, cache, aged, crashes>>

\* NotFoundException or ConflictException.
Refuse(c) ==
    /\ phase[c] = "validating"
    /\ Reply(c, Failed("refused"))
    /\ UNCHANGED <<at, row, sent, cache, aged, crashes>>

\* Mutant: the insert without the unique constraint on request_id.
CreateAnyway(c) ==
    /\ phase[c] = "creating"
    /\ row' = [row EXCEPT ![RequestOf[c]] = c]
    /\ Goto(c, "publishing")
    /\ UNCHANGED <<at, sent, cache, aged, crashes>>

\* notification.create: request_id is unique, a second insert throws (500).
Create(c) ==
    /\ phase[c] = "creating"
    /\ IF row[RequestOf[c]] = None
       THEN row' = [row EXCEPT ![RequestOf[c]] = c] /\ Goto(c, "publishing")
       ELSE UNCHANGED row /\ Reply(c, Failed("error"))
    /\ UNCHANGED <<at, sent, cache, aged, crashes>>

\* The database connection breaks under the insert, before it or after it.
CreateFails(c) ==
    /\ phase[c] = "creating"
    /\ \/ UNCHANGED row
       \/ row[RequestOf[c]] = None /\ row' = [row EXCEPT ![RequestOf[c]] = c]
    /\ Reply(c, Failed("error"))
    /\ UNCHANGED <<at, sent, cache, aged, crashes>>

\* The broker takes the message.  The channel wrapper sends an unconfirmed
\* message again when its connection comes back, so this may happen twice.
BrokerAccepts(c) ==
    /\ phase[c] = "publishing"
    /\ sent[c] < MaxSends
    /\ sent' = [sent EXCEPT ![c] = @ + 1]
    /\ UNCHANGED <<phase, at, answer, row, cache, aged, crashes>>

\* Mutant: the response is stored and returned without awaiting the confirm.
ConfirmedEarly(c) ==
    LET i == at[c]  r == RequestOf[c]
    IN  /\ phase[c] = "publishing"
        /\ cache' = [cache EXCEPT ![i][r] = c]
        /\ UNCHANGED aged
        /\ Reply(c, Ok(c))
        /\ UNCHANGED <<at, row, sent, crashes>>

\* The confirm resolves publish: checkAndStore keeps the response unless the
\* map has one, and then drops every entry past the TTL.
Confirmed(c) ==
    LET i == at[c]  r == RequestOf[c]
    IN  /\ phase[c] = "publishing"
        /\ sent[c] > 0
        /\ IF cache[i][r] = None
           THEN /\ cache' = [cache EXCEPT ![i] = [q \in RequestIds |->
                                IF q = r THEN c ELSE IF q \in aged[i] THEN None ELSE cache[i][q]]]
                /\ aged' = [aged EXCEPT ![i] = {}]
           ELSE UNCHANGED <<cache, aged>>
        /\ Reply(c, Ok(c))
        /\ UNCHANGED <<at, row, sent, crashes>>

\* Mutant: the row is deleted again when publish rejects.
PublishFailsDeletes(c) ==
    /\ phase[c] = "publishing"
    /\ row' = [row EXCEPT ![RequestOf[c]] = None]
    /\ Reply(c, Failed("error"))
    /\ UNCHANGED <<at, sent, cache, aged, crashes>>

\* publish rejects and createNotification rethrows: the row stays.
PublishFails(c) ==
    /\ phase[c] = "publishing"
    /\ Reply(c, Failed("error"))
    /\ UNCHANGED <<at, row, sent, cache, aged, crashes>>

-------------------------------------------------------------------------------
(* Time and crashes *)

\* An entry of the map passes the TTL of one hour.
Age(i, r) ==
    /\ cache[i][r] # None
    /\ aged' = [aged EXCEPT ![i] = @ \cup {r}]
    /\ UNCHANGED <<phase, at, answer, row, sent, cache, crashes>>

\* The process exits and pm2 starts it again: its map and the messages it had
\* not handed to the broker are gone, its clients see a broken connection.
Crash(i) ==
    /\ crashes < MaxCrashes
    /\ crashes' = crashes + 1
    /\ cache' = [cache EXCEPT ![i] = [r \in RequestIds |-> None]]
    /\ aged' = [aged EXCEPT ![i] = {}]
    /\ LET dying == {c \in Calls : at[c] = i /\ phase[c] \notin {"idle", "answered"}}
       IN  /\ phase' = [c \in Calls |-> IF c \in dying THEN "answered" ELSE phase[c]]
           /\ answer' = [c \in Calls |-> IF c \in dying THEN Failed("lost") ELSE answer[c]]
    /\ UNCHANGED <<at, row, sent>>

-------------------------------------------------------------------------------
(* Specification *)

Init ==
    /\ phase = [c \in Calls |-> "idle"]
    /\ at \in {[c \in Calls |-> i] : i \in Instances}   \* meaningless while idle
    /\ answer = [c \in Calls |-> NoAnswer]
    /\ row = [r \in RequestIds |-> None]
    /\ sent = [c \in Calls |-> 0]
    /\ cache = [i \in Instances |-> [r \in RequestIds |-> None]]
    /\ aged = [i \in Instances |-> {}]
    /\ crashes = 0

Next ==
    \/ \E c \in Calls, i \in Instances : Arrive(c, i)
    \/ \E c \in Calls :
          \/ Validate(c) \/ Refuse(c)
          \/ Create(c) \/ CreateFails(c)
          \/ BrokerAccepts(c) \/ Confirmed(c) \/ PublishFails(c)
    \/ \E i \in Instances, r \in RequestIds : Age(i, r)
    \/ \E i \in Instances : Crash(i)

Spec == Init /\ [][Next]_vars

-------------------------------------------------------------------------------
(* Properties *)

\* Every variable keeps its type.
TypeOK ==
    /\ phase \in [Calls -> {"idle", "validating", "creating", "publishing", "answered"}]
    /\ at \in [Calls -> Instances]
    /\ answer \in [Calls -> Answers]
    /\ row \in [RequestIds -> Notifications]
    /\ sent \in [Calls -> Nat]
    /\ cache \in [Instances -> [RequestIds -> Notifications]]
    /\ aged \in [Instances -> SUBSET RequestIds]
    /\ crashes \in Nat

\* All successful answers to one request_id name one notification, however
\* its calls interleave over the processes, and across crashes and the TTL
\* (notifications.service.ts 29-37 and 98, schema.prisma 60).
OneAnswerPerRequest ==
    \A c, d \in Calls :
        (answer[c].status = "ok" /\ answer[d].status = "ok" /\ RequestOf[c] = RequestOf[d])
            => answer[c].id = answer[d].id

\* A client that was told its notification exists can rely on it: the broker
\* has accepted the message, also when the answer came from the map.
OkMeansQueued ==
    \A c \in Calls : answer[c].status = "ok" => sent[answer[c].id] > 0

\* What is in the queue refers to the row of its request, so no two
\* notifications of one request_id are ever sent.
QueuedHasRow ==
    \A c \in Calls : sent[c] > 0 => row[RequestOf[c]] = c

\* The gateway implements IntakeContract: its processes, maps, crashes and
\* repeated publishes only ever store, queue and report one notification of a
\* request, in this order.
Contract == INSTANCE IntakeContract WITH
    Names <- Calls,
    Requests <- RequestIds,
    stored <- row,
    queued <- {c \in Calls : sent[c] > 0},
    told <- {<<RequestOf[c], answer[c].id>> : c \in {d \in Calls : answer[d].status = "ok"}}
ImplementsIntake == Contract!ISpec

\* README.md:38 "RabbitMQ for reliable async processing": a stored
\* notification nobody is working on any more has been queued.
StoredIsQueued ==
    \A r \in RequestIds :
        row[r] # None /\ (\A c \in Calls : phase[c] = "answered") => sent[row[r]] > 0

===============================================================================
