# A TLA+ model of the distributed notification system

This directory holds TLA+ specifications of the notification system in this
repository, TLC configurations that check them on small instances, and proofs,
checked by TLAPS, that the most important properties hold for every instance.

* [The system](#the-system): the inventory of parts, their state, what is hard
* [The modules](#the-modules): what models what
* [The runs](#the-runs): what TLC checks, the bounds, the fairness
* [The proofs](#the-proofs)
* [Disagreements between code and documents](#disagreements-between-code-and-documents)
* [What is not modelled](#what-is-not-modelled)
* [Plan](#plan)

To check a run: `tlc -config MCQueueConsumer.cfg MCQueueConsumer.tla`; to check
the proofs of a module: `tlapm QueueConsumerProofs.tla`.

## The system

Five NestJS services and five libraries, started by pm2 (two gateways, two email
services, one each of the others), around PostgreSQL, Redis and RabbitMQ.

A client posts a notification to the **gateway**. The gateway reads the users table
itself to see whether the user exists and has the channel enabled, inserts a
PENDING row, publishes a message through the **queue library** and answers. The
**email service** consumes `email.queue`: it fetches the user's address over HTTP
from the **user service**, the rendered text from the **template service**, sends the
mail over SMTP and updates the row. The gateway calls the user service only to
register an account, and passes the template routes on to the template service. Redis caches
users and templates. The **push service** is a stub: nothing consumes `push.queue`.

| Part (sources) | State it keeps | Operations | What makes it hard | What makes it correct |
|---|---|---|---|---|
| Queue library (`libs/queue`) | one reconnecting connection with a channel per process; in memory, a handler or a retry timer per delivery; at the broker, queues and unacknowledged deliveries | declare topology, `publish`, `publishToQueue`, `consume` (ack, delayed requeue, dead letter) | callbacks and timers outlive the channel they will ack on; the two ends of a connection see its end at different times; crash and restart; redelivery; prefetch slots held by timers | one holder per delivery, no delivery without a holder, nothing settled by a stranger, nothing acknowledged unhandled, every message ends |
| Gateway, notifications (`apps/api-gateway/src/notifications`) | rows; a result map per process (`IdempotencyService`) with a TTL | `createNotification`, status updates, queries | check-then-act over three awaits; duplicates on two processes; row and publish are not one transaction; confirm lost; crash | one notification per `request_id`, "ok" means queued |
| Email service (`apps/email-service`) | rows and `notification_logs`; a retry count per call | `handleMessage`, `processNotification`, `sendEmail`, `updateNotificationStatus` | three nested retries (SMTP, queue, broker); SMTP not idempotent; status updates that swallow errors; redelivery under a running handler | copies bounded by faults, no error recognised as temporary loses a mail, row and log tell the truth |
| User service (`apps/user-service`) | user rows; Redis keys `user:<id>`, `user:email:<email>` | create, find, update, preferences | cache fills, deletes and refills racing each other; half-failed invalidation | a read after an update is not older than it, or how long it can be |
| Template service (`apps/template-service`) | template rows with a version; Redis key `template:<code>` | create, find by code, update, deactivate, render | late cache fill after update or deactivation; lost version increment | a deactivated template dies out of the cache; version tells contents apart |
| Cache library (`libs/cache`) | Redis connection | get (swallows errors), set, del (rethrow) | partial failure | callers see a miss or an error, never a wrong value |
| Circuit breaker (`libs/common`) | state, two counters, time of the next attempt | `execute`, `reset` | results of calls admitted in an earlier state | opens at the threshold, closes only after enough successes or a reset |
| Retry helper, DTOs, guards, filters, interceptors (`libs/common`) | none | pure | boundaries | delays bounded, attempts counted |
| Gateway, auth and template proxy | users (through the user service); per process and route, the throttler's counts of the last minute | register, login, seven proxied template operations | check-then-create over HTTP; a registration's timeout races its success; counts are per process and lost with it | one user per address, no success without effect, an outcome for every request |
| Health checks (all services) | none; the probes of a request under way | `GET /health` | probes settle one by one while dependencies come and go; the state of the AMQP connection is behind the broker's | each probe's result was true during the check |
| Service processes (`main.ts`, `onModuleInit` hooks, `ecosystem.config.js`) | booting, serving, about to exit; pm2's count of quick exits | start, hooks, uncaught exceptions, restarts | a start waits for RabbitMQ but dies without PostgreSQL, or when its channel closes under a setup; retry timers throw; pm2 gives up after ten quick exits | after an outage the services serve again |
| Push service | none | stub | | |
| Database (`libs/database`) | schema | connection, unique constraints | | unique `request_id`, `email`, `code` |
| Deployment (`infrastructure`, Docker, CI) | | build, deploy, restart of the container | | |

They interact in four ways: HTTP calls between services (no timeout is configured
where the email service calls the others), messages over RabbitMQ (at least once),
shared rows in PostgreSQL (the gateway inserts notifications, the email service
updates them, both without transactions), and shared keys in Redis. Within a
process every `await` is a point where other calls run, so each model has one
action per stretch of code between two awaits.

`PROJECT.json` lists the hazards of the code at their lines, with the property that
would catch each; those of parts that are not modelled yet say so.

## The modules

### `DeliveryContract`: what the queue library promises

Per message a `phase` (unsent, waiting, taken, settled, dead) and whether a handler
has completed for it. There are no channels, processes or timers in it. A message can be
settled only in a step in which a handler completes, and a handler may complete for
a message that has meanwhile gone back or been settled by another delivery: that is
"at least once". `QueueConsumer` is shown to implement it, by TLC and by proof, and
`EmailWorker` uses it as its queue, so what is shown of the email service rests on
the promise and not on the details of connections.

### `QueueConsumer`: `libs/queue/src/queue.service.ts`

| Code | Model |
|---|---|
| `setupExchangesAndQueues`, bindings, `x-dead-letter-exchange` without a dead letter key | `Bindings`, `Route`, `DeadLetterPlace` |
| `publish` | `Publish` |
| `x-message-ttl` | `Expire` |
| connection manager: reconnect, replay of every `addSetup` | `Connect`; a channel is `[proc, no]`, and `gen[p]` numbers a process's channels |
| channel seen as closed by the client / by the broker | `ClientLoses` / `BrokerCloses`, two actions because they happen at different times |
| broker pushes within the prefetch | `Deliver` |
| `consume` callback: `await onMessage`, `channel.ack` | `HandlerSucceeds`; `ack` throws on a lost channel, into the callback's own catch block (`OnError`) |
| callback's catch block: `x-retry-count`, `setTimeout`, or `nack` without requeue | `HandlerFails`, `OnError`, `RetryHeader` |
| the timer's `nack(msg, false, true)` | `TimerFires`; on a lost channel it throws out of a timer: the process exits |
| `main.ts` exit a second after an uncaught exception, pm2 | `Exit`, `Crash`, `Restart` |

A delivery has a broker side (`unacked`) and a process side (`running` while the
handler runs, `backoff` while the retry timer runs). What makes the code delicate is
that the two part company when a connection breaks.

### `NotificationIntake`: `createNotification`

One action per stretch between awaits: idempotency check (`Arrive`), user and
preference checks (`Validate`, `Refuse`), insert under the unique `request_id`
(`Create`, `CreateFails`, the latter before or after the commit), the broker taking
the message (`BrokerAccepts`, possibly twice because the channel wrapper resends
what is not confirmed), confirm and `checkAndStore` with its cleanup of old entries
(`Confirmed`), a rejected publish (`PublishFails`), the passing of the TTL (`Age`) and
process crashes (`Crash`). `cache[i]` is the map of process `i`, `row` is shared.

### `IntakeContract`: what the gateway promises

Per request id the notification `stored` for it, the set `queued` and the pairs `told` to
clients, with three actions in the only order allowed: store once, queue the stored one,
tell of a queued one. `NotificationIntake` implements it (`ImplementsIntake`, by TLC and by
proof): the two processes, their maps, the crashes and the repeated publishes are not visible in it.

### `EmailWorker`: `handleMessage` down to `updateNotificationStatus`

A worker is one concurrent call of `handleMessage`. Its steps are `fetch`,
`render`, `send` (with the retry recursion of `sendEmail`), `mark` (the row), `log`
and `finish`. A message is apart from the notification it carries (`NoteOf`), since the
gateway's channel wrapper publishes again what the broker has not confirmed: the
first message of a notification is free, each further one (`Arrive`, `Resent`) is a fault.

An error is the verdict of `isRetriableError` on it, "retriable" or "final", not its nature:
the function returns false for all it does not recognise, so "final" has temporary
errors in it, which are acknowledged like permanent ones. The SMTP server may take a
mail and its reply be lost (`SendReplyLost`), with either verdict. A row update may fail
before or after its commit (`MarkFails`) and the code carries on. The connection may
break under the handler (`LoseConnection`), which goes on while the message goes to
another worker.

Mails sent directly (`POST /email/send`, `send-bulk`, `sendTemplateEmail`) carry no
notification, so they touch none of this state and are left out.

### `CircuitBreaker`: `libs/common/src/utils/circuit-breaker.ts`

`execute` up to its await is `Admit`. What follows the await is `Succeeds` or
`Fails`, so calls overlap and a result is counted in whatever state it finds.
Time is one Boolean, `waiting`: whether `Date.now()` is before `nextAttempt`;
`Elapse` clears it. `streak` is a history variable: successes in a row since
HALF_OPEN began. No service uses the class yet, so the model lets callers call at
any time.

### `UserDirectory`: accounts and their cache

One account, because nothing in the code relates two addresses. Registration has two
paths, through the gateway (which checks the address first) or at the user service
directly; both meet at `Insert` and its unique address. `answer[c]` is what client
`c` was told. The cache has two entries per user, under the id and under the address.
A row is its revision number, a cached copy the revision that was read: that is all
that staleness needs. `Invalidate` sends two deletes that fail independently;
`FillEmail` and `CacheUser` store what the call read before, however long ago.
`DatabaseFails` and `Crash` break off a call between any two awaits, after a commit too.

### `TemplateStore`: templates, versions and their cache

One template code. A call keeps the copy it read (`job[c].copy`), and `update`
computes the version from that copy while it writes over whatever the row is by then
(`Changed`), as the code does. `Read` asks for active templates only; `Delete` and
`CacheTemplate` may fail at Redis, `Abort` at the database or with the process.

In both modules the history variable `excused` marks an entry that is out of date
for a reason the code leaves open (a copy stored late, a delete that failed, a call
that broke off after its commit). `StaleHasCause` says there is no other
reason: it tells which windows exist and would fail if an edit opened a new one, and it
does not say that the excused ones are harmless. What bounds those is `EventuallyFresh`, and for a
deactivated template `DeactivatedDiesOut`: it comes back to the cache at most once for each
call that had read it before, and no call reads it again.

### `ServiceLifecycle`: the processes under pm2

| Code | Model |
|---|---|
| `bootstrap()` of the four `main.ts`, started by pm2 | `StartGateway`, `StartUser`, `StartEmail`, `StartTemplate`, with the hooks that each service's module imports bring along |
| `DatabaseService.onModuleInit`: `$connect`, error thrown on, `process.exit(1)` | `DatabaseConnects`, `DatabaseRefuses` |
| `QueueService.onModuleInit`: `waitForConnect` | `QueueConnects`; without a broker it neither resolves nor rejects, so no step |
| `setupExchangesAndQueues` in the same hook; `EmailConsumer.onModuleInit`: `consume` | `DeclaresTopology`, `RegistersConsumer`: `addSetup` runs the setup to its end, or resolves at once if there is no channel (`SetUp`); `SetUpRejects` if the channel closes under it, and the start ends |
| callbacks left over from a channel that is gone: their retry timer's `nack` throws | `leftover`, `TimerThrows` |
| `CacheService.onModuleInit` | waits for nothing, so it is no hook here |
| `app.listen` | `Listen` |
| `uncaughtException` handlers | `TimerThrows` and, for all other causes, `UncaughtException`; then `Exit`; in the second between them the process still serves |
| `autorestart`, `max_restarts`, `min_uptime` | `End`: `unstable[p]` counts ends within `min_uptime` of a start, at `MaxRestarts` the process is `errored` |
| pm2-runtime ends when nothing is left to run; `restart: unless-stopped` | `ContainerRestarts` |
| PostgreSQL, RabbitMQ, Redis | `Outage`, `Recover` |
| connection manager's `isConnected` | `linked`, which `Disconnected` and `Reconnected` bring after `up` |

Whether an end counts is a choice in `End`, since `min_uptime` is time. A container that
starts again counts from zero. `refused`,
`queueOutages` and `exceptions` are history variables. Restarts by hand, by a deployment or because of
`max_memory_restart` are no steps.

### `ServiceRequests`: requests to those processes

Extends `ServiceLifecycle`. A call of a client is `checking` (a health check, whose
probes settle one at a time) or `waiting` (the gateway has sent it on). `call[c].remote`
is what became of the request at the other service, which goes on executing it when the gateway
has timed out or ended. `Templates` is the route's whole path in the gateway: the global
`AuthGuard`, the throttler of the controller, the JWT guard, the validation pipe, and then
`Proxy`. `Register` is public and not throttled. `Reply` is the way back: any refusal of
the other service is an `AxiosError`, for which `AllExceptionsFilter` answers 500.
`LifeStep` is a step of `ServiceLifecycle` with what it does to calls: when a process
ends its calls are cut and its throttler's counts are gone. `recent` is a history
variable: what was let through in the last ttl, by whichever process.

`DeliveryContract`, `QueueConsumer` and `EmailWorker` describe the consumers at a finer grain
and have their own process failures; here a consumer is only a process that needs the queue
to start.

### `Pagination`: the pages of the list operations

Pure operators: `skip`, the rows a page shows, `total_pages` and both formulas of
`has_next`. The page numbers and limits are those `PaginationDto` lets through. Rows
and count are two concurrent queries, so `StopsAtTheEnd` takes the count apart
from the rows.

### MC modules and proof modules

`MCx.tla` extends module `x` and gives its constants small values; `xProofs.tla`
extends `x` with its theorems.

## The runs

| Run | Question | Instance |
|---|---|---|
| `queue_safety` | do holders, acks, timers, reconnects and crashes ever mix up a message, how many handlers can it have at once, and does the library keep `DeliveryContract`? | 2 emails, 1 push message, 2 processes, prefetch 2, one failed handler per message, 2 faults, symmetric |
| `queue_liveness` | does every queued email end? | the same without the push message, prefetch 1 (so that one backing-off message fills the process), 1 fault |
| `queue_retry_limit` | is a failing message given up after `maxRetries`? (violation) | 1 message, up to 4 failures |
| `queue_dead_letter` | does a dead letter end in `failed.queue`? (violation) | 1 message |
| `intake_safety` | one notification per request, "ok" means queued; does the gateway keep `IntakeContract`? | 3 calls of one request and 1 of another, 2 processes, 2 sends of each, 1 crash |
| `intake_orphan` | is every stored notification queued? (violation) | the same |
| `email_worker` | duplicates, lost mails, wrong rows, endless retries | 2 notifications (one without template code), 3 messages (the complete one published twice), 2 workers, 1 SMTP retry, 1 fault |
| `circuit_breaker` | do results that arrive in another state than their call was admitted in open or close the breaker wrongly, and does it recover? | 3 overlapping callers, threshold 2, 6 failures |
| `user_directory` | one owner per address, told so only if it is true; which interleavings leave a stale user cached, and for how long? | 2 clients, 3 committed writes, both entries, any number of failures |
| `template_store` | the same for templates; does a deactivated template die out of the cache, does the version run ahead of the content? The assumption `SmallPages` of its MC module evaluates the pages of up to 12 rows | 2 calls, 4 committed writes, any number of failures |
| `template_version` | does every change of content raise the version? (violation) | the same |
| `service_requests` | do the services come back after outages and exceptions, when does pm2 give up, what does an answer of the gateway or of a health check tell, what does the rate limit bound, is every request answered? | 2 processes and up to 2 calls in five workloads, `max_restarts` 2, limit 1, 2 outages and exceptions in all |

**Bounds.** Faults are the only unbounded environment steps, and each hazard found
in the code needs at most two of them: one to separate a handler from its channel,
one to do it to its successor. Two processes and two messages are enough for a
message to change hands, for a stale callback to meet a new delivery of the same and
of another message, and to fill the prefetch. The email run has one fault, since three messages
with two do not end in minutes: that is a second publication, a lost reply, a lost connection or a
crash, each against a second worker; sequences of several are left to the proofs. Three calls let one win, one lose at
the unique constraint and one come after the store, on two maps. For the breaker, three callers with
threshold 2 let one result close or open it while two older ones are under way. For
the caches, two calls and three writes let a copy be read, the row be written and
invalidated, and the old copy be stored after that; the fourth write of a template lets two
updates share a version after a first one. For the services, two processes and two faults let
one process be given up while the other holds the container, both be given up, or a process end
under a call while the other is booting; the five workloads let each
kind of request meet each service it can reach, and two requests exceed the limit. No workload
has two gateways (one more of two processes and two requests takes the run past five minutes): the sum of
`AdmittedWithinLimit` over several gateways is proved, not run. The code's
`max_restarts` is 10 and its limit 100. The proofs remove these bounds
from the safety properties. Failed handler calls are bounded
(`MaxFailures`) for liveness: a handler that fails for ever is requeued for ever,
which is what `queue_retry_limit` shows.

**Deadlock** checking is off everywhere: each system rests when every message is
settled, every call answered and every fault used up.

**Symmetry** is used only in runs without liveness properties, and only over
constants that no definition tells apart.

**Fairness.** `QueueConsumer!Fairness` has one conjunct for each thing that happens
by itself: pm2 restarts what is down and the delayed `process.exit` fires
(`ecosystem.config.js`, `main.ts`); `amqp-connection-manager` reconnects; heartbeats
let each side notice a connection the other has given up; the broker pushes when a
slot is free; a handler returns; a timer fires. All are weak fairness, and publishing,
expiry, faults and the choice between success and failure have none. That handlers
return is an assumption about the code above the library. `EmailWorker!FairSpec` shows what
supports it, from the send on: nodemailer has timeouts, and that a query of Prisma ends or fails is
assumed (it limits the wait for a connection, not a query). Before the send, the HTTP
client is built without a timeout, so `Fetch` and `Render` get no fairness and the run claims
nothing there.

`CircuitBreaker!FairSpec`: time passes, an admitted call settles, and callers go on
calling; nobody is bound to call `reset`, and failures end because they are bounded.
`ServiceRequests!Fairness`: pm2 and the event loop do not leave a start, a hook that can
finish or an exit undone; the container is restarted; probes settle, handlers return and
closed connections are noticed. Clients may stay silent, a timeout need not strike, and no
dependency is bound to come back: `ServesOrGivenUp` and `SystemComesBack` have the
premise `StaysUp`, that from some time on all are up, while `Answered` has none. `SystemComesBack`
asks for some process to serve, no more: when pm2 has given up a service for good while another
serves, the container goes on and nothing in the code brings that service back. That a
handler of the template service returns is an assumption, as it is for the queue's
handlers: `TemplatesModule` imports the HTTP client without a timeout.

`UserDirectory` and `TemplateStore` assume only that Redis expires its entries.
No call is bound to go on, and since writes are bounded, `EventuallyFresh` says
what holds once the writes have stopped.

**Properties** are stated, with the code they speak of, at the end of each module.
Each has at least one mutant in `PROJECT.json`: a named, plausible mis-edit of a mapped
definition (a nack twice, a dropped unique constraint, an off-by-one in the retry),
kept in the module as an operator marked `Mutant`, under which TLC finds the property
violated.

## The proofs

TLAPS checks the theorems below for every value of the constants, so without
bounds on messages, processes, prefetch, failures or faults. They assume only
the named `ASSUME`s of each module.

`QueueConsumerProofs`: `TypeCorrect`, `HandlersHold`, `NeverStuck`,
`AckedCompleted`, `HolderSettles` (an action property) and `Refinement`
(`Spec => ImplementsContract`). None of the invariants is inductive alone. The
invariant `IInv` adds four facts:

* `OldChannels`: no channel anywhere has a number above its process's current one,
  so a reconnect really is fresh;
* `OneHolder`: the broker has at most one unacknowledged delivery of a message, and a
  message is `out` exactly when it has one;
* `OneCallback`: a delivery is not both running and backing off;
* `HandledWerePublished`: a handler's message was published, which the
  refinement needs when an old handler completes.

There is one lemma per action of `Next`. The refinement maps `place` to `phase` and
`completed` to `processed`. Every step then maps to one contract step or a stutter: a closed
channel to `GiveBack` of all it carried, a success to `Complete`, a failure at the
limit to `Discard`.

Five more results build on `IInv`:

* `HandlersHaveFaults` and `LoadBounded` bound work by faults: at most one callback of a
  message, and a prefetch of callbacks in a process, plus as much again for every fault. Their
  invariant `Limits` says that no channel carries more than its prefetch, and that at
  most one channel per fault has left callbacks behind. Finite sets are compared through
  `AtMost`, so that no step needs the cardinality of an unknown set.
* `NobodyForgets`: a message that is out is held by a handler or a timer that can still settle it,
  or by a channel that the broker has yet to close. With the fairness of those steps it is what
  `EmailSettled` rests on.
* `MessagesTakeTheirRoute` and `NeverGivenUp` show for every instance what the two findings
  about the queue show on one: what is dead-lettered is lost, and with `maxRetries` of two
  or more the consumer itself never discards a message.

`NotificationIntakeProofs`: `TypeCorrect`, `OneAnswer`, `AnsweredIsQueued`,
`OneQueued`. The invariant is `TypeOK /\ RowAnchors`. Everything that leaves a trace
of a notification (a call past the insert, a send, an entry of any map, an "ok"
answer) is anchored in the one row of its `request_id`, and rows are never replaced.
Two traces of one request then agree because both agree with the row.

`Refinement` (`Spec => ImplementsIntake`) maps `row` to `stored`. It needs one more
invariant, `EndsAndRows`: only a call that has ended has an answer, and a row belongs to its own
request. The same invariant gives `OrphanIsForever`, the general form of the finding `intake_orphan`: once the call
that stored a row has ended without queueing it, no step queues it and no call with its
`request_id` is answered "ok".

`EmailWorkerProofs`: `TypeCorrect`, `CopiesNeedFaults`, `OutcomeOfSettled`,
`LogIsBehindRow`, `StatusOfSettled`. `ExtraMailsNeedFaults` counts mails, but what a step may add depends on who
could still send. `CopiesBound` therefore counts a budget per notification: the
copies sent, plus the workers that may still send it or give its message back, plus
one for every message that waits and one if the first is still to come, is at most one plus the
faults so far. Sending moves a unit of the budget from "may" to "did", a delivery moves one from
the queue to a worker, and only a fault (a message published again among them) adds one. `Outcomes` carries the other two: what a job
already knows (its error, its step) implies what is recorded of its notification. `StatusOfSettled`
needs to know that nobody interferes. Its invariant `Undisturbed` says that, as long as there
was no fault, a busy worker is alone with its notification and holds its message (`Alone`,
`Fine`), what it has done so far agrees with the row, and a notification with no worker
has the row of its last outcome (`Resting`).

`TakenHasOneHolder` is an exact count that needs no premise: a message that is taken is held
by one worker, a message that is not by none. `SendingIsBounded` gives each job from the send
on a rank, the SMTP attempts left plus the parts to come, that every step of the worker
lowers and no other step changes, and shows that the queue never stands in the way of its
`finish`.

`CircuitBreakerProofs`: `TypeCorrect`, `ClosedIsBelow`, `ProgressInHalfOpen`,
`ClosesProperly` (an action property), for any threshold and number of callers. The
invariant ties `successCount` to `streak`. `RecoveryDescends` measures the `Distance` from
CLOSED, at most threshold + 2: a step that counts no failure never increases it, and the end
of the wait, the first call after it and each success while half open decrease it.

`TemplateStoreProofs`: `TypeCorrect`, `StaleEntriesHaveCause`, `DeactivatedTemplatesDieOut`
(an action property), `VersionsFollowChanges`. The strengthening is `CopyFacts`: a copy that a call is about
to store, to write from or to invalidate is no newer than the row; if a version will be computed from it, that version counts no more than the changes so far.
`LateCopiesDwindle`: while the row is not written, no call comes to hold an outdated copy, and the
entry becomes outdated only by one that a call held before. `VersionsRiseAlone` is the converse of the finding
`template_version`: an update that changes the content without raising the version had read
the row before an earlier change. Its invariant `Contents` says that a copy with the content of the row
has the version of the row.

`UserDirectoryProofs`: `TypeCorrect`, `CreatedOwns`, `StaleEntriesHaveCause`. A
client is told "created" by the last step of a call, which reads and updates share. `Creations`
therefore says that a call which ends there as a creation has its own row, and that reads and
updates never are creations. Ownership is then kept because only an insert into an empty
directory sets it. `LateCopiesDwindle` is as for templates, for both keys of the user.

`ServiceProofs`: `TypeCorrect`, `GivenUpHasCauseHolds`, `AnswerTellsEffectHolds`,
`AnswersWereTrueHolds` (an action property) and `AdmittedWithinLimitHolds`, for any number of
processes, calls, restarts and faults. Three invariants build on each other:

* `Life`: pm2's count of a process, with every end that is still to come (an exit that is due, a
  leftover whose timer will throw, a broken connection not yet noticed), is at most its
  starts refused by PostgreSQL, plus the exceptions, plus, if it has a connection to RabbitMQ,
  one per outage (`Tally`). An outage thus ends a process at most once: either a setup
  rejects or a leftover throws, and the start that follows waits until the outage is over;
* `CallsSound`: a call's answer agrees with its remote part, and every probe that has settled
  agrees with a state of that dependency in `seen`, which contains the present one (`Informed`);
* `Charged`: every request let through in the last ttl is charged to a gateway that still counts
  it, at most `Limit` to each, or is an orphan; orphans and the requests of gateways that are
  about to end are within `Limit` per exception. When a gateway ends, its unit of the
  second sum moves from `Ending` to `Orphans`. The bound is then a sum of cardinalities.

Two results say how far things are from being done. `StartsDescend`: `StepsToServe` of a
process is at most seven; while the dependencies are up, no exception occurs and nothing is left over
from a lost channel, no step increases it and the process's own steps lower it, and a start that
cannot go on waits for RabbitMQ alone (`HooksKnown`). `CallsAreAttended`: an open call is at a running process and has been
sent where it waits for an answer (`Attended`); `StepsToAnswer`, at most four, never grows,
and every step that the code owes the call (a probe, the health answer, the end of the remote
handler or of its connection, the reply) lowers it.

`PaginationProofs`: `RowsArePartitioned`, `HasNextCorrect`,
`NothingMissedAtTheEnd`, for every total, page and limit: three lemmas about
division and multiplication, then arithmetic. The last has the premise
that the count is not smaller than the rows; the two queries of the code do not guarantee it.

**Only model-checked:** liveness, since it needs `ENABLED`, which is beyond this prover.
Every safety property of a passing run is proved. Of each liveness property the proofs hold the safety
half: somebody always owes the next step, or a measure bounds the steps to go. That the
steps happen is fairness, and that the two together give the property is TLC's part.

| Liveness property | Proved for every instance |
|---|---|
| `EmailSettled` | `NobodyForgets` |
| `SendingEnds` | `SendingIsBounded` |
| `Recovers` | `RecoveryDescends` |
| `EventuallyFresh` of users and of templates | `LateCopiesDwindle` of each |
| `ServesOrGivenUp`, `SystemComesBack` | `StartsDescend` |
| `Answered` | `CallsAreAttended` |

## Disagreements between code and documents

Each is a run TLC finds violated, and an entry of `findings` in `PROJECT.json`.

* **The retry limit is never reached** (`queue_retry_limit`). The callback reads
  `x-retry-count` from the message's headers, but nothing ever writes it: a requeue leaves
  the headers as they were. Every attempt is the first, and the branch "Move to dead letter
  queue after max retries" is never taken (`NeverGivenUp`).
* **Dead letters are dropped** (`queue_dead_letter`). Queues name a dead letter
  exchange but no dead letter routing key, so an expired message keeps `email` or
  `push`, for which the exchange has no binding (`failed.queue` is bound with
  `failed`). `MessagesTakeTheirRoute` proves it of all messages.
* **A stored notification may never be queued** (`intake_orphan`). The row is
  committed before the publish. If that fails, or the process dies, the row stays PENDING, and
  the client's retry with the same `request_id` fails at the unique constraint, for ever
  (`OrphanIsForever`).
* **Two contents share a version** (`template_version`). `update` adds one to the
  version it read and writes without a condition. Two updates that overlap write
  different contents with the same version, against the comment "Increment version when
  content changes". Nothing less than such an overlap does it (`VersionsRiseAlone`).

Others were met while reading and have no run of their own:

* `updateNotificationStatus` logs and drops a database error and the message is acknowledged
  (`email.service.ts:269`): the row of a sent mail may keep PENDING or FAILED for good,
  though `README.md:34` says "Track all sent notifications with status".
  `SettledStatusIsRight` excepts these rows (`lostUpdates`).
* `isRetriableError` tells "retriable (temporary failure) or permanent" (`email.consumer.ts:82`) by
  substrings and takes all else as permanent (line 120): a mail that failed with ECONNRESET, socket
  hang up, ENOTFOUND, 429 or 504 is acknowledged and lost. `SettledHasOutcome` is about
  the verdict, not the nature of the error, and counts such a mail as ended.
* The gateway answers 500 where the template service answered 404, 409 or 400
  (`http-exception.filter.ts:21-38`, an `AxiosError` is no `HttpException`), while
  `templates.controller.ts:32-33` of the gateway documents 409 and 400.
* A registration that times out is answered 400, which `auth.controller.ts:27` documents
  as "Invalid input or user already exists", and the account may be created all the same.
* The limit of the throttler holds per process and route, and behind nginx for all clients
  together (no `trust proxy`); `AdmittedWithinLimit` says what it bounds. The configured
  `rateLimit` and docker's `RATE_LIMIT_MAX` are not read.
* The template service's health check says "up" whatever its dependencies do, and every `/health`
  answers HTTP 200 when it says "down", so the probes of Docker and `deploy.sh:97` pass.
* The push service is not in `ecosystem.config.js`.

## What is not modelled

* Message contents, addresses, templates' text and rendering: data that no property
  tells apart.
* Network failures inside Redis, PostgreSQL and SMTP beyond "the call fails, before or
  after its effect".
* RabbitMQ itself: a broker that loses or restarts its queues; queues and messages are
  durable and persistent. Message order, which no part relies on.
* `publishToQueue` and `RetryUtil` (no callers), `onModuleDestroy` (no service enables shutdown
  hooks), logging, Swagger, the signing and verifying of tokens, CI and shell scripts, and the
  validation and formatting of requests and responses.
* Restarts of the services by an operator or by `max_memory_restart`. They would cost a
  gateway its counts as an exception does, and each adds a limit to `AdmittedWithinLimit`.
* Pure reads that no write interacts with: one notification, preferences, the user for a login.

## Plan

In order of importance to the system's purpose, which is that a notification is
delivered once:

1. `DeliveryContract`, `QueueConsumer`, `QueueConsumerProofs`: done.
2. `IntakeContract`, `NotificationIntake`, `NotificationIntakeProofs`: done.
3. `EmailWorker` over `DeliveryContract`, `EmailWorkerProofs`: done.
4. `CircuitBreaker`, `CircuitBreakerProofs`: done.
5. `TemplateStore`, `TemplateStoreProofs`, `Pagination`, `PaginationProofs`: done.
6. `UserDirectory`, `UserDirectoryProofs`: done.
7. `ServiceLifecycle`, `ServiceRequests`, `ServiceProofs`: done.

Left for later:

8. `Delivery`: a composition of `IntakeContract`, `DeliveryContract` and
   `EmailWorker` around the shared row, for the promise of the whole system: what the
   gateway answered "ok" is mailed, given up for a recorded reason, or still queued, and
   its row and log say which.
9. A list operation with inserts between its two queries, to show when
   `StopsAtTheEnd` loses its premise.
10. `RetryUtil`: attempts and delays as a recursive function, with bounds proved by
    a loop invariant.
