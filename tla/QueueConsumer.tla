---------------------------- MODULE QueueConsumer ----------------------------
(***************************************************************************)
(* libs/queue/src/queue.service.ts: publishing to the notifications        *)
(* exchange and consuming email.queue, with the broker and the connection  *)
(* manager it relies on (external, modelled from their use).               *)
(*                                                                         *)
(* A delivery is a message on one channel.  The broker's view of it is     *)
(* "unacked"; the consumer process's view is "running" (the handler has    *)
(* been called and has not returned) or "backoff" (the setTimeout of the   *)
(* retry is pending).  The two views part when a connection breaks, which  *)
(* the two sides notice at different times.                                *)
(***************************************************************************)
EXTENDS Integers, FiniteSets

CONSTANTS
    EmailMsgs,     \* messages published with routing key 'email'
    PushMsgs,      \* messages published with routing key 'push'
    Procs,         \* processes that consume email.queue
    Prefetch,      \* unacknowledged deliveries the broker allows per channel
    MaxRetries,    \* maxRetries of the consume callback
    MaxFailures,   \* bound: failed handler calls of one message
    MaxFaults      \* bound: crashes and broken connections of one behaviour

ASSUME MsgsAssumption == EmailMsgs \cap PushMsgs = {}
ASSUME LimitsAssumption ==
    /\ Prefetch \in Nat \ {0}
    /\ MaxRetries \in Nat
    /\ MaxFailures \in Nat
    /\ MaxFaults \in Nat

Msgs == EmailMsgs \cup PushMsgs

VARIABLES
    place,         \* place[m]: the queue that holds m, or what became of it
    open,          \* broker: the channels it considers open
    unacked,       \* broker: the deliveries neither settled nor given back
    running,       \* consumers: the deliveries whose handler has not returned
    backoff,       \* consumers: the deliveries waiting for their retry timer
    status,        \* status[p]: whether process p runs
    live,          \* live[p]: p considers its current channel open
    gen,           \* gen[p]: number of the last channel p opened
    completed,     \* history: messages some handler has completed for
    failures,      \* history: failed handler calls of each message
    faults         \* history: crashes and broken connections so far

brokerVars  == <<place, open, unacked>>
processVars == <<running, backoff, status, live, gen>>
historyVars == <<completed, failures, faults>>
vars == <<brokerVars, processVars, historyVars>>

-------------------------------------------------------------------------------
(* Names and routing *)

Queues == {"email.queue", "push.queue", "failed.queue"}
Places == Queues \cup {"unsent", "out", "acked", "dropped"}

Channels   == [proc : Procs, no : Nat]
Deliveries == [msg : Msgs, chan : Channels]

RoutingKey(m) == IF m \in EmailMsgs THEN "email" ELSE "push"

Bindings ==
    { [exchange |-> "notifications.direct", key |-> "email",  queue |-> "email.queue"],
      [exchange |-> "notifications.direct", key |-> "push",   queue |-> "push.queue"],
      [exchange |-> "notifications.dlx",    key |-> "failed", queue |-> "failed.queue"] }

\* Mutant: the default exchange, which routes to the queue the key names.
RouteByName(exchange, key) == key

\* A direct exchange: the queue bound with exactly this key, or nowhere.
Route(exchange, key) ==
    IF \E b \in Bindings : b.exchange = exchange /\ b.key = key
    THEN (CHOOSE b \in Bindings : b.exchange = exchange /\ b.key = key).queue
    ELSE "dropped"

\* A queue without x-dead-letter-routing-key keeps the message's own key.
DeadLetterPlace(m) == Route("notifications.dlx", RoutingKey(m))

\* No publisher of the repository sets headers['x-retry-count'], and a
\* requeue leaves the properties of a message as they are.
RetryHeader(m) == 0

-------------------------------------------------------------------------------
(* Channels *)

Chan(p) == [proc |-> p, no |-> gen[p]]

\* The process can still write to c; amqplib throws on any other channel.
ClientUses(c) == live[c.proc] /\ gen[c.proc] = c.no

OnChannel(c) == {d \in unacked : d.chan = c}

\* Both sides agree that c is open: its breaking is a fault.
Healthy(c) == c \in open /\ ClientUses(c)

FaultIf(breaks) ==
    IF breaks THEN faults < MaxFaults /\ faults' = faults + 1
              ELSE UNCHANGED faults

\* Connection manager: (re)connect and run every registered setup, which
\* asserts the queues, sets the prefetch and registers the consumer again.
Connect(p) ==
    /\ status[p] # "down"
    /\ ~live[p]
    /\ gen'  = [gen EXCEPT ![p] = gen[p] + 1]
    /\ live' = [live EXCEPT ![p] = TRUE]
    /\ open' = open \cup {[proc |-> p, no |-> gen[p] + 1]}
    /\ UNCHANGED <<place, unacked, running, backoff, status, historyVars>>

\* The client sees its connection end; its handlers and timers go on.
ClientLoses(p) ==
    /\ live[p]
    /\ FaultIf(Chan(p) \in open)
    /\ live' = [live EXCEPT ![p] = FALSE]
    /\ UNCHANGED <<brokerVars, running, backoff, status, gen, completed, failures>>

\* The broker sees the connection end and requeues what was unacknowledged.
BrokerCloses(c) ==
    /\ c \in open
    /\ FaultIf(ClientUses(c))
    /\ open' = open \ {c}
    /\ unacked' = unacked \ OnChannel(c)
    /\ place' = [m \in Msgs |->
                    IF \E d \in OnChannel(c) : d.msg = m THEN "email.queue" ELSE place[m]]
    /\ UNCHANGED <<processVars, completed, failures>>

-------------------------------------------------------------------------------
(* Publishing, expiry and delivery *)

Publish(m) ==
    /\ place[m] = "unsent"
    /\ place' = [place EXCEPT ![m] = Route("notifications.direct", RoutingKey(m))]
    /\ UNCHANGED <<open, unacked, processVars, historyVars>>

\* x-message-ttl of a message that waits in a queue.
Expire(m) ==
    /\ place[m] \in {"email.queue", "push.queue"}
    /\ place' = [place EXCEPT ![m] = DeadLetterPlace(m)]
    /\ UNCHANGED <<open, unacked, processVars, historyVars>>

\* The broker pushes m over an open channel.  When the client has already
\* given that channel up, nobody receives it.
Deliver(m, c) ==
    LET d == [msg |-> m, chan |-> c]
    IN  /\ place[m] = "email.queue"
        /\ c \in open
        /\ Cardinality(OnChannel(c)) < Prefetch
        /\ place' = [place EXCEPT ![m] = "out"]
        /\ unacked' = unacked \cup {d}
        /\ running' = IF ClientUses(c) THEN running \cup {d} ELSE running
        /\ UNCHANGED <<open, backoff, status, live, gen, historyVars>>

-------------------------------------------------------------------------------
(* The consume callback *)

\* Mutant: the ack goes to whichever delivery of the message is outstanding.
SettleAnyDelivery(d, to) ==
    IF \E e \in unacked : e.msg = d.msg
    THEN /\ unacked' = {e \in unacked : e.msg # d.msg}
         /\ place' = [place EXCEPT ![d.msg] = to]
    ELSE UNCHANGED <<unacked, place>>

\* The broker takes an ack or a nack of d; on a channel it has closed, the
\* frame is lost.
Settle(d, to) ==
    IF d \in unacked
    THEN /\ unacked' = unacked \ {d}
         /\ place' = [place EXCEPT ![d.msg] = to]
    ELSE UNCHANGED <<unacked, place>>

\* Mutant: the message is requeued at once, and once more by the timer.
OnErrorTwice(d) ==
    /\ backoff' = backoff \cup {d}
    /\ IF ClientUses(d.chan) THEN Settle(d, "email.queue") ELSE UNCHANGED <<unacked, place>>

\* Mutant: the error is logged and the message left alone.
OnErrorForgets(d) == UNCHANGED <<backoff, unacked, place>>

\* Mutant: the message is acknowledged although its handler failed.
OnErrorAcks(d) ==
    /\ UNCHANGED backoff
    /\ IF ClientUses(d.chan) THEN Settle(d, "acked") ELSE UNCHANGED <<unacked, place>>

\* The catch block: a timer that will requeue, or the dead letter exchange.
\* The nack of a lost channel throws into an unhandled rejection (logged).
OnError(d) ==
    IF RetryHeader(d.msg) + 1 < MaxRetries
    THEN /\ backoff' = backoff \cup {d}
         /\ UNCHANGED <<unacked, place>>
    ELSE /\ UNCHANGED backoff
         /\ IF ClientUses(d.chan)
            THEN Settle(d, DeadLetterPlace(d.msg))
            ELSE UNCHANGED <<unacked, place>>

\* onMessage resolves; channel.ack settles, or throws into the catch block.
HandlerSucceeds(d) ==
    /\ d \in running
    /\ running' = running \ {d}
    /\ completed' = completed \cup {d.msg}
    /\ IF ClientUses(d.chan)
       THEN Settle(d, "acked") /\ UNCHANGED backoff
       ELSE OnError(d)
    /\ UNCHANGED <<open, status, live, gen, failures, faults>>

\* onMessage rejects.
HandlerFails(d) ==
    /\ d \in running
    /\ failures[d.msg] < MaxFailures
    /\ failures' = [failures EXCEPT ![d.msg] = @ + 1]
    /\ running' = running \ {d}
    /\ OnError(d)
    /\ UNCHANGED <<open, status, live, gen, completed, faults>>

\* Mutant: the timer is cancelled with the connection it belongs to.
TimerFiresNoop(d) ==
    /\ d \in backoff
    /\ backoff' = backoff \ {d}
    /\ UNCHANGED <<place, open, unacked, running, status, live, gen, historyVars>>

\* The setTimeout callback: nack with requeue.  On a lost channel it throws
\* in the timer: an uncaught exception, after which the process exits.
TimerFires(d) ==
    /\ d \in backoff
    /\ backoff' = backoff \ {d}
    /\ IF ClientUses(d.chan)
       THEN Settle(d, "email.queue") /\ UNCHANGED status
       ELSE /\ status' = [status EXCEPT ![d.chan.proc] = "exiting"]
            /\ UNCHANGED <<unacked, place>>
    /\ UNCHANGED <<open, running, live, gen, historyVars>>

-------------------------------------------------------------------------------
(* Processes *)

\* Everything the process holds in memory is gone.
Die(p) ==
    /\ status' = [status EXCEPT ![p] = "down"]
    /\ live' = [live EXCEPT ![p] = FALSE]
    /\ running' = {d \in running : d.chan.proc # p}
    /\ backoff' = {d \in backoff : d.chan.proc # p}
    /\ UNCHANGED <<brokerVars, gen, completed, failures>>

\* process.exit(1), one second after the uncaught exception.
Exit(p) == status[p] = "exiting" /\ Die(p) /\ UNCHANGED faults

Crash(p) == status[p] # "down" /\ FaultIf(TRUE) /\ Die(p)

\* pm2 autorestart.
Restart(p) ==
    /\ status[p] = "down"
    /\ status' = [status EXCEPT ![p] = "up"]
    /\ UNCHANGED <<brokerVars, running, backoff, live, gen, historyVars>>

-------------------------------------------------------------------------------
(* Specification *)

Init ==
    /\ place = [m \in Msgs |-> "unsent"]
    /\ open = {} /\ unacked = {} /\ running = {} /\ backoff = {}
    /\ status = [p \in Procs |-> "down"]
    /\ live = [p \in Procs |-> FALSE]
    /\ gen = [p \in Procs |-> 0]
    /\ completed = {}
    /\ failures = [m \in Msgs |-> 0]
    /\ faults = 0

Next ==
    \/ \E p \in Procs : Connect(p) \/ ClientLoses(p) \/ Exit(p) \/ Crash(p) \/ Restart(p)
    \/ \E m \in Msgs : Publish(m) \/ Expire(m)
    \/ \E c \in open : BrokerCloses(c)
    \/ \E m \in Msgs, c \in open : Deliver(m, c)
    \/ \E d \in running : HandlerSucceeds(d) \/ HandlerFails(d)
    \/ \E d \in backoff : TimerFires(d)

Spec == Init /\ [][Next]_vars

\* What the parts do without being asked: pm2 restarts, the connection
\* manager reconnects, heartbeats find broken connections on both sides, the
\* broker pushes, handlers return and timers fire.  Publishing, expiry and
\* faults are not bound to happen.
Fairness ==
    /\ \A p \in Procs :
        /\ WF_vars(Restart(p))
        /\ WF_vars(Exit(p))
        /\ WF_vars(Connect(p))
        /\ WF_vars(Chan(p) \notin open /\ ClientLoses(p))
    /\ WF_vars(\E c \in open : ~ClientUses(c) /\ BrokerCloses(c))
    /\ \A m \in EmailMsgs :
        /\ WF_vars(\E c \in open : Deliver(m, c))
        /\ WF_vars(\E d \in running : d.msg = m /\ (HandlerSucceeds(d) \/ HandlerFails(d)))
        /\ WF_vars(\E d \in backoff : d.msg = m /\ TimerFires(d))

FairSpec == Spec /\ Fairness

-------------------------------------------------------------------------------
(* Properties *)

\* Every variable keeps its type.
TypeOK ==
    /\ place \in [Msgs -> Places]
    /\ open \subseteq Channels
    /\ unacked \subseteq Deliveries
    /\ running \subseteq Deliveries
    /\ backoff \subseteq Deliveries
    /\ status \in [Procs -> {"up", "exiting", "down"}]
    /\ live \in [Procs -> BOOLEAN]
    /\ gen \in [Procs -> Nat]
    /\ completed \subseteq Msgs
    /\ failures \in [Msgs -> Nat]
    /\ faults \in Nat

\* A handler or retry timer whose channel the broker still has open holds the
\* broker's delivery: however acks, nacks, timers and reconnects interleave, no
\* second consumer has the message and none has settled it (queue.service.ts
\* 156-183, each callback using the channel it was registered on).
HandlerHoldsDelivery ==
    \A d \in running \cup backoff : d.chan \in open => d \in unacked

\* A delivery over a channel both sides use has a handler running or a timer
\* pending, which will settle it.  A path through the callback that does
\* neither would keep the message, and its prefetch slot, for ever.
NoStuckDelivery ==
    \A d \in unacked : ClientUses(d.chan) => d \in running \cup backoff

\* A message is acknowledged only if onMessage has resolved for it
\* (queue.service.ts 159-160).
AckedOnlyAfterCompletion ==
    \A m \in Msgs : place[m] = "acked" => m \in completed

\* Several handlers or retry timers of one message are alive at once only if
\* connections broke: one, and one more for every fault.  Neither the requeue of
\* a retry, nor a reconnect, nor the exit of a process starts another
\* (queue.service.ts 156-183).
HandlersNeedFaults ==
    \A m \in Msgs : Cardinality({d \in running \cup backoff : d.msg = m}) <= 1 + faults

\* A message leaves the unacknowledged state because its channel closed or in
\* the very step in which the handler or timer that holds it ends: a callback
\* left over from an earlier connection never settles a redelivery.
OnlyHolderSettles ==
    [][\A d \in unacked : d \notin unacked' =>
            \/ d.chan \notin open'
            \/ d \in (running \cup backoff) /\ d \notin (running' \cup backoff')]_vars

\* Where a message is, as the contract of the library sees it.
Phase(at) ==
    CASE at = "unsent"                         -> "unsent"
      [] at \in {"email.queue", "push.queue"}  -> "waiting"
      [] at = "out"                            -> "taken"
      [] at = "acked"                          -> "settled"
      [] at \in {"failed.queue", "dropped"}    -> "dead"

\* The library implements DeliveryContract: channels, crashes, timers and
\* redeliveries only ever produce the steps the contract allows.
Contract == INSTANCE DeliveryContract WITH
    phase <- [m \in Msgs |-> Phase(place[m])],
    processed <- completed
ImplementsContract == Contract!CSpec

\* An email message that reached the queue is eventually settled or expires,
\* if its handler fails finitely often and faults are finite: backoff timers,
\* exits, restarts, reconnects and requeues never lose it half way.  It is
\* assumed (Fairness) that a handler returns unless its process ends; the HTTP
\* client the handlers use has no timeout, so the code alone does not ensure it.
EmailSettled ==
    \A m \in EmailMsgs :
        place[m] = "email.queue" ~> place[m] \in {"acked", "dropped", "failed.queue"}

\* queue.service.ts:177 "Move to dead letter queue after max retries": a
\* message is not handed to a failing handler more than maxRetries times.
RetriesBounded == \A m \in Msgs : failures[m] <= MaxRetries

\* queue.service.ts:82 "Create queues with dead letter exchange" and 95
\* "Create dead letter queue": a dead letter ends in failed.queue.
DeadLettersKept == \A m \in Msgs : place[m] # "dropped"

===============================================================================
