--------------------------- MODULE ServiceLifecycle ---------------------------
(***************************************************************************)
(* The life of the service processes that pm2 runs: bootstrap() of each    *)
(* main.ts with the onModuleInit hooks of the libraries, the exits, and    *)
(* pm2's restarts (ecosystem.config.js), under outages of PostgreSQL,      *)
(* RabbitMQ and Redis.                                                     *)
(*                                                                         *)
(* A hook that fails ends the start, one that waits holds it.  Nest runs   *)
(* the hooks one after another in an order it derives from the imports;    *)
(* here any order that Before allows.  No service calls                    *)
(* enableShutdownHooks, so onModuleDestroy never runs: a process ends by   *)
(* exit or by being killed.                                                *)
(***************************************************************************)
EXTENDS Integers

CONSTANTS
    Procs,         \* the processes pm2 manages
    Fleets,        \* the services they may run: functions from Procs to Roles
    MaxRestarts,   \* max_restarts
    MaxFaults      \* bound: outages and uncaught exceptions of one behaviour

Roles == {"gateway", "user", "email", "template"}

Deps == {"database", "queue", "cache"}

ASSUME LifeAssumption ==
    /\ Fleets \subseteq [Procs -> Roles]
    /\ MaxRestarts \in Nat \ {0}
    /\ MaxFaults \in Nat

VARIABLES
    role,         \* role[p]: the service p runs
    up,           \* up[d]: whether dependency d can be reached
    phase,        \* where p is: see Phases
    pending,      \* pending[p]: the parts of p's hooks that have yet to finish
    linked,       \* linked[p]: isConnected of p's amqp connection manager
    leftover,     \* leftover[p]: p still runs a handler or a retry timer of a
                  \*   message whose channel is gone
    unstable,     \* unstable[p]: the ends that pm2 counts against max_restarts
    faults,       \* outages and exceptions so far
    refused,      \* history: refused[p], the ends among those counted that were
                  \*   starts of p refused by PostgreSQL
    queueOutages, \* history: outages of RabbitMQ so far
    exceptions    \* history: uncaught exceptions so far, those apart that come
                  \*   of a leftover

past == <<refused, queueOutages, exceptions>>

lifeVars == <<role, up, phase, pending, linked, leftover, unstable, faults,
              refused, queueOutages, exceptions>>

\* exiting: process.exit is due in a second, the event loop goes on.
\* exited: pm2 is about to start p again.  errored: pm2 has given p up.
Phases == {"booting", "serving", "exiting", "exited", "errored"}

\* p accepts connections and runs its callbacks.
Running == {"serving", "exiting"}

Alive(p) == phase[p] \in Running

-------------------------------------------------------------------------------
(* The onModuleInit hooks of each service's modules: PrismaService connects *)
(* to the database; QueueService waits for RabbitMQ ("queue") and declares   *)
(* the exchanges and queues ("topology"); EmailConsumer registers the        *)
(* consumer.  The hook of the cache creates its client and waits for nothing. *)

Hooks == {"database", "queue", "topology", "consumer"}

GatewayHooks  == {"database", "queue", "topology"}
UserHooks     == {"database"}
EmailHooks    == Hooks
TemplateHooks == {"database"}

\* What has to be over before part h runs.
Before(h) == CASE h = "topology" -> {"queue"}
               [] h = "consumer" -> {"queue", "topology"}
               [] OTHER          -> {}

(* bootstrap of each main.ts, started by pm2 *)

Start(p, hooks) ==
    /\ phase[p] = "exited"
    /\ phase' = [phase EXCEPT ![p] = "booting"]
    /\ pending' = [pending EXCEPT ![p] = hooks]
    /\ UNCHANGED <<role, up, linked, leftover, unstable, faults, past>>

StartGateway(p)  == role[p] = "gateway"  /\ Start(p, GatewayHooks)
StartUser(p)     == role[p] = "user"     /\ Start(p, UserHooks)
StartEmail(p)    == role[p] = "email"    /\ Start(p, EmailHooks)
StartTemplate(p) == role[p] = "template" /\ Start(p, TemplateHooks)

\* bootstrap resolves: app.listen has run all hooks and the port is open.
Listen(p) ==
    /\ phase[p] = "booting"
    /\ pending[p] = {}
    /\ phase' = [phase EXCEPT ![p] = "serving"]
    /\ UNCHANGED <<role, up, pending, linked, leftover, unstable, faults, past>>

\* Process p ends and pm2 sees it: autorestart, unless this is the
\* max_restarts-th end that counts.  An end counts if it comes within
\* min_uptime of the start, while pm2 counts at all (pm2 stops to count some
\* time after it has first started the process); no end resets the count.
End(p) ==
    /\ \E n \in {unstable[p], unstable[p] + 1} :
           /\ unstable' = [unstable EXCEPT ![p] = n]
           /\ phase' = [phase EXCEPT ![p] = IF n >= MaxRestarts THEN "errored"
                                                               ELSE "exited"]
    /\ pending' = [pending EXCEPT ![p] = {}]
    /\ linked' = [linked EXCEPT ![p] = FALSE]
    /\ leftover' = [leftover EXCEPT ![p] = FALSE]

-------------------------------------------------------------------------------
(* The hooks *)

Hook(p, h) ==
    /\ phase[p] = "booting"
    /\ h \in pending[p]
    /\ pending[p] \cap Before(h) = {}

HookDone(p, h) == pending' = [pending EXCEPT ![p] = @ \ {h}]

\* $connect succeeds.
DatabaseConnects(p) ==
    /\ Hook(p, "database")
    /\ up["database"]
    /\ HookDone(p, "database")
    /\ UNCHANGED <<role, up, phase, linked, leftover, unstable, faults, past>>

\* Mutant: the first failed connection rejects, as it does for the database.
QueueConnectsOrFails(p) ==
    /\ Hook(p, "queue")
    /\ IF up["queue"]
       THEN /\ HookDone(p, "queue")
            /\ linked' = [linked EXCEPT ![p] = TRUE]
            /\ UNCHANGED <<phase, leftover, unstable>>
       ELSE End(p)
    /\ UNCHANGED <<role, up, faults, past>>

\* waitForConnect resolves; while RabbitMQ is away it neither resolves nor
\* rejects, and the manager tries again every five seconds.
QueueConnects(p) ==
    /\ Hook(p, "queue")
    /\ up["queue"]
    /\ HookDone(p, "queue")
    /\ linked' = [linked EXCEPT ![p] = TRUE]
    /\ UNCHANGED <<role, up, phase, leftover, unstable, faults, past>>

\* addSetup runs the setup on the channel, to the end; or there is no channel
\* any more, and it resolves at once: the setup runs when the manager reconnects.
SetUp(p, h) ==
    /\ Hook(p, h)
    /\ linked[p] => up["queue"]
    /\ HookDone(p, h)
    /\ UNCHANGED <<role, up, phase, linked, leftover, unstable, faults, past>>

\* setupExchangesAndQueues
DeclaresTopology(p) == SetUp(p, "topology")

\* startConsuming
RegistersConsumer(p) == SetUp(p, "consumer")

-------------------------------------------------------------------------------
(* Exits *)

\* $connect rejects, the hook throws it again, bootstrap().catch exits.
DatabaseRefuses(p) ==
    /\ Hook(p, "database")
    /\ ~up["database"]
    /\ End(p)
    /\ refused' = [refused EXCEPT ![p] = @ + (unstable'[p] - unstable[p])]
    /\ UNCHANGED <<role, up, faults, queueOutages, exceptions>>

\* The channel closes under a setup: addSetup rejects, the hook throws it
\* again, bootstrap().catch exits.
SetUpRejects(p) ==
    /\ Hook(p, "topology") \/ Hook(p, "consumer")
    /\ linked[p]
    /\ ~up["queue"]
    /\ End(p)
    /\ UNCHANGED <<role, up, faults, past>>

\* The ack of a leftover handler throws, so that it sets a timer, and the nack
\* in the timer throws outside any promise: exit in one second.  A start does
\* not get to serve in that second.
TimerThrows(p) ==
    /\ leftover[p]
    /\ \/ /\ phase[p] = "serving"
          /\ phase' = [phase EXCEPT ![p] = "exiting"]
          /\ leftover' = [leftover EXCEPT ![p] = FALSE]
          /\ UNCHANGED <<pending, linked, unstable>>
       \/ phase[p] = "booting" /\ End(p)
    /\ UNCHANGED <<role, up, faults, past>>

\* Any other exception outside a promise: exit in one second.
UncaughtException(p) ==
    /\ phase[p] = "serving"
    /\ faults < MaxFaults
    /\ phase' = [phase EXCEPT ![p] = "exiting"]
    /\ faults' = faults + 1
    /\ exceptions' = exceptions + 1
    /\ UNCHANGED <<role, up, pending, linked, leftover, unstable, refused, queueOutages>>

\* Mutant: the handler of the exception does not exit.
ExitNever(p) == FALSE /\ UNCHANGED lifeVars

Exit(p) ==
    /\ phase[p] = "exiting"
    /\ End(p)
    /\ UNCHANGED <<role, up, faults, past>>

\* Mutant: the container stays down when pm2-runtime ends.
ContainerStaysDown == FALSE /\ UNCHANGED lifeVars

\* Mutant: the counts of pm2 outlive the container.
ContainerKeepsCounts ==
    /\ \A p \in Procs : phase[p] = "errored"
    /\ phase' = [p \in Procs |-> "exited"]
    /\ UNCHANGED <<role, up, pending, linked, leftover, unstable, faults, past>>

\* pm2-runtime ends when it has given up every process, and the container
\* (restart: unless-stopped) starts it again.
ContainerRestarts ==
    /\ \A p \in Procs : phase[p] = "errored"
    /\ phase' = [p \in Procs |-> "exited"]
    /\ unstable' = [p \in Procs |-> 0]
    /\ refused' = [p \in Procs |-> 0]
    /\ UNCHANGED <<role, up, pending, linked, leftover, faults, queueOutages, exceptions>>

-------------------------------------------------------------------------------
(* Outages.  Open connections to PostgreSQL and Redis come back by        *)
(* themselves; the amqp connection manager notices a lost broker later    *)
(* (heartbeat of 60 s) and reconnects every five seconds.                 *)

Outage(d) ==
    /\ up[d]
    /\ faults < MaxFaults
    /\ up' = [up EXCEPT ![d] = FALSE]
    /\ faults' = faults + 1
    /\ queueOutages' = IF d = "queue" THEN queueOutages + 1 ELSE queueOutages
    /\ UNCHANGED <<role, phase, pending, linked, leftover, unstable, refused, exceptions>>

Recover(d) ==
    /\ ~up[d]
    /\ up' = [up EXCEPT ![d] = TRUE]
    /\ UNCHANGED <<role, phase, pending, linked, leftover, unstable, faults, past>>

\* p consumes, so that its channel may take messages with it.
Consumes(p) == role[p] = "email" /\ "consumer" \notin pending[p]

\* on('disconnect')
Disconnected(p) ==
    /\ linked[p]
    /\ ~up["queue"]
    /\ linked' = [linked EXCEPT ![p] = FALSE]
    /\ \E b \in BOOLEAN : /\ b => Consumes(p)
                         /\ leftover' = [leftover EXCEPT ![p] = @ \/ b]
    /\ UNCHANGED <<role, up, phase, pending, unstable, faults, past>>

\* on('connect') of a process that has been connected before.
Reconnected(p) ==
    /\ role[p] \in {"gateway", "email"}
    /\ phase[p] \in {"booting", "serving", "exiting"}
    /\ "queue" \notin pending[p]
    /\ ~linked[p]
    /\ up["queue"]
    /\ linked' = [linked EXCEPT ![p] = TRUE]
    /\ UNCHANGED <<role, up, phase, pending, leftover, unstable, faults, past>>

-------------------------------------------------------------------------------

LifeInit ==
    /\ role \in Fleets
    /\ up = [d \in Deps |-> TRUE]
    /\ phase = [p \in Procs |-> "exited"]
    /\ pending = [p \in Procs |-> {}]
    /\ linked = [p \in Procs |-> FALSE]
    /\ leftover = [p \in Procs |-> FALSE]
    /\ unstable = [p \in Procs |-> 0]
    /\ faults = 0
    /\ refused = [p \in Procs |-> 0]
    /\ queueOutages = 0
    /\ exceptions = 0

Starts(p) == StartGateway(p) \/ StartUser(p) \/ StartEmail(p) \/ StartTemplate(p)

Connects(p) ==
    \/ DatabaseConnects(p)
    \/ QueueConnects(p)
    \/ DeclaresTopology(p)
    \/ RegistersConsumer(p)

StartFails(p) == DatabaseRefuses(p) \/ SetUpRejects(p)

ProcStep(p) ==
    \/ Starts(p)
    \/ Connects(p)
    \/ Listen(p)
    \/ StartFails(p)
    \/ TimerThrows(p)
    \/ UncaughtException(p)
    \/ Exit(p)
    \/ Disconnected(p)
    \/ Reconnected(p)

LifeNext ==
    \/ \E p \in Procs : ProcStep(p)
    \/ ContainerRestarts
    \/ \E d \in Deps : Outage(d) \/ Recover(d)

\* What pm2, the event loop and the connection manager do not leave undone
\* for ever.  Nothing obliges a dependency to come back.
LifeProgress(p) ==
    \/ Starts(p)
    \/ Connects(p)
    \/ Listen(p)
    \/ StartFails(p)
    \/ Exit(p)

-------------------------------------------------------------------------------

LifeTypeOK ==
    /\ role \in [Procs -> Roles]
    /\ up \in [Deps -> BOOLEAN]
    /\ phase \in [Procs -> Phases]
    /\ pending \in [Procs -> SUBSET Hooks]
    /\ linked \in [Procs -> BOOLEAN]
    /\ leftover \in [Procs -> BOOLEAN]
    /\ unstable \in [Procs -> 0..MaxRestarts]
    /\ faults \in 0..MaxFaults
    /\ refused \in [Procs -> 0..MaxRestarts]
    /\ queueOutages \in 0..MaxFaults
    /\ exceptions \in 0..MaxFaults

\* The outages of RabbitMQ that can have ended p: it has a connection to lose.
OutagesFelt(p) == IF role[p] \in {"gateway", "email"} THEN queueOutages ELSE 0

\* What it takes until pm2 gives a process up.  An outage of RabbitMQ ends each
\* process that uses it at most once, however long it lasts and however often
\* the process is started in it: in a setup of the start, or through a retry
\* timer.  Only PostgreSQL refuses start after start; an outage of Redis ends
\* nothing.
GivenUpHasCause ==
    \A p \in Procs :
        phase[p] = "errored" => refused[p] + OutagesFelt(p) + exceptions >= MaxRestarts

\* A start neither hangs nor ends by itself: once the dependencies stay up,
\* every process comes to serve, unless pm2 gave it up earlier.  Exceptions
\* end with MaxFaults.
StaysUp == <>[](\A d \in Deps : up[d])

ServesOrGivenUp ==
    StaysUp => \A p \in Procs : <>[](phase[p] \in {"serving", "errored"})

\* However many processes an outage costs, the system comes back: once the
\* dependencies stay up, some process serves for good.  A service alone does
\* not: one whose processes pm2 gave up stays down while another one serves.
SystemComesBack == StaysUp => <>[](\E p \in Procs : phase[p] = "serving")

===============================================================================
