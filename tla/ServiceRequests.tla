--------------------------- MODULE ServiceRequests ----------------------------
(***************************************************************************)
(* HTTP requests to the processes of ServiceLifecycle: the health checks   *)
(* of the four services, and the two kinds of requests that the gateway    *)
(* forwards: the template proxy (apps/api-gateway/src/templates) and the   *)
(* registration (apps/api-gateway/src/auth).                               *)
(*                                                                         *)
(* A call that stays open when its process ends is cut: the client sees a  *)
(* closed connection.  What the gateway has sent may still be executed.    *)
(***************************************************************************)
EXTENDS ServiceLifecycle, FiniteSets

CONSTANTS
    Calls,      \* the requests of clients, each sent at most once; those of
                \*   op "template" to one route and from one address
    Workloads,  \* fleets of services, and what is asked of them
    NoProc,     \* no process
    Limit       \* limit of the throttler

Ops == {"none", "health", "template", "register"}

ASSUME RequestAssumption ==
    /\ NoProc \notin Procs
    /\ Workloads \subseteq [fleet : Fleets, asks : [Calls -> Ops]]
    /\ Limit \in Nat
    /\ IsFiniteSet(Calls) /\ IsFiniteSet(Procs)

VARIABLES
    call,       \* call[c]: see Calling
    hits,       \* hits[p]: the requests p's throttler has counted
                \*   in the last ttl
    recent      \* history: requests let through by a throttler in the last ttl

callVars == <<call, hits, recent>>

vars == <<lifeVars, callVars>>

Stages == {"unsent", "checking", "waiting", "answered", "cut"}

Answers == {"none", "up", "down", "ok", "rejected", "failed"}

\* sent: on its way to the other service; done, refused: its handler has
\* returned or thrown there; lost: it will not be executed any more.
Remote == {"none", "sent", "done", "refused", "lost"}

Calling == [stage : Stages, op : Ops, answer : Answers,
            at : Procs \cup {NoProc},  \* the process that answers
            remote : Remote,
            by : Procs \cup {NoProc},  \* the process that executed the remote part
            yes : SUBSET Deps, no : SUBSET Deps,  \* settled probes
            seen : SUBSET (Deps \X BOOLEAN)]      \* history: states of the
                                                  \* dependencies since it came

Unsent(op) == [stage |-> "unsent", op |-> op, answer |-> "none", at |-> NoProc,
               remote |-> "none", by |-> NoProc, yes |-> {}, no |-> {}, seen |-> {}]

Closed(k, stage, answer) ==
    [k EXCEPT !.stage = stage, !.answer = answer, !.at = NoProc,
              !.yes = {}, !.no = {}, !.seen = {}]

Open(k) == k.stage \in {"checking", "waiting"}

Arrives(c, p, op) == call[c].stage = "unsent" /\ call[c].op = op /\ Alive(p)

Becomes(c, k) == call' = [call EXCEPT ![c] = k]

Answer(c, a) == Becomes(c, Closed(call[c], "answered", a))

-------------------------------------------------------------------------------
(* Health checks: GET /health runs the probes at once, and answers when all *)
(* have settled.                                                            *)

GatewayChecks  == {"database", "queue", "cache"}
UserChecks     == {"database", "cache"}
EmailChecks    == {"database"}
TemplateChecks == {"database", "cache"}

Checks(r) == CASE r = "gateway"  -> GatewayChecks
               [] r = "user"     -> UserChecks
               [] r = "email"    -> EmailChecks
               [] r = "template" -> TemplateChecks

\* The queue is asked for isConnected, the others for an answer: SELECT 1
\* fails, and PING fails after the client's retries.
Healthy(p, d) == IF d = "queue" THEN linked[p] ELSE up[d]

\* What a process sees of the dependencies, given its link and what is up.
View(link, reachable) ==
    {<<d, IF d = "queue" THEN link ELSE reachable[d]>> : d \in Deps}

CheckHealth(c, p) ==
    /\ Arrives(c, p, "health")
    /\ Becomes(c, [call[c] EXCEPT !.stage = "checking", !.at = p,
                                  !.seen = View(linked[p], up)])
    /\ UNCHANGED <<lifeVars, hits, recent>>

Unsettled(c, d) ==
    /\ call[c].stage = "checking"
    /\ d \in Checks(role[call[c].at]) \ (call[c].yes \cup call[c].no)

Settle(c, d, b) ==
    /\ Becomes(c, IF b THEN [call[c] EXCEPT !.yes = @ \cup {d}]
                       ELSE [call[c] EXCEPT !.no = @ \cup {d}])
    /\ UNCHANGED <<lifeVars, hits, recent>>

At(c, r) == call[c].stage = "checking" /\ role[call[c].at] = r

\* Mutant: the result of the probe is dropped, as in the template service.
GatewayProbesUnread(c, d) ==
    /\ At(c, "gateway")
    /\ Unsettled(c, d)
    /\ Settle(c, d, TRUE)

GatewayProbes(c, d) ==
    /\ At(c, "gateway")
    /\ Unsettled(c, d)
    /\ Settle(c, d, Healthy(call[c].at, d))

UserProbes(c, d) ==
    /\ At(c, "user")
    /\ Unsettled(c, d)
    /\ Settle(c, d, Healthy(call[c].at, d))

EmailProbes(c, d) ==
    /\ At(c, "email")
    /\ Unsettled(c, d)
    /\ Settle(c, d, Healthy(call[c].at, d))

\* checkDatabase and checkCache await healthCheck, which does not throw, and
\* return true whatever it returned.
TemplateProbes(c, d) ==
    /\ At(c, "template")
    /\ Unsettled(c, d)
    /\ Settle(c, d, TRUE)

Probes(c) == \E d \in Deps :
    GatewayProbes(c, d) \/ UserProbes(c, d) \/ EmailProbes(c, d) \/ TemplateProbes(c, d)

HealthAnswer(c) ==
    /\ call[c].stage = "checking"
    /\ \A d \in Deps : ~Unsettled(c, d)
    /\ Answer(c, IF call[c].no = {} THEN "up" ELSE "down")
    /\ UNCHANGED <<lifeVars, hits, recent>>

-------------------------------------------------------------------------------
(* The gateway's routes *)

Reject(c) == Answer(c, "rejected")

\* The service methods send the request on and wait for the response.
Forward(c, p) ==
    Becomes(c, [call[c] EXCEPT !.stage = "waiting", !.at = p, !.remote = "sent"])

\* AuthGuard, global: no bearer token, 401 before the throttler counts.
NoToken(c) == Reject(c) /\ UNCHANGED <<hits, recent>>

\* Mutant: the comparison of the limit is off by one.
TooManyLate(p) == Cardinality(hits'[p]) > Limit + 1

\* The counter includes this request and those it refused.
TooMany(p) == Cardinality(hits'[p]) > Limit

\* ThrottlerGuard counts in the memory of one process, per route and address,
\* which behind nginx is the same for all clients.  Every request that gets
\* here counts, and over the limit it is refused (429).
Throttled(c, p) ==
    /\ hits' = [hits EXCEPT ![p] = @ \cup {c}]
    /\ TooMany(p)
    /\ Reject(c)
    /\ UNCHANGED recent

LetThrough(c, p) ==
    /\ hits' = [hits EXCEPT ![p] = @ \cup {c}]
    /\ ~TooMany(p)
    /\ recent' = recent \cup {c}

\* The method's AuthGuard('jwt') or the ValidationPipe refuse the request.
Invalid(c, p) == LetThrough(c, p) /\ Reject(c)

\* A route of TemplatesController, and the request of TemplatesService.
Proxy(c, p) == LetThrough(c, p) /\ Forward(c, p)

Templates(c, p) ==
    /\ Arrives(c, p, "template")
    /\ role[p] = "gateway"
    /\ NoToken(c) \/ Throttled(c, p) \/ Invalid(c, p) \/ Proxy(c, p)
    /\ UNCHANGED lifeVars

\* POST auth/register: public and not throttled.  The body is invalid, the
\* account exists or the query fails; or it is forwarded.
Register(c, p) ==
    /\ Arrives(c, p, "register")
    /\ role[p] = "gateway"
    /\ \/ Reject(c)
       \/ up["database"] /\ Forward(c, p)
    /\ UNCHANGED <<lifeVars, hits, recent>>

\* The ttl of a counted request ends.
HitExpires(c) ==
    /\ c \in recent \/ \E p \in Procs : c \in hits[p]
    /\ hits' = [p \in Procs |-> hits[p] \ {c}]
    /\ recent' = recent \ {c}
    /\ UNCHANGED <<lifeVars, call>>

-------------------------------------------------------------------------------
(* The other side *)

Backend(c) == IF call[c].op = "register" THEN "user" ELSE "template"

\* The controller of the user or template service runs its handler to the
\* end, whether or not the gateway still waits for it.
Execute(c, p) ==
    /\ call[c].remote = "sent"
    /\ Alive(p)
    /\ role[p] = Backend(c)
    /\ \E r \in {"done", "refused"} :
           Becomes(c, [call[c] EXCEPT !.remote = r, !.by = p])
    /\ UNCHANGED <<lifeVars, hits, recent>>

\* No process listens, or the connection was closed before it was read.
Lose(c) ==
    /\ call[c].remote = "sent"
    /\ \/ \A p \in Procs : role[p] = Backend(c) => ~Alive(p)
       \/ call[c].stage # "waiting"
    /\ Becomes(c, [call[c] EXCEPT !.remote = "lost"])
    /\ UNCHANGED <<lifeVars, hits, recent>>

\* Mutant: the response is not awaited.
ReplyEarly(c) ==
    /\ call[c].stage = "waiting"
    /\ call[c].remote \in {"sent", "done", "refused"}
    /\ Answer(c, IF call[c].remote = "refused" THEN "failed" ELSE "ok")
    /\ UNCHANGED <<lifeVars, hits, recent>>

\* The response arrives.  A refusal of the other service, whatever its
\* status, is an AxiosError: no HttpException, so AllExceptionsFilter answers
\* 500, and register answers 400.
Reply(c) ==
    /\ call[c].stage = "waiting"
    /\ call[c].remote \in {"done", "refused"}
    /\ Answer(c, IF call[c].remote = "done" THEN "ok" ELSE "failed")
    /\ UNCHANGED <<lifeVars, hits, recent>>

\* Mutant: the gateway waits on.
BrokenUnnoticed(c) == FALSE /\ UNCHANGED vars

\* No connection, or it closes without a response.
Broken(c) ==
    /\ call[c].stage = "waiting"
    /\ \/ call[c].remote = "lost"
       \/ call[c].remote \in {"done", "refused"} /\ ~Alive(call[c].by)
    /\ Answer(c, "failed")
    /\ UNCHANGED <<lifeVars, hits, recent>>

\* The HTTP client of AuthModule gives up after five seconds; the client of
\* the template proxy has no timeout.
TimesOut(c) ==
    /\ call[c].stage = "waiting"
    /\ call[c].op = "register"
    /\ Answer(c, "failed")
    /\ UNCHANGED <<lifeVars, hits, recent>>

-------------------------------------------------------------------------------
(* Steps of the processes and dependencies, and what they do to calls *)

Affected(k) ==
    IF ~Open(k) THEN k
    ELSE IF phase'[k.at] \notin Running THEN Closed(k, "cut", "none")
    ELSE IF k.stage = "checking"
         THEN [k EXCEPT !.seen = @ \cup View(linked'[k.at], up')]
    ELSE k

LifeStep ==
    /\ LifeNext
    /\ call' = [c \in Calls |-> Affected(call[c])]
    /\ hits' = [p \in Procs |-> IF phase'[p] \in Running THEN hits[p] ELSE {}]
    /\ UNCHANGED recent

Init ==
    /\ LifeInit
    /\ \E w \in Workloads :
           /\ role = w.fleet
           /\ call = [c \in Calls |-> Unsent(w.asks[c])]
    /\ hits = [p \in Procs |-> {}]
    /\ recent = {}

CallStep(c) ==
    \/ \E p \in Procs : CheckHealth(c, p) \/ Templates(c, p) \/ Register(c, p) \/ Execute(c, p)
    \/ Probes(c) \/ HealthAnswer(c)
    \/ HitExpires(c)
    \/ Lose(c) \/ Reply(c) \/ Broken(c) \/ TimesOut(c)

Next == LifeStep \/ \E c \in Calls : CallStep(c)

\* Probes settle, connections close and handlers return; a client may stay
\* silent, and a timeout need not strike.
CallProgress(c) ==
    \/ Probes(c) \/ HealthAnswer(c)
    \/ (\E p \in Procs : Execute(c, p))
    \/ Lose(c) \/ Reply(c) \/ Broken(c)

Fairness ==
    /\ \A p \in Procs : WF_vars(LifeProgress(p) /\ LifeStep)
    /\ WF_vars(ContainerRestarts /\ LifeStep)
    /\ \A c \in Calls : WF_vars(CallProgress(c))

Spec == Init /\ [][Next]_vars /\ Fairness

-------------------------------------------------------------------------------

TypeOK ==
    /\ LifeTypeOK
    /\ call \in [Calls -> Calling]
    /\ hits \in [Procs -> SUBSET Calls]
    /\ recent \subseteq Calls

\* A success answer stands for one completed handler of the other service,
\* and a refused request was never forwarded.  A failed or cut request may
\* have been executed or not.
AnswerTellsEffect ==
    \A c \in Calls :
        /\ call[c].answer = "ok" => call[c].remote = "done"
        /\ call[c].answer = "rejected" => call[c].remote = "none"

Gateways == {p \in Procs : role[p] = "gateway"}

\* The throttlers together let through their limit once per gateway process
\* and once more per process that was replaced, not once per system.
AdmittedWithinLimit ==
    Cardinality(recent) <= Limit * (Cardinality(Gateways) + exceptions)

\* An answer of GET /health was true of each dependency at some time during
\* the check, though perhaps never of all at once; the template service is
\* left out, whose probes discard their results.
AnswersWereTrue ==
    [][\A c \in Calls :
        LET k == call[c] IN
        k.stage = "checking" /\ role[k.at] # "template" =>
            /\ call'[c].answer = "up" =>
                   \A d \in Checks(role[k.at]) : <<d, TRUE>> \in k.seen
            /\ call'[c].answer = "down" =>
                   \E d \in Checks(role[k.at]) : <<d, FALSE>> \in k.seen]_vars

\* Every call is answered or its connection closes, even while dependencies
\* are down and although the template proxy has no timeout, provided that
\* handlers return or their processes end.
Answered == \A c \in Calls : Open(call[c]) ~> ~Open(call[c])

===============================================================================
