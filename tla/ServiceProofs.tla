---------------------------- MODULE ServiceProofs ----------------------------
(***************************************************************************)
(* Proofs about the safety of ServiceLifecycle and ServiceRequests for any *)
(* number of processes, dependencies' faults and calls.                    *)
(*                                                                         *)
(* Three invariants, one on top of the other: what pm2 counted (Life),     *)
(* what an open call has learned (CallsSound), and how many requests the   *)
(* throttlers can have let through (Charged).                              *)
(***************************************************************************)
EXTENDS ServiceRequests, TLAPS, FiniteSetTheorems

-------------------------------------------------------------------------------
(* What pm2 counted of a process has been paid for by a refused start, an   *)
(* exception or an outage of RabbitMQ, and so has every end that is still   *)
(* to come: an exit that is due, a leftover that will throw, a connection   *)
(* that the process has yet to find broken.                                 *)

One(b) == IF b THEN 1 ELSE 0

Severed(p) == linked[p] /\ ~up["queue"]

EndsToCome(p) == One(phase[p] = "exiting") + One(leftover[p]) + One(Severed(p))

Tally(p) ==
    /\ phase[p] = "errored" <=> unstable[p] >= MaxRestarts
    /\ phase[p] \in {"exited", "errored"} => ~leftover[p] /\ ~linked[p]
    /\ leftover[p] => role[p] = "email"
    /\ linked[p] \/ "queue" \in pending[p] => role[p] \in {"gateway", "email"}
    /\ refused[p] <= unstable[p]
    /\ unstable[p] + EndsToCome(p) <= refused[p] + OutagesFelt(p) + exceptions

Life ==
    /\ LifeTypeOK
    /\ queueOutages + exceptions <= faults
    /\ \A p \in Procs : Tally(p)

LEMMA LifeInitially == LifeInit => Life
<1> SUFFICES ASSUME LifeInit PROVE Life
  OBVIOUS
<1>1. LifeTypeOK
  <2>1. role \in [Procs -> Roles] /\ faults \in 0..MaxFaults /\ exceptions \in 0..MaxFaults
        /\ queueOutages \in 0..MaxFaults
    BY LifeAssumption DEF LifeInit
  <2>2. unstable \in [Procs -> 0..MaxRestarts] /\ phase \in [Procs -> Phases]
        /\ refused \in [Procs -> 0..MaxRestarts]
    BY LifeAssumption DEF LifeInit, Phases
  <2>3. up \in [Deps -> BOOLEAN] /\ linked \in [Procs -> BOOLEAN] /\ leftover \in [Procs -> BOOLEAN]
    BY DEF LifeInit
  <2>4. pending \in [Procs -> SUBSET Hooks]
    BY DEF LifeInit
  <2> QED
    BY <2>1, <2>2, <2>3, <2>4 DEF LifeTypeOK
<1>2. ASSUME NEW p \in Procs PROVE Tally(p)
  <2>1. /\ phase[p] = "exited" /\ unstable[p] = 0 /\ refused[p] = 0 /\ exceptions = 0
        /\ queueOutages = 0 /\ ~leftover[p] /\ ~linked[p] /\ pending[p] = {}
    BY DEF LifeInit
  <2>2. EndsToCome(p) = 0 /\ OutagesFelt(p) = 0
    BY <2>1 DEF EndsToCome, One, Severed, OutagesFelt
  <2> QED
    BY <2>1, <2>2, LifeAssumption DEF Tally
<1> QED
  BY <1>1, <1>2, LifeAssumption DEF LifeInit, Life

LEMMA TallyTypes ==
    ASSUME LifeTypeOK, NEW p \in Procs
    PROVE  /\ unstable[p] \in Nat /\ refused[p] \in Nat /\ exceptions \in Nat /\ queueOutages \in Nat
           /\ One(phase[p] = "exiting") \in 0..1 /\ One(leftover[p]) \in 0..1
           /\ One(Severed(p)) \in 0..1
           /\ EndsToCome(p) \in Nat /\ OutagesFelt(p) \in Nat
BY LifeAssumption DEF LifeTypeOK, One, EndsToCome, OutagesFelt

\* A process that a step leaves alone, unless it is an outage of RabbitMQ.
LEMMA AloneTally ==
    ASSUME Life, NEW p \in Procs, exceptions' \in Nat, exceptions' >= exceptions,
           up["queue"] => up'["queue"],
           role' = role, queueOutages' = queueOutages,
           phase'[p] = phase[p], pending'[p] \subseteq pending[p], linked'[p] = linked[p],
           leftover'[p] = leftover[p], unstable'[p] = unstable[p], refused'[p] = refused[p]
    PROVE  Tally(p)'
<1>1. LifeTypeOK /\ Tally(p)
  BY DEF Life
<1>2. EndsToCome(p)' <= EndsToCome(p) /\ EndsToCome(p)' \in Nat /\ EndsToCome(p) \in Nat
  BY DEF EndsToCome, One, Severed
<1>3. OutagesFelt(p)' = OutagesFelt(p)
  BY DEF OutagesFelt
<1> QED
  BY <1>1, <1>2, <1>3, TallyTypes DEF Tally

\* The end of a process: each of its causes is paid for, or pays now.
LEMMA EndLife ==
    ASSUME Life, NEW p \in Procs, phase[p] \in {"booting", "serving", "exiting"}, End(p),
           UNCHANGED <<role, up, faults, queueOutages, exceptions>>,
           \A q \in Procs \ {p} : refused'[q] = refused[q],
           refused' \in [Procs -> Int],
           refused'[p] = refused[p] + (unstable'[p] - unstable[p])
               \/ (refused'[p] = refused[p] /\ EndsToCome(p) >= 1)
    PROVE  Life'
<1> USE LifeAssumption
<1>t. LifeTypeOK /\ Tally(p)
  BY DEF Life
<1>1. PICK n \in {unstable[p], unstable[p] + 1} :
          /\ unstable' = [unstable EXCEPT ![p] = n]
          /\ phase' = [phase EXCEPT ![p] = IF n >= MaxRestarts THEN "errored" ELSE "exited"]
  BY DEF End
<1>2. unstable[p] \in Nat /\ unstable[p] < MaxRestarts
  BY <1>t DEF LifeTypeOK, Tally
<1>3. n \in 0..MaxRestarts /\ unstable'[p] = n
  BY <1>t, <1>1, <1>2 DEF LifeTypeOK
<1>4. refused'[p] \in Int /\ 0 <= refused'[p] /\ refused'[p] <= n
  BY <1>t, <1>1, <1>2, <1>3, TallyTypes DEF Tally
<1>5. LifeTypeOK'
  <2>1. refused' \in [Procs -> 0..MaxRestarts]
    <3> SUFFICES ASSUME NEW q \in Procs PROVE refused'[q] \in 0..MaxRestarts
      OBVIOUS
    <3> QED
      BY <1>t, <1>3, <1>4 DEF LifeTypeOK
  <2>2. unstable' \in [Procs -> 0..MaxRestarts] /\ phase' \in [Procs -> Phases]
    BY <1>t, <1>1, <1>3 DEF LifeTypeOK, Phases
  <2>3. /\ pending' \in [Procs -> SUBSET Hooks] /\ linked' \in [Procs -> BOOLEAN]
        /\ leftover' \in [Procs -> BOOLEAN]
    BY <1>t DEF End, LifeTypeOK
  <2> QED
    BY <1>t, <2>1, <2>2, <2>3 DEF LifeTypeOK
<1>6. Tally(p)'
  <2>1. /\ pending'[p] = {} /\ ~linked'[p] /\ ~leftover'[p]
        /\ phase'[p] = IF n >= MaxRestarts THEN "errored" ELSE "exited"
    BY <1>t, <1>1 DEF End, LifeTypeOK
  <2>2. EndsToCome(p)' = 0
    BY <2>1 DEF EndsToCome, One, Severed
  <2>3. OutagesFelt(p)' = OutagesFelt(p)
    BY DEF OutagesFelt
  <2>4. unstable'[p] <= refused'[p] + OutagesFelt(p)' + exceptions'
    BY <1>t, <1>1, <1>3, <1>4, <2>3, TallyTypes DEF Tally
  <2> QED
    BY <1>3, <1>4, <2>1, <2>2, <2>4, TallyTypes DEF Tally
<1>7. ASSUME NEW q \in Procs, q # p PROVE Tally(q)'
  <2>1. /\ phase'[q] = phase[q] /\ unstable'[q] = unstable[q] /\ pending'[q] = pending[q]
        /\ linked'[q] = linked[q] /\ leftover'[q] = leftover[q] /\ refused'[q] = refused[q]
    BY <1>t, <1>1, <1>7 DEF End, LifeTypeOK
  <2> QED
    BY <1>t, <2>1, AloneTally, TallyTypes
<1> QED
  BY <1>5, <1>6, <1>7 DEF Life

\* A step that leaves counts, faults and history alone, neither ends nor
\* revives a process and takes RabbitMQ away from none.
LEMMA PlainLife ==
    ASSUME Life, LifeTypeOK',
           UNCHANGED <<role, unstable, faults, past, leftover>>,
           up["queue"] => up'["queue"],
           \A p \in Procs :
               /\ phase'[p] = phase[p]
                  \/ (phase[p] \notin {"errored", "exiting"} /\ phase'[p] \in {"booting", "serving"})
               /\ "queue" \in pending'[p] => role[p] \in {"gateway", "email"}
               /\ linked'[p] => linked[p] \/ (up'["queue"] /\ phase'[p] \notin {"exited", "errored"}
                                              /\ role[p] \in {"gateway", "email"})
    PROVE  Life'
<1> USE DEF Life
<1>1. ASSUME NEW p \in Procs PROVE Tally(p)'
  <2>1. EndsToCome(p)' <= EndsToCome(p) /\ EndsToCome(p)' \in Nat /\ EndsToCome(p) \in Nat
    <3>1. One(phase'[p] = "exiting") = One(phase[p] = "exiting")
      BY DEF One
    <3>2. One(linked'[p] /\ ~up'["queue"]) <= One(linked[p] /\ ~up["queue"])
      BY DEF One
    <3>3. One(leftover'[p]) = One(leftover[p])
      BY DEF One
    <3> QED
      BY <3>1, <3>2, <3>3, TallyTypes DEF EndsToCome, Severed, One
  <2>2. OutagesFelt(p)' = OutagesFelt(p) /\ refused'[p] = refused[p] /\ unstable'[p] = unstable[p]
        /\ exceptions' = exceptions /\ leftover'[p] = leftover[p]
    BY DEF OutagesFelt, past
  <2>3. Tally(p)
    OBVIOUS
  <2>4. unstable'[p] + EndsToCome(p)' <= refused'[p] + OutagesFelt(p)' + exceptions'
    BY <2>1, <2>2, <2>3, TallyTypes DEF Tally
  <2> QED
    BY <2>2, <2>3, <2>4 DEF Tally
<1>2. queueOutages' + exceptions' <= faults'
  BY DEF past
<1> QED
  BY <1>1, <1>2

LEMMA ProcLife == ASSUME Life, NEW p \in Procs, ProcStep(p) PROVE Life'
<1>t. LifeTypeOK /\ Tally(p) /\ \A q \in Procs : Tally(q)
  BY DEF Life
<1>1. CASE Starts(p)
  <2>1. PICK h \in SUBSET Hooks :
            Start(p, h) /\ ("queue" \in h => role[p] \in {"gateway", "email"})
    BY <1>1 DEF Starts, StartGateway, StartUser, StartEmail, StartTemplate,
                GatewayHooks, UserHooks, EmailHooks, TemplateHooks, Hooks
  <2>2. LifeTypeOK'
    BY <1>t, <2>1 DEF Start, past, LifeTypeOK, Phases
  <2>3. \A q \in Procs : phase'[q] = IF q = p THEN "booting" ELSE phase[q]
    BY <1>t, <2>1 DEF Start, LifeTypeOK
  <2>4. \A q \in Procs : pending'[q] = IF q = p THEN h ELSE pending[q]
    BY <1>t, <2>1 DEF Start, LifeTypeOK
  <2>5. phase[p] = "exited" /\ UNCHANGED <<role, up, linked, leftover, unstable, faults, past>>
    BY <2>1 DEF Start
  <2>6. \A q \in Procs : "queue" \in pending'[q] => role[q] \in {"gateway", "email"}
    BY <1>t, <2>1, <2>4 DEF Tally
  <2> QED
    BY <2>2, <2>3, <2>5, <2>6, PlainLife
<1>2. CASE DatabaseConnects(p) \/ DeclaresTopology(p) \/ RegistersConsumer(p)
  <2>1. PICK h \in Hooks : HookDone(p, h) /\ UNCHANGED <<role, up, phase, linked, leftover, unstable, faults, past>>
    BY <1>2 DEF DatabaseConnects, DeclaresTopology, RegistersConsumer, SetUp, Hooks
  <2>2. LifeTypeOK'
    BY <1>t, <2>1 DEF HookDone, past, LifeTypeOK
  <2>3. \A q \in Procs : pending'[q] \subseteq pending[q]
    BY <1>t, <2>1 DEF HookDone, LifeTypeOK
  <2>4. \A q \in Procs : "queue" \in pending'[q] => role[q] \in {"gateway", "email"}
    BY <1>t, <2>3 DEF Tally
  <2> QED
    BY <2>1, <2>2, <2>4, PlainLife
<1>3. CASE QueueConnects(p)
  <2>1. /\ HookDone(p, "queue") /\ up["queue"] /\ phase[p] = "booting" /\ "queue" \in pending[p]
        /\ linked' = [linked EXCEPT ![p] = TRUE]
        /\ UNCHANGED <<role, up, phase, leftover, unstable, faults, past>>
    BY <1>3 DEF QueueConnects, Hook
  <2>2. LifeTypeOK'
    BY <1>t, <2>1 DEF HookDone, past, LifeTypeOK
  <2>3. \A q \in Procs : pending'[q] \subseteq pending[q]
    BY <1>t, <2>1 DEF HookDone, LifeTypeOK
  <2>4. \A q \in Procs : "queue" \in pending'[q] => role[q] \in {"gateway", "email"}
    BY <1>t, <2>3 DEF Tally
  <2>5. \A q \in Procs : linked'[q] = IF q = p THEN TRUE ELSE linked[q]
    BY <1>t, <2>1 DEF LifeTypeOK
  <2>6. role[p] \in {"gateway", "email"}
    BY <1>t, <2>1 DEF Tally
  <2> QED
    BY <2>1, <2>2, <2>4, <2>5, <2>6, PlainLife
<1>4. CASE Listen(p)
  <2>1. LifeTypeOK'
    BY <1>4, <1>t DEF Listen, past, LifeTypeOK, Phases
  <2>2. \A q \in Procs : phase'[q] = IF q = p THEN "serving" ELSE phase[q]
    BY <1>4, <1>t DEF Listen, LifeTypeOK
  <2>3. phase[p] = "booting" /\ UNCHANGED <<role, up, pending, linked, leftover, unstable, faults, past>>
    BY <1>4 DEF Listen
  <2>4. \A q \in Procs : "queue" \in pending[q] => role[q] \in {"gateway", "email"}
    BY <1>t DEF Tally
  <2> QED
    BY <2>1, <2>2, <2>3, <2>4, PlainLife
<1>5. CASE DatabaseRefuses(p)
  <2>1. /\ phase[p] = "booting" /\ End(p) /\ UNCHANGED <<role, up, faults, queueOutages, exceptions>>
        /\ refused' = [refused EXCEPT ![p] = @ + (unstable'[p] - unstable[p])]
    BY <1>5 DEF DatabaseRefuses, Hook
  <2>2. unstable'[p] \in Int
    BY <2>1, <1>t DEF End, LifeTypeOK
  <2>3. /\ refused' \in [Procs -> Int] /\ \A q \in Procs \ {p} : refused'[q] = refused[q]
        /\ refused'[p] = refused[p] + (unstable'[p] - unstable[p])
    BY <2>1, <2>2, <1>t DEF LifeTypeOK
  <2> QED
    BY <2>1, <2>3, EndLife
<1>6. ASSUME End(p), UNCHANGED <<role, up, faults, past>>,
             phase[p] \in {"booting", "serving", "exiting"},
             phase[p] = "exiting" \/ leftover[p] \/ Severed(p)
      PROVE  Life'
  <2>1. EndsToCome(p) >= 1
    BY <1>6 DEF EndsToCome, One
  <2>2. refused' \in [Procs -> Int] /\ refused' = refused /\ queueOutages' = queueOutages
        /\ exceptions' = exceptions
    BY <1>6, <1>t DEF past, LifeTypeOK
  <2> QED
    BY <1>6, <2>1, <2>2, EndLife
<1>7. CASE SetUpRejects(p)
  BY <1>6, <1>7 DEF SetUpRejects, Hook, Severed
<1>8. CASE Exit(p)
  BY <1>6, <1>8 DEF Exit
<1>9. CASE TimerThrows(p) /\ phase[p] = "booting"
  BY <1>6, <1>9 DEF TimerThrows
<1>10. CASE TimerThrows(p) /\ phase[p] = "serving"
  <2>1. /\ leftover[p] /\ phase' = [phase EXCEPT ![p] = "exiting"]
        /\ leftover' = [leftover EXCEPT ![p] = FALSE]
        /\ UNCHANGED <<role, up, pending, linked, unstable, faults, past>>
    BY <1>10 DEF TimerThrows
  <2>2. LifeTypeOK'
    BY <2>1, <1>t DEF past, LifeTypeOK, Phases
  <2>3. Tally(p)'
    <3>1. phase'[p] = "exiting" /\ ~leftover'[p]
      BY <2>1, <1>t DEF LifeTypeOK
    <3>2. EndsToCome(p)' = EndsToCome(p)
      BY <1>10, <2>1, <3>1 DEF EndsToCome, One, Severed
    <3>3. OutagesFelt(p)' = OutagesFelt(p)
      BY <2>1 DEF OutagesFelt, past
    <3> QED
      BY <1>t, <1>10, <2>1, <3>1, <3>2, <3>3 DEF Tally, past
  <2>4. ASSUME NEW q \in Procs, q # p PROVE Tally(q)'
    <3>1. phase'[q] = phase[q] /\ leftover'[q] = leftover[q]
      BY <2>1, <2>4, <1>t DEF LifeTypeOK
    <3>2. /\ exceptions' = exceptions /\ exceptions \in Nat /\ queueOutages' = queueOutages
          /\ refused'[q] = refused[q] /\ unstable'[q] = unstable[q] /\ pending'[q] = pending[q]
      BY <1>t, <2>1, TallyTypes DEF past
    <3>3. exceptions' >= exceptions
      BY <3>2
    <3> QED
      BY <2>1, <3>1, <3>2, <3>3, AloneTally
  <2> QED
    BY <2>1, <2>2, <2>3, <2>4 DEF Life, past
<1>11. CASE UncaughtException(p)
  <2>1. /\ phase[p] = "serving" /\ phase' = [phase EXCEPT ![p] = "exiting"]
        /\ faults < MaxFaults /\ faults' = faults + 1 /\ exceptions' = exceptions + 1
        /\ UNCHANGED <<role, up, pending, linked, leftover, unstable, refused, queueOutages>>
    BY <1>11 DEF UncaughtException
  <2>2. queueOutages' + exceptions' <= faults'
    BY <2>1, <1>t, LifeAssumption DEF Life, LifeTypeOK
  <2>3. LifeTypeOK'
    BY <2>1, <2>2, <1>t, LifeAssumption DEF Life, LifeTypeOK, Phases
  <2>4. Tally(p)'
    <3>1. phase'[p] = "exiting"
      BY <2>1, <1>t DEF LifeTypeOK
    <3>2. EndsToCome(p)' = EndsToCome(p) + 1
      <4>1. One(phase'[p] = "exiting") = 1 /\ One(phase[p] = "exiting") = 0
        BY <2>1, <3>1 DEF One
      <4>2. One(leftover'[p]) = One(leftover[p]) /\ One(Severed(p))' = One(Severed(p))
        BY <2>1 DEF One, Severed
      <4> QED
        BY <4>1, <4>2, <1>t, TallyTypes DEF EndsToCome
    <3>3. OutagesFelt(p)' = OutagesFelt(p)
      BY <2>1 DEF OutagesFelt
    <3>4. unstable'[p] + EndsToCome(p)' <= refused'[p] + OutagesFelt(p)' + exceptions'
      BY <1>t, <2>1, <3>2, <3>3, TallyTypes DEF Tally
    <3> QED
      BY <1>t, <2>1, <3>1, <3>4 DEF Tally
  <2>5. ASSUME NEW q \in Procs, q # p PROVE Tally(q)'
    <3>1. phase'[q] = phase[q]
      BY <2>1, <2>5, <1>t DEF LifeTypeOK
    <3>2. exceptions' \in Nat /\ exceptions' >= exceptions
      BY <1>t, <2>1, TallyTypes
    <3> QED
      BY <2>1, <3>1, <3>2, AloneTally
  <2> QED
    BY <2>2, <2>3, <2>4, <2>5 DEF Life
<1>12. CASE Disconnected(p)
  <2>1. PICK b \in BOOLEAN : (b => Consumes(p)) /\ leftover' = [leftover EXCEPT ![p] = @ \/ b]
    BY <1>12 DEF Disconnected
  <2>2. /\ linked[p] /\ ~up["queue"] /\ linked' = [linked EXCEPT ![p] = FALSE]
        /\ UNCHANGED <<role, up, phase, pending, unstable, faults, past>>
    BY <1>12 DEF Disconnected
  <2>3. LifeTypeOK'
    BY <2>1, <2>2, <1>t DEF past, LifeTypeOK
  <2>4. Tally(p)'
    <3>1. /\ ~linked'[p] /\ (leftover'[p] <=> leftover[p] \/ b)
          /\ phase[p] \notin {"exited", "errored"}
      BY <2>1, <2>2, <1>t DEF LifeTypeOK, Tally
    <3>2. EndsToCome(p)' <= EndsToCome(p) /\ EndsToCome(p)' \in Nat /\ EndsToCome(p) \in Nat
      <4>1. One(Severed(p)) = 1 /\ One(Severed(p))' = 0
        BY <2>2, <3>1 DEF One, Severed
      <4>2. One(leftover[p]) \in 0..1 /\ One(leftover'[p]) \in 0..1
        BY DEF One
      <4>3. One(phase'[p] = "exiting") = One(phase[p] = "exiting") /\ One(phase[p] = "exiting") \in 0..1
        BY <2>2 DEF One
      <4>4. One(leftover'[p]) <= One(leftover[p]) + 1
        BY <4>2
      <4> QED
        BY <4>1, <4>2, <4>3, <4>4 DEF EndsToCome
    <3>3. OutagesFelt(p)' = OutagesFelt(p) /\ refused'[p] = refused[p] /\ exceptions' = exceptions
      BY <2>2 DEF OutagesFelt, past
    <3>4. leftover'[p] => role[p] = "email"
      BY <1>t, <2>1, <3>1 DEF Consumes, Tally
    <3>5. unstable'[p] + EndsToCome(p)' <= refused'[p] + OutagesFelt(p)' + exceptions'
      BY <1>t, <2>2, <3>2, <3>3, TallyTypes DEF Tally
    <3> QED
      BY <1>t, <2>2, <3>1, <3>3, <3>4, <3>5 DEF Tally
  <2>5. ASSUME NEW q \in Procs, q # p PROVE Tally(q)'
    <3>1. linked'[q] = linked[q] /\ leftover'[q] = leftover[q]
      BY <2>1, <2>2, <2>5, <1>t DEF LifeTypeOK
    <3>2. /\ exceptions' = exceptions /\ exceptions \in Nat /\ queueOutages' = queueOutages
          /\ refused'[q] = refused[q] /\ unstable'[q] = unstable[q] /\ pending'[q] = pending[q]
      BY <1>t, <2>2, TallyTypes DEF past
    <3>3. exceptions' >= exceptions
      BY <3>2
    <3> QED
      BY <2>2, <3>1, <3>2, <3>3, AloneTally
  <2> QED
    BY <2>2, <2>3, <2>4, <2>5 DEF Life, past
<1>13. CASE Reconnected(p)
  <2>1. /\ role[p] \in {"gateway", "email"} /\ phase[p] \notin {"exited", "errored"} /\ up["queue"]
        /\ linked' = [linked EXCEPT ![p] = TRUE]
        /\ UNCHANGED <<role, up, phase, pending, leftover, unstable, faults, past>>
    BY <1>13 DEF Reconnected
  <2>2. LifeTypeOK'
    BY <1>t, <2>1 DEF past, LifeTypeOK
  <2>3. \A q \in Procs : linked'[q] = IF q = p THEN TRUE ELSE linked[q]
    BY <1>t, <2>1 DEF LifeTypeOK
  <2>4. \A q \in Procs : "queue" \in pending[q] => role[q] \in {"gateway", "email"}
    BY <1>t DEF Tally
  <2> QED
    BY <2>1, <2>2, <2>3, <2>4, PlainLife
<1>14. TimerThrows(p) => phase[p] \in {"serving", "booting"}
  BY DEF TimerThrows
<1> QED
  BY <1>1, <1>2, <1>3, <1>4, <1>5, <1>7, <1>8, <1>9, <1>10, <1>11, <1>12, <1>13, <1>14
  DEF ProcStep, Connects, StartFails

LEMMA LifeKept == ASSUME Life, LifeNext PROVE Life'
<1>t. LifeTypeOK /\ \A q \in Procs : Tally(q)
  BY DEF Life
<1>1. CASE ContainerRestarts
  <2>1. LifeTypeOK'
    BY <1>1, <1>t, LifeAssumption DEF ContainerRestarts, LifeTypeOK, Phases
  <2>2. ASSUME NEW p \in Procs PROVE Tally(p)'
    <3>1. /\ phase'[p] = "exited" /\ unstable'[p] = 0 /\ refused'[p] = 0 /\ phase[p] = "errored"
          /\ linked' = linked /\ leftover' = leftover /\ pending' = pending /\ role' = role
      BY <1>1 DEF ContainerRestarts
    <3>2. ~linked'[p] /\ ~leftover'[p]
      BY <1>t, <3>1 DEF Tally
    <3>3. EndsToCome(p)' = 0
      BY <3>1, <3>2 DEF EndsToCome, One, Severed
    <3>4. OutagesFelt(p)' \in Nat /\ exceptions' \in Nat
      BY <1>1, <1>t, TallyTypes DEF ContainerRestarts, OutagesFelt
    <3> QED
      BY <1>t, <3>1, <3>2, <3>3, <3>4, LifeAssumption DEF Tally
  <2> QED
    BY <1>1, <2>1, <2>2 DEF ContainerRestarts, Life
<1>2. ASSUME NEW d \in Deps, Outage(d) PROVE Life'
  <2>1. /\ up[d] /\ faults < MaxFaults /\ up' = [up EXCEPT ![d] = FALSE] /\ faults' = faults + 1
        /\ queueOutages' = IF d = "queue" THEN queueOutages + 1 ELSE queueOutages
        /\ UNCHANGED <<role, phase, pending, linked, leftover, unstable, refused, exceptions>>
    BY <1>2 DEF Outage
  <2>2. queueOutages' + exceptions' <= faults' /\ queueOutages' \in Nat
    BY <2>1, <1>t, LifeAssumption DEF Life, LifeTypeOK
  <2>3. LifeTypeOK'
    BY <2>1, <2>2, <1>t, LifeAssumption DEF LifeTypeOK
  <2>4. ASSUME NEW p \in Procs PROVE Tally(p)'
    <3>1. CASE d # "queue"
      <4>1. up'["queue"] = up["queue"]
        BY <2>1, <3>1, <1>t DEF LifeTypeOK, Deps
      <4> QED
        BY <1>t, <2>1, <3>1, <4>1, AloneTally, TallyTypes
    <3>2. CASE d = "queue"
      <4>1. up["queue"] /\ queueOutages' = queueOutages + 1
        BY <2>1, <3>2
      <4>2. One(Severed(p)) = 0 /\ One(Severed(p))' \in 0..1
        BY <4>1 DEF One, Severed
      <4>3. One(phase'[p] = "exiting") = One(phase[p] = "exiting") /\ One(leftover'[p]) = One(leftover[p])
        BY <2>1 DEF One
      <4>4. EndsToCome(p)' \in Nat /\ EndsToCome(p)' = EndsToCome(p) + One(Severed(p))'
        BY <4>2, <4>3, <1>t, TallyTypes DEF EndsToCome
      <4>5. CASE linked[p]
        <5>1. OutagesFelt(p)' = OutagesFelt(p) + 1
          BY <1>t, <2>1, <4>1, <4>5 DEF OutagesFelt, Tally
        <5> QED
          BY <1>t, <2>1, <4>2, <4>4, <5>1, TallyTypes DEF Tally
      <4>6. CASE ~linked[p]
        <5>1. One(Severed(p))' = 0
          BY <2>1, <4>6 DEF One, Severed
        <5>2. OutagesFelt(p)' >= OutagesFelt(p) /\ OutagesFelt(p)' \in Nat
          BY <1>t, <2>1, <4>1, TallyTypes DEF OutagesFelt
        <5> QED
          BY <1>t, <2>1, <4>4, <5>1, <5>2, TallyTypes DEF Tally
      <4> QED
        BY <4>5, <4>6
    <3> QED
      BY <3>1, <3>2
  <2> QED
    BY <2>2, <2>3, <2>4 DEF Life
<1>3. ASSUME NEW d \in Deps, Recover(d) PROVE Life'
  <2>1. /\ up' = [up EXCEPT ![d] = TRUE]
        /\ UNCHANGED <<role, phase, pending, linked, leftover, unstable, faults, past>>
    BY <1>3 DEF Recover
  <2>2. LifeTypeOK' /\ (up["queue"] => up'["queue"])
    BY <1>t, <2>1 DEF past, LifeTypeOK, Deps
  <2>3. \A q \in Procs : "queue" \in pending[q] => role[q] \in {"gateway", "email"}
    BY <1>t DEF Tally
  <2> QED
    BY <2>1, <2>2, <2>3, PlainLife
<1> QED
  BY <1>1, <1>2, <1>3, ProcLife DEF LifeNext

LEMMA LifeStays == ASSUME Life, UNCHANGED lifeVars PROVE Life'
BY DEF Life, LifeTypeOK, Tally, EndsToCome, Severed, OutagesFelt, One, past, lifeVars

LEMMA LifeImplies == Life => GivenUpHasCause
<1> SUFFICES ASSUME Life, NEW p \in Procs, phase[p] = "errored"
             PROVE  refused[p] + OutagesFelt(p) + exceptions >= MaxRestarts
  BY DEF GivenUpHasCause
<1>1. LifeTypeOK /\ Tally(p)
  BY DEF Life
<1> QED
  BY <1>1, TallyTypes, LifeAssumption DEF Tally

-------------------------------------------------------------------------------
(* What a call knows.  A settled probe was true of the dependency, and the *)
(* current state of the dependencies is always among those seen.           *)

Sound(k) ==
    /\ k \in Calling
    /\ Open(k) => k.at \in Procs /\ k.answer = "none"
    /\ k.stage = "unsent" =>
           k.answer = "none" /\ k.remote = "none" /\ k.yes = {} /\ k.no = {}
    /\ k.answer = "ok" => k.remote = "done"
    /\ k.answer = "rejected" => k.remote = "none"

Informed(k, service, link, reachable) ==
    k.stage = "checking" =>
        /\ k.yes \cup k.no \subseteq Checks(service[k.at])
        /\ View(link[k.at], reachable) \subseteq k.seen
        /\ service[k.at] # "template" =>
               /\ \A d \in k.yes : <<d, TRUE>> \in k.seen
               /\ \A d \in k.no : <<d, FALSE>> \in k.seen

CallsSound ==
    /\ call = [c \in Calls |-> call[c]]
    /\ \A c \in Calls : Sound(call[c]) /\ Informed(call[c], role, linked, up)
    /\ hits \in [Procs -> SUBSET Calls]
    /\ recent \subseteq Calls

LEMMA ViewType ==
    ASSUME NEW link \in BOOLEAN, NEW reachable \in [Deps -> BOOLEAN]
    PROVE  View(link, reachable) \subseteq Deps \X BOOLEAN
<1>1. ASSUME NEW d \in Deps
      PROVE  (IF d = "queue" THEN link ELSE reachable[d]) \in BOOLEAN
  <2>1. CASE d = "queue"
    BY <2>1
  <2>2. CASE d # "queue"
    BY <2>2
  <2> QED
    BY <2>1, <2>2
<1>2. SUFFICES ASSUME NEW v \in View(link, reachable) PROVE v \in Deps \X BOOLEAN
  OBVIOUS
<1>3. PICK d \in Deps : v = <<d, IF d = "queue" THEN link ELSE reachable[d]>>
  BY DEF View
<1> QED
  BY <1>1, <1>3

LEMMA ChecksType == ASSUME NEW r \in Roles PROVE Checks(r) \subseteq Deps
BY DEF Roles, Deps, Checks, GatewayChecks, UserChecks, EmailChecks, TemplateChecks

\* A step of one call; the other calls stay as they are.
LEMMA Turn ==
    ASSUME Life, CallsSound, NEW c \in Calls, NEW k, Becomes(c, k),
           Sound(k), Informed(k, role, linked, up), UNCHANGED lifeVars,
           hits' \in [Procs -> SUBSET Calls], recent' \subseteq Calls
    PROVE  CallsSound' /\ call'[c] = k /\ \A d \in Calls : d # c => call'[d] = call[d]
<1>1. call'[c] = k /\ \A d \in Calls : d # c => call'[d] = call[d]
  BY DEF Becomes, CallsSound
<1>2. call' = [d \in Calls |-> call'[d]]
  BY DEF Becomes, CallsSound
<1>3. ASSUME NEW d \in Calls PROVE Sound(call'[d]) /\ Informed(call'[d], role', linked', up')
  <2>1. Sound(call'[d]) /\ Informed(call'[d], role, linked, up)
    BY <1>1 DEF CallsSound
  <2>2. role' = role /\ linked' = linked /\ up' = up
    BY DEF lifeVars
  <2> QED
    BY <2>1, <2>2 DEF Informed
<1> QED
  BY <1>1, <1>2, <1>3 DEF CallsSound

\* A call that ends learns nothing more.
LEMMA EndTurn ==
    ASSUME NEW k, Sound(k), NEW a \in Answers, NEW s \in {"answered", "cut"},
           a = "ok" => k.remote = "done",
           a = "rejected" => k.remote = "none"
    PROVE  /\ Sound(Closed(k, s, a))
           /\ Closed(k, s, a).answer = a /\ Closed(k, s, a).stage = s
BY DEF Sound, Closed, Calling, Open, Stages

-------------------------------------------------------------------------------
(* Steps of the processes and dependencies *)

LEMMA RoleKept == LifeNext => role' = role
BY DEF LifeNext, ProcStep, Starts, StartGateway, StartUser, StartEmail, StartTemplate, Start,
       Connects, DatabaseConnects, QueueConnects, DeclaresTopology, RegistersConsumer, SetUp, Listen,
       StartFails, DatabaseRefuses, SetUpRejects, TimerThrows, UncaughtException, Exit, Disconnected, Reconnected, ContainerRestarts, Outage, Recover

LEMMA AffectedSound ==
    ASSUME Life, Life', role' = role, NEW k, Sound(k), Informed(k, role, linked, up)
    PROVE  Sound(Affected(k)) /\ Informed(Affected(k), role', linked', up')
<1>1. CASE ~Open(k)
  BY <1>1 DEF Affected, Informed, Open
<1>2. CASE Open(k) /\ phase'[k.at] \notin Running
  <2>1. Affected(k) = Closed(k, "cut", "none")
    BY <1>2 DEF Affected
  <2>2. Sound(Closed(k, "cut", "none")) /\ Closed(k, "cut", "none").stage = "cut"
    <3>1. "none" \in Answers
      BY DEF Answers
    <3> QED
      BY <3>1, EndTurn
  <2> QED
    BY <2>1, <2>2 DEF Informed
<1>3. CASE Open(k) /\ phase'[k.at] \in Running /\ k.stage # "checking"
  BY <1>3 DEF Affected, Informed
<1>4. CASE Open(k) /\ phase'[k.at] \in Running /\ k.stage = "checking"
  <2> DEFINE now == View(linked'[k.at], up')
             n == [k EXCEPT !.seen = @ \cup now]
  <2>1. Affected(k) = n
    BY <1>4 DEF Affected
  <2>2. k.at \in Procs
    BY <1>4 DEF Sound
  <2>3. linked'[k.at] \in BOOLEAN /\ up' \in [Deps -> BOOLEAN]
    BY <2>2 DEF Life, LifeTypeOK
  <2>4. now \subseteq Deps \X BOOLEAN
    BY <2>3, ViewType
  <2> HIDE DEF now
  <2>5. /\ n \in Calling /\ n.seen = k.seen \cup now /\ n.stage = k.stage /\ n.at = k.at
        /\ n.answer = k.answer /\ n.remote = k.remote /\ n.yes = k.yes /\ n.no = k.no
    BY <2>4 DEF Sound, Calling
  <2> HIDE DEF n
  <2>6. Sound(n)
    BY <2>5 DEF Sound, Open
  <2>7. View(linked'[n.at], up') \subseteq n.seen
    BY <2>5 DEF now
  <2>8. n.yes \cup n.no \subseteq Checks(role[n.at])
    BY <2>5, <1>4 DEF Informed
  <2>9. role[n.at] # "template" =>
            /\ \A d \in n.yes : <<d, TRUE>> \in n.seen
            /\ \A d \in n.no : <<d, FALSE>> \in n.seen
    BY <2>5, <1>4 DEF Informed
  <2> QED
    BY <2>1, <2>6, <2>7, <2>8, <2>9 DEF Informed
<1> QED
  BY <1>1, <1>2, <1>3, <1>4

LEMMA LifeStepSound ==
    ASSUME Life, Life', CallsSound, LifeStep
    PROVE  CallsSound'
<1>1. role' = role
  BY RoleKept DEF LifeStep
<1>2. ASSUME NEW c \in Calls PROVE Sound(call'[c]) /\ Informed(call'[c], role', linked', up')
  <2>1. call'[c] = Affected(call[c])
    BY DEF LifeStep
  <2>2. Sound(call[c]) /\ Informed(call[c], role, linked, up)
    BY DEF CallsSound
  <2> QED
    BY <1>1, <2>1, <2>2, AffectedSound
<1>3. call' = [c \in Calls |-> call'[c]]
  BY DEF LifeStep
<1>4. hits' \in [Procs -> SUBSET Calls] /\ recent' \subseteq Calls
  BY DEF LifeStep, CallsSound
<1> QED
  BY <1>2, <1>3, <1>4 DEF CallsSound

-------------------------------------------------------------------------------
(* Steps of one call *)

Known(c) == Informed(call[c], role, linked, up)

\* One call's part of AnswersWereTrue.
TrueAnswer(c) ==
    LET k == call[c] IN
    k.stage = "checking" /\ role[k.at] # "template" =>
        /\ call'[c].answer = "up" =>
               \A d \in Checks(role[k.at]) : <<d, TRUE>> \in k.seen
        /\ call'[c].answer = "down" =>
               \E d \in Checks(role[k.at]) : <<d, FALSE>> \in k.seen

\* What a step of call c has to show.
Right(c) ==
    /\ CallsSound'
    /\ TrueAnswer(c)
    /\ call[c].stage # "unsent" => call'[c].stage # "unsent"
    /\ \A d \in Calls : d # c => call'[d] = call[d]

LEMMA AnswerRight ==
    ASSUME Life, CallsSound, NEW c \in Calls, NEW a \in Answers, Answer(c, a),
           a = "ok" => call[c].remote = "done",
           a = "rejected" => call[c].remote = "none",
           a \in {"up", "down"} => TrueAnswer(c),
           UNCHANGED lifeVars, hits' \in [Procs -> SUBSET Calls], recent' \subseteq Calls
    PROVE  Right(c)
<1> DEFINE k == Closed(call[c], "answered", a)
<1>1. Sound(call[c])
  BY DEF CallsSound
<1>2. Sound(k) /\ k.answer = a /\ k.stage = "answered"
  BY <1>1, EndTurn
<1>3. Becomes(c, k)
  BY DEF Answer
<1> HIDE DEF k
<1>4. Informed(k, role, linked, up)
  BY <1>2 DEF Informed
<1>5. CallsSound' /\ call'[c] = k /\ \A d \in Calls : d # c => call'[d] = call[d]
  BY <1>2, <1>3, <1>4, Turn
<1>6. TrueAnswer(c)
  BY <1>2, <1>5 DEF TrueAnswer
<1> QED
  BY <1>2, <1>5, <1>6 DEF Right

LEMMA QuietRight ==
    ASSUME Life, CallsSound, NEW c \in Calls, NEW k, Becomes(c, k),
           Sound(k), Informed(k, role, linked, up), k.answer \notin {"up", "down"},
           call[c].stage # "unsent" => k.stage # "unsent",
           UNCHANGED lifeVars, hits' \in [Procs -> SUBSET Calls], recent' \subseteq Calls
    PROVE  Right(c)
<1>1. CallsSound' /\ call'[c] = k /\ \A d \in Calls : d # c => call'[d] = call[d]
  BY Turn
<1> QED
  BY <1>1 DEF Right, TrueAnswer

LEMMA CheckHealthRight ==
    ASSUME Life, CallsSound, NEW c \in Calls, NEW p \in Procs, CheckHealth(c, p)
    PROVE  Right(c)
<1> DEFINE now == View(linked[p], up)
           k == [call[c] EXCEPT !.stage = "checking", !.at = p, !.seen = now]
<1>1. Sound(call[c]) /\ call[c].stage = "unsent"
  BY DEF CallsSound, CheckHealth, Arrives
<1>2. Becomes(c, k) /\ UNCHANGED <<lifeVars, hits, recent>>
  BY DEF CheckHealth
<1>3. linked[p] \in BOOLEAN /\ up \in [Deps -> BOOLEAN]
  BY DEF Life, LifeTypeOK
<1>4. now \subseteq Deps \X BOOLEAN
  BY <1>3, ViewType
<1> HIDE DEF now
<1>5. /\ k \in Calling /\ k.stage = "checking" /\ k.at = p /\ k.seen = now
      /\ k.answer = "none" /\ k.remote = "none" /\ k.yes = {} /\ k.no = {}
  BY <1>1, <1>4 DEF Sound, Calling, Stages
<1> HIDE DEF k
<1>6. Sound(k)
  BY <1>5 DEF Sound
<1>7. Informed(k, role, linked, up)
  BY <1>5 DEF Informed, now
<1>8. hits' \in [Procs -> SUBSET Calls] /\ recent' \subseteq Calls
  BY <1>2 DEF CallsSound
<1> QED
  BY <1>2, <1>5, <1>6, <1>7, <1>8, QuietRight

LEMMA SettleRight ==
    ASSUME Life, CallsSound, NEW c \in Calls, NEW d \in Deps, NEW b \in BOOLEAN,
           Unsettled(c, d), Settle(c, d, b),
           role[call[c].at] = "template" \/ b = Healthy(call[c].at, d)
    PROVE  Right(c)
<1> DEFINE old == call[c]
           k == IF b THEN [old EXCEPT !.yes = @ \cup {d}] ELSE [old EXCEPT !.no = @ \cup {d}]
<1>1. Sound(old) /\ Known(c) /\ old.stage = "checking" /\ d \in Checks(role[old.at])
  BY DEF CallsSound, Known, Unsettled
<1>2. Becomes(c, k) /\ UNCHANGED <<lifeVars, hits, recent>>
  BY DEF Settle
<1> HIDE DEF old
<1>3. /\ k \in Calling /\ k.stage = old.stage /\ k.at = old.at /\ k.seen = old.seen
      /\ k.answer = old.answer /\ k.remote = old.remote
      /\ k.yes = IF b THEN old.yes \cup {d} ELSE old.yes
      /\ k.no = IF b THEN old.no ELSE old.no \cup {d}
  <2>1. CASE b
    BY <1>1, <2>1 DEF Sound, Calling
  <2>2. CASE ~b
    BY <1>1, <2>2 DEF Sound, Calling
  <2> QED
    BY <2>1, <2>2
<1> HIDE DEF k
<1>4. Sound(k) /\ k.answer = "none" /\ k.stage # "unsent"
  BY <1>1, <1>3 DEF Sound, Open
<1>5. Informed(k, role, linked, up)
  <2>1. Informed(old, role, linked, up)
    BY <1>1 DEF Known, old
  <2>2. k.yes \cup k.no \subseteq Checks(role[k.at])
    BY <1>1, <1>3, <2>1 DEF Informed
  <2>3. View(linked[k.at], up) \subseteq k.seen
    BY <1>1, <1>3, <2>1 DEF Informed
  <2>4. CASE role[k.at] = "template"
    BY <2>2, <2>3, <2>4 DEF Informed
  <2>5. CASE role[k.at] # "template"
    <3>1. <<d, b>> \in View(linked[k.at], up)
      BY <1>3, <2>5 DEF View, Healthy, old
    <3>2. <<d, b>> \in k.seen
      BY <3>1, <2>3
    <3>p. /\ \A e \in old.yes : <<e, TRUE>> \in k.seen
          /\ \A e \in old.no : <<e, FALSE>> \in k.seen
      BY <1>1, <1>3, <2>1, <2>5 DEF Informed
    <3>y. k.yes = IF b THEN old.yes \cup {d} ELSE old.yes
      BY <1>3
    <3>n. k.no = IF b THEN old.no ELSE old.no \cup {d}
      BY <1>3
    <3>3. \A e \in k.yes : <<e, TRUE>> \in k.seen
      BY <3>y, <3>2, <3>p, Zenon
    <3>4. \A e \in k.no : <<e, FALSE>> \in k.seen
      BY <3>n, <3>2, <3>p, Zenon
    <3> QED
      BY <2>2, <2>3, <3>3, <3>4 DEF Informed
  <2> QED
    BY <2>4, <2>5
<1>6. hits' \in [Procs -> SUBSET Calls] /\ recent' \subseteq Calls
  BY <1>2 DEF CallsSound
<1> QED
  BY <1>2, <1>4, <1>5, <1>6, QuietRight

LEMMA ProbesRight ==
    ASSUME Life, CallsSound, NEW c \in Calls, Probes(c) PROVE Right(c)
<1>1. PICK d \in Deps :
          GatewayProbes(c, d) \/ UserProbes(c, d) \/ EmailProbes(c, d) \/ TemplateProbes(c, d)
  BY DEF Probes
<1>2. Unsettled(c, d)
  BY <1>1 DEF GatewayProbes, UserProbes, EmailProbes, TemplateProbes
<1>3. call[c].at \in Procs
  BY <1>2 DEF CallsSound, Sound, Unsettled, Open
<1>4. Healthy(call[c].at, d) \in BOOLEAN
  <2>1. linked[call[c].at] \in BOOLEAN /\ up[d] \in BOOLEAN
    BY <1>3 DEF Life, LifeTypeOK
  <2>2. CASE d = "queue"
    BY <2>1, <2>2 DEF Healthy
  <2>3. CASE d # "queue"
    BY <2>1, <2>3 DEF Healthy
  <2> QED
    BY <2>2, <2>3
<1>5. CASE Settle(c, d, Healthy(call[c].at, d))
  BY <1>2, <1>4, <1>5, SettleRight
<1>6. CASE role[call[c].at] = "template" /\ Settle(c, d, TRUE)
  BY <1>2, <1>6, SettleRight
<1> QED
  BY <1>1, <1>5, <1>6 DEF GatewayProbes, UserProbes, EmailProbes, TemplateProbes, At

LEMMA HealthAnswerRight ==
    ASSUME Life, CallsSound, NEW c \in Calls, HealthAnswer(c) PROVE Right(c)
<1> DEFINE k == call[c]
           a == IF k.no = {} THEN "up" ELSE "down"
<1>1. Sound(k) /\ Informed(k, role, linked, up) /\ k.stage = "checking"
  BY DEF CallsSound, HealthAnswer
<1>2. k.at \in Procs /\ role[k.at] \in Roles
  BY <1>1 DEF Sound, Open, Life, LifeTypeOK
<1>3. Checks(role[k.at]) \subseteq Deps
  BY <1>2, ChecksType
<1>4. Checks(role[k.at]) \subseteq k.yes \cup k.no
  BY <1>1, <1>3 DEF HealthAnswer, Unsettled
<1>5. Answer(c, a) /\ UNCHANGED <<lifeVars, hits, recent>>
  BY DEF HealthAnswer
<1>6. call'[c].answer = a
  BY <1>5 DEF Answer, Becomes, Closed, CallsSound, Sound, Calling
<1>7. TrueAnswer(c)
  <2> SUFFICES ASSUME role[k.at] # "template"
               PROVE  /\ a = "up" => \A d \in Checks(role[k.at]) : <<d, TRUE>> \in k.seen
                      /\ a = "down" => \E d \in Checks(role[k.at]) : <<d, FALSE>> \in k.seen
    BY <1>6 DEF TrueAnswer
  <2>1. CASE k.no = {}
    BY <1>1, <1>4, <2>1 DEF Informed
  <2>2. CASE k.no # {}
    <3>1. PICK d \in k.no : <<d, FALSE>> \in k.seen /\ d \in Checks(role[k.at])
      BY <1>1, <2>2 DEF Informed
    <3> QED
      BY <2>2, <3>1
  <2> QED
    BY <2>1, <2>2
<1>8. a \in Answers /\ a # "ok" /\ a # "rejected"
  BY DEF Answers
<1>9. hits' \in [Procs -> SUBSET Calls] /\ recent' \subseteq Calls
  BY <1>5 DEF CallsSound
<1> HIDE DEF a
<1> QED
  BY <1>5, <1>7, <1>8, <1>9, AnswerRight

LEMMA ArrivalSound ==
    ASSUME CallsSound, NEW c \in Calls, NEW p \in Procs, NEW op, Arrives(c, p, op)
    PROVE  Sound(call[c]) /\ call[c].stage = "unsent" /\ call[c].remote = "none"
BY DEF CallsSound, Sound, Arrives

LEMMA RejectRight ==
    ASSUME Life, CallsSound, NEW c \in Calls, call[c].remote = "none", Reject(c),
           UNCHANGED lifeVars, hits' \in [Procs -> SUBSET Calls], recent' \subseteq Calls
    PROVE  Right(c)
<1>1. "rejected" \in Answers
  BY DEF Answers
<1>2. Answer(c, "rejected")
  BY DEF Reject
<1> QED
  BY <1>1, <1>2, AnswerRight

LEMMA ForwardRight ==
    ASSUME Life, CallsSound, NEW c \in Calls, NEW p \in Procs,
           call[c].stage = "unsent", Forward(c, p),
           UNCHANGED lifeVars, hits' \in [Procs -> SUBSET Calls], recent' \subseteq Calls
    PROVE  Right(c)
<1> DEFINE k == [call[c] EXCEPT !.stage = "waiting", !.at = p, !.remote = "sent"]
<1>1. Sound(call[c]) /\ call[c].answer = "none"
  BY DEF CallsSound, Sound
<1>2. Becomes(c, k)
  BY DEF Forward
<1>3. /\ k \in Calling /\ k.stage = "waiting" /\ k.at = p
      /\ k.answer = "none" /\ k.remote = "sent"
  BY <1>1 DEF Sound, Calling, Stages, Remote
<1> HIDE DEF k
<1>4. Sound(k) /\ Informed(k, role, linked, up)
  BY <1>3 DEF Sound, Informed
<1> QED
  BY <1>2, <1>3, <1>4, QuietRight

LEMMA TemplatesRight ==
    ASSUME Life, CallsSound, NEW c \in Calls, NEW p \in Procs, Templates(c, p) PROVE Right(c)
<1>1. call[c].stage = "unsent" /\ call[c].remote = "none" /\ UNCHANGED lifeVars
  BY ArrivalSound DEF Templates
<1>2. CASE NoToken(c)
  BY <1>1, <1>2, RejectRight DEF NoToken, CallsSound
<1>3. CASE Throttled(c, p)
  BY <1>1, <1>3, RejectRight DEF Throttled, CallsSound
<1>4. CASE Invalid(c, p)
  BY <1>1, <1>4, RejectRight DEF Invalid, LetThrough, CallsSound
<1>5. CASE Proxy(c, p)
  BY <1>1, <1>5, ForwardRight DEF Proxy, LetThrough, CallsSound
<1> QED
  BY <1>2, <1>3, <1>4, <1>5 DEF Templates

LEMMA RegisterRight ==
    ASSUME Life, CallsSound, NEW c \in Calls, NEW p \in Procs, Register(c, p) PROVE Right(c)
<1>1. call[c].stage = "unsent" /\ call[c].remote = "none"
  BY ArrivalSound DEF Register
<1>2. UNCHANGED lifeVars /\ hits' \in [Procs -> SUBSET Calls] /\ recent' \subseteq Calls
  BY DEF Register, CallsSound
<1> QED
  BY <1>1, <1>2, RejectRight, ForwardRight DEF Register

\* The other service goes on with a request: no answer yet.
LEMMA RemoteRight ==
    ASSUME Life, CallsSound, NEW c \in Calls, NEW r \in Remote, NEW q \in Procs \cup {NoProc},
           call[c].remote = "sent",
           Becomes(c, [call[c] EXCEPT !.remote = r, !.by = q]),
           UNCHANGED <<lifeVars, hits, recent>>
    PROVE  Right(c)
<1> DEFINE old == call[c]
           k == [old EXCEPT !.remote = r, !.by = q]
<1>1. Sound(old) /\ Known(c) /\ old.remote = "sent"
  BY DEF CallsSound, Known
<1>2. Becomes(c, k)
  OBVIOUS
<1> HIDE DEF old
<1>3. /\ k \in Calling /\ k.stage = old.stage /\ k.at = old.at /\ k.seen = old.seen
      /\ k.answer = old.answer /\ k.remote = r /\ k.yes = old.yes /\ k.no = old.no
  BY <1>1 DEF Sound, Calling
<1> HIDE DEF k
<1>4. Sound(k)
  BY <1>1, <1>3 DEF Sound, Open
<1>5. Informed(k, role, linked, up)
  <2>1. Informed(old, role, linked, up)
    BY <1>1 DEF Known, old
  <2> QED
    BY <1>3, <2>1 DEF Informed
<1>6. CallsSound' /\ call'[c] = k /\ \A d \in Calls : d # c => call'[d] = call[d]
  <2>1. hits' \in [Procs -> SUBSET Calls] /\ recent' \subseteq Calls
    BY DEF CallsSound
  <2> QED
    BY <1>2, <1>4, <1>5, <2>1, Turn
<1>7. TrueAnswer(c) /\ (call[c].stage # "unsent" => call'[c].stage # "unsent")
  <2>1. old.stage = "checking" => old.answer = "none"
    BY <1>1 DEF Sound, Open
  <2> QED
    BY <1>3, <1>6, <2>1 DEF TrueAnswer, old
<1> QED
  BY <1>6, <1>7 DEF Right

LEMMA BackendRight ==
    ASSUME Life, CallsSound, NEW c \in Calls, (\E p \in Procs : Execute(c, p)) \/ Lose(c)
    PROVE  Right(c)
<1>1. ASSUME NEW p \in Procs, Execute(c, p) PROVE Right(c)
  <2>1. PICK r \in {"done", "refused"} :
            Becomes(c, [call[c] EXCEPT !.remote = r, !.by = p])
    BY <1>1, Zenon DEF Execute
  <2>2. r \in Remote /\ p \in Procs \cup {NoProc}
    BY DEF Remote
  <2>3. call[c].remote = "sent" /\ UNCHANGED <<lifeVars, hits, recent>>
    BY <1>1, Zenon DEF Execute
  <2> QED
    BY <2>1, <2>2, <2>3, RemoteRight, Zenon
<1>2. CASE Lose(c)
  <2> DEFINE q == call[c].by
  <2>1. Sound(call[c]) /\ q \in Procs \cup {NoProc}
    BY DEF CallsSound, Sound, Calling
  <2>2. [call[c] EXCEPT !.remote = "lost"] = [call[c] EXCEPT !.remote = "lost", !.by = q]
    BY <2>1 DEF Sound, Calling
  <2>3. "lost" \in Remote
    BY DEF Remote
  <2>4. Becomes(c, [call[c] EXCEPT !.remote = "lost", !.by = q])
    BY <1>2, <2>2 DEF Lose
  <2> HIDE DEF q
  <2> QED
    <3>1. call[c].remote = "sent" /\ UNCHANGED <<lifeVars, hits, recent>>
      BY <1>2, Zenon DEF Lose
    <3> QED
      BY <2>1, <2>3, <2>4, <3>1, RemoteRight, Zenon
<1> QED
  BY <1>1, <1>2

LEMMA AnswerComesRight ==
    ASSUME Life, CallsSound, NEW c \in Calls, Reply(c) \/ Broken(c) \/ TimesOut(c)
    PROVE  Right(c)
<1>1. "ok" \in Answers /\ "failed" \in Answers
  BY DEF Answers
<1>2. UNCHANGED lifeVars /\ hits' \in [Procs -> SUBSET Calls] /\ recent' \subseteq Calls
  BY DEF Reply, Broken, TimesOut, CallsSound
<1>3. CASE Answer(c, "failed")
  BY <1>1, <1>2, <1>3, AnswerRight
<1>4. CASE Answer(c, "ok") /\ call[c].remote = "done"
  BY <1>1, <1>2, <1>4, AnswerRight
<1> QED
  BY <1>3, <1>4 DEF Reply, Broken, TimesOut

LEMMA HitExpiresRight ==
    ASSUME Life, CallsSound, NEW c \in Calls, HitExpires(c) PROVE Right(c)
<1>1. call' = call /\ role' = role /\ linked' = linked /\ up' = up
  BY DEF HitExpires, lifeVars
<1>2. hits' \in [Procs -> SUBSET Calls] /\ recent' \subseteq Calls
  BY DEF HitExpires, CallsSound
<1>3. CallsSound'
  BY <1>1, <1>2 DEF CallsSound
<1>4. call[c].stage = "checking" => call[c].answer = "none"
  BY DEF CallsSound, Sound, Open
<1> QED
  BY <1>1, <1>3, <1>4 DEF Right, TrueAnswer

LEMMA CallRight ==
    ASSUME Life, CallsSound, NEW c \in Calls, CallStep(c) PROVE Right(c)
BY CheckHealthRight, TemplatesRight, RegisterRight, BackendRight, ProbesRight,
   HealthAnswerRight, HitExpiresRight, AnswerComesRight DEF CallStep

LEMMA CallStepLife == ASSUME NEW c \in Calls, CallStep(c) PROVE UNCHANGED lifeVars
BY DEF CallStep, CheckHealth, Templates, Register, Execute, Probes, GatewayProbes, UserProbes,
       EmailProbes, TemplateProbes, Settle, HealthAnswer, HitExpires, Lose, Reply, Broken, TimesOut

-------------------------------------------------------------------------------
(* What holds of every reachable state *)

Inductive == Life /\ CallsSound

LEMMA InductiveInitially == Init => Inductive
<1> SUFFICES ASSUME Init PROVE Inductive
  OBVIOUS
<1>1. Life
  BY LifeInitially DEF Init
<1>2. PICK w \in Workloads : call = [c \in Calls |-> Unsent(w.asks[c])]
  BY DEF Init
<1>3. w.asks \in [Calls -> Ops]
  BY RequestAssumption
<1>4. ASSUME NEW c \in Calls PROVE Sound(call[c]) /\ Informed(call[c], role, linked, up)
  <2>1. call[c] = Unsent(w.asks[c]) /\ w.asks[c] \in Ops
    BY <1>2, <1>3
  <2>2. call[c].stage = "unsent"
    BY <2>1 DEF Unsent
  <2>3. Sound(call[c])
    BY <2>1 DEF Sound, Unsent, Calling, Open, Stages, Answers, Remote
  <2> QED
    BY <2>2, <2>3 DEF Informed
<1>5. call = [c \in Calls |-> call[c]]
  BY <1>2
<1>6. hits \in [Procs -> SUBSET Calls] /\ recent \subseteq Calls
  BY DEF Init
<1> QED
  BY <1>1, <1>4, <1>5, <1>6 DEF Inductive, CallsSound

LEMMA InductiveKept == ASSUME Inductive, [Next]_vars PROVE Inductive'
<1> USE DEF Inductive
<1>1. CASE LifeStep
  BY <1>1, LifeKept, LifeStepSound DEF LifeStep
<1>2. ASSUME NEW c \in Calls, CallStep(c) PROVE Inductive'
  BY <1>2, CallRight, CallStepLife, LifeStays DEF Right
<1>3. CASE UNCHANGED vars
  <2>1. Life'
    BY <1>3, LifeStays DEF vars
  <2>2. role' = role /\ linked' = linked /\ up' = up /\ call' = call /\ hits' = hits /\ recent' = recent
    BY <1>3 DEF vars, lifeVars, callVars
  <2>3. CallsSound'
    BY <2>2 DEF CallsSound
  <2> QED
    BY <2>1, <2>3
<1> QED
  BY <1>1, <1>2, <1>3 DEF Next

LEMMA AlwaysInductive == Spec => []Inductive
BY InductiveInitially, InductiveKept, PTL DEF Spec

\* Every variable keeps its type; in particular pm2's count stays within
\* max_restarts, and an open call is at a process.
THEOREM TypeCorrect == Spec => []TypeOK
<1>1. Inductive => TypeOK
  BY DEF Inductive, Life, CallsSound, Sound, TypeOK
<1> QED
  BY <1>1, AlwaysInductive, PTL

\* However many processes and faults there are: what pm2 counted until it gave a
\* process up are starts refused by PostgreSQL, exceptions, and at most one end
\* per outage of RabbitMQ, and none of these for a service without a connection.
THEOREM GivenUpHasCauseHolds == Spec => []GivenUpHasCause
BY LifeImplies, AlwaysInductive, PTL DEF Inductive

\* The gateway says "ok" only of what the other service has done, and refuses
\* only what it has not forwarded, for any number of calls and processes.
THEOREM AnswerTellsEffectHolds == Spec => []AnswerTellsEffect
<1>1. Inductive => AnswerTellsEffect
  BY DEF Inductive, CallsSound, Sound, AnswerTellsEffect
<1> QED
  BY <1>1, AlwaysInductive, PTL

LEMMA AnswersTrue ==
    ASSUME Inductive, [Next]_vars, NEW c \in Calls PROVE TrueAnswer(c)
<1>1. Sound(call[c]) /\ (call[c].stage = "checking" => call[c].answer = "none")
  BY DEF Inductive, CallsSound, Sound, Open
<1>2. CASE LifeStep
  <2>1. call'[c] = Affected(call[c])
    BY <1>2 DEF LifeStep
  <2>2. call[c].stage = "checking" => call'[c].answer = "none"
    BY <1>1, <2>1 DEF Affected, Closed, Open, Sound, Calling
  <2> QED
    BY <2>2 DEF TrueAnswer
<1>3. ASSUME NEW d \in Calls, CallStep(d) PROVE TrueAnswer(c)
  <2>1. Right(d)
    BY <1>3, CallRight DEF Inductive
  <2>2. CASE d = c
    BY <2>1, <2>2 DEF Right
  <2>3. CASE d # c
    BY <1>1, <2>1, <2>3 DEF Right, TrueAnswer
  <2> QED
    BY <2>2, <2>3
<1>4. CASE UNCHANGED vars
  BY <1>1, <1>4 DEF vars, callVars, TrueAnswer
<1> QED
  BY <1>2, <1>3, <1>4 DEF Next

\* For any number of processes: what GET /health of the gateway, the user and
\* the email service answers was true of each dependency during the check.
THEOREM AnswersWereTrueHolds == Spec => AnswersWereTrue
<1>1. Inductive /\ [Next]_vars =>
          [\A c \in Calls :
               LET k == call[c] IN
               k.stage = "checking" /\ role[k.at] # "template" =>
                   /\ call'[c].answer = "up" =>
                          \A d \in Checks(role[k.at]) : <<d, TRUE>> \in k.seen
                   /\ call'[c].answer = "down" =>
                          \E d \in Checks(role[k.at]) : <<d, FALSE>> \in k.seen]_vars
  BY AnswersTrue DEF TrueAnswer
<1> QED
  BY <1>1, AlwaysInductive, PTL DEF Spec, AnswersWereTrue

-------------------------------------------------------------------------------
(* Counting what the throttlers let through.  A request let through is     *)
(* still counted by its process (Fresh), or that process has ended         *)
(* (Orphans), and then its exception pays for the limit it was allowed.    *)

Fresh(p) == hits[p] \cap recent

Orphans == {c \in recent : \A p \in Gateways : c \notin hits[p]}

Ending == {p \in Gateways : phase[p] = "exiting"}

Charged ==
    /\ \A c \in recent : call[c].stage # "unsent"
    /\ \A p \in Procs : \A c \in hits[p] : call[c].stage # "unsent"
    /\ \A p \in Procs : hits[p] # {} => p \in Gateways /\ phase[p] \in Running
    /\ \A p \in Procs : Cardinality(Fresh(p)) <= Limit
    /\ Cardinality(Orphans) + Limit * Cardinality(Ending) <= Limit * exceptions

LEMMA Distributes ==
    ASSUME NEW a \in Int, NEW m \in Int, NEW n \in Int
    PROVE  a * (m + n) = a * m + a * n
OBVIOUS

\* The union of the finitely many sets F[p], none larger than n.
LEMMA UnionBound ==
    ASSUME NEW S, IsFiniteSet(S), NEW n \in Nat, NEW F,
           \A p \in S : IsFiniteSet(F[p]) /\ Cardinality(F[p]) <= n,
           NEW U, \A x \in U : \E p \in S : x \in F[p]
    PROVE  IsFiniteSet(U) /\ Cardinality(U) <= Cardinality(S) * n
<1> DEFINE b == [p \in S |-> CHOOSE f : f \in Bijection(1..Cardinality(F[p]), F[p])]
           at == [x \in U |-> CHOOSE p \in S : x \in F[p]]
           nth == [x \in U |-> CHOOSE i \in 1..n : b[at[x]][i] = x]
           h == [x \in U |-> <<at[x], nth[x]>>]
<1>1. ASSUME NEW p \in S, NEW x \in F[p] PROVE \E i \in 1..n : b[p][i] = x
  <2>1. Cardinality(F[p]) \in Nat /\ Cardinality(F[p]) <= n
        /\ ExistsBijection(1..Cardinality(F[p]), F[p])
    BY FS_CardinalityType
  <2>2. b[p] \in Bijection(1..Cardinality(F[p]), F[p])
    BY <2>1 DEF ExistsBijection
  <2>3. PICK i \in 1..Cardinality(F[p]) : b[p][i] = x
    BY <2>2 DEF Bijection, Surjection
  <2> HIDE DEF b
  <2>4. i \in 1..n
    BY <2>1
  <2> QED
    BY <2>3, <2>4
<1>2. ASSUME NEW x \in U PROVE at[x] \in S /\ nth[x] \in 1..n /\ b[at[x]][nth[x]] = x
  <2>1. at[x] \in S /\ x \in F[at[x]]
    OBVIOUS
  <2> HIDE DEF b, at
  <2>2. \E i \in 1..n : b[at[x]][i] = x
    BY <1>1, <2>1
  <2> QED
    BY <2>1, <2>2
<1> HIDE DEF b, at, nth
<1>3. h \in Injection(U, S \X (1..n))
  <2>1. h \in [U -> S \X (1..n)]
    BY <1>2
  <2>2. ASSUME NEW x \in U, NEW y \in U, h[x] = h[y] PROVE x = y
    <3>1. at[x] = at[y] /\ nth[x] = nth[y]
      BY <2>2
    <3> QED
      BY <1>2, <3>1
  <2> HIDE DEF h
  <2> QED
    BY <2>1, <2>2 DEF Injection, IsInjective
<1>4. IsFiniteSet(1..n) /\ Cardinality(1..n) = n
  BY FS_Interval
<1>5. IsFiniteSet(S \X (1..n)) /\ Cardinality(S \X (1..n)) = Cardinality(S) * n
  BY <1>4, FS_Product
<1> HIDE DEF h
<1> QED
  BY <1>3, <1>5, FS_Injection

\* The sets of requests and processes counted here.
LEMMA Finite ==
    ASSUME CallsSound
    PROVE  /\ IsFiniteSet(recent) /\ IsFiniteSet(Orphans) /\ IsFiniteSet(Ending) /\ IsFiniteSet(Gateways)
           /\ \A p \in Procs : IsFiniteSet(hits[p]) /\ IsFiniteSet(Fresh(p))
           /\ Cardinality(Orphans) \in Nat /\ Cardinality(Ending) \in Nat /\ Cardinality(Gateways) \in Nat
           /\ \A p \in Procs : Cardinality(Fresh(p)) \in Nat
<1>1. IsFiniteSet(recent) /\ IsFiniteSet(Gateways)
  BY FS_Subset, RequestAssumption DEF CallsSound, Gateways
<1>2. Orphans \in SUBSET recent /\ Ending \in SUBSET Gateways
  BY DEF Orphans, Ending
<1>3. IsFiniteSet(Orphans) /\ IsFiniteSet(Ending)
  BY <1>1, <1>2, FS_Subset
<1>4. ASSUME NEW p \in Procs PROVE IsFiniteSet(hits[p]) /\ IsFiniteSet(Fresh(p))
  <2>1. hits[p] \in SUBSET Calls /\ Fresh(p) \in SUBSET recent
    BY DEF CallsSound, Fresh
  <2> QED
    BY <1>1, <2>1, FS_Subset, RequestAssumption
<1> QED
  BY <1>1, <1>3, <1>4, FS_CardinalityType

LEMMA ChargedWithinLimit ==
    ASSUME Life, CallsSound, Charged PROVE AdmittedWithinLimit
<1> DEFINE F == [p \in Gateways |-> Fresh(p)]
           U == recent \ Orphans
<1>1. \A p \in Gateways : IsFiniteSet(F[p]) /\ Cardinality(F[p]) <= Limit
  <2>1. \A p \in Gateways : IsFiniteSet(Fresh(p)) /\ Cardinality(Fresh(p)) <= Limit
    BY Finite, Zenon DEF Charged, Gateways
  <2> QED
    BY <2>1
<1>2. \A c \in U : \E p \in Gateways : c \in F[p]
  BY DEF Orphans, Fresh
<1>3. Limit \in Nat /\ IsFiniteSet(Gateways)
  BY Finite, RequestAssumption
<1> HIDE DEF F, U
<1>4. IsFiniteSet(U) /\ Cardinality(U) <= Cardinality(Gateways) * Limit
  BY <1>1, <1>2, <1>3, UnionBound
<1>5. recent = Orphans \cup U /\ Orphans \cap U = {}
  BY DEF U, Orphans
<1>6. Cardinality(recent) = Cardinality(Orphans) + Cardinality(U)
  <2>1. Cardinality(Orphans \cap U) = 0
    BY <1>5, FS_EmptySet
  <2>2. IsFiniteSet(Orphans) /\ Cardinality(Orphans) \in Nat /\ Cardinality(U) \in Nat
    BY <1>4, Finite, FS_CardinalityType
  <2>3. Cardinality(Orphans \cup U)
            = Cardinality(Orphans) + Cardinality(U) - Cardinality(Orphans \cap U)
    BY <1>4, <2>2, FS_Union
  <2>4. Cardinality(Orphans \cup U) = Cardinality(Orphans) + Cardinality(U)
    BY <2>1, <2>2, <2>3
  <2> QED
    BY <1>5, <2>4
<1>7. /\ Cardinality(U) \in Nat /\ Cardinality(Orphans) \in Nat /\ Cardinality(Ending) \in Nat
      /\ Cardinality(Gateways) \in Nat /\ exceptions \in Nat
  BY <1>4, Finite, FS_CardinalityType, LifeAssumption DEF Life, LifeTypeOK
<1>8. Cardinality(Orphans) <= Limit * exceptions
  <2>1. Limit * Cardinality(Ending) \in Nat
    BY <1>3, <1>7
  <2>2. Limit * exceptions \in Nat
    BY <1>3, <1>7
  <2> QED
    BY <1>7, <2>1, <2>2 DEF Charged
<1>9. Limit * (Cardinality(Gateways) + exceptions)
          = Limit * Cardinality(Gateways) + Limit * exceptions
  BY <1>3, <1>7, Distributes
<1>10. Cardinality(Gateways) * Limit = Limit * Cardinality(Gateways)
  BY <1>3, <1>7
<1>11. Limit * Cardinality(Gateways) \in Nat /\ Limit * exceptions \in Nat
  BY <1>3, <1>7
<1> QED
  BY <1>4, <1>6, <1>7, <1>8, <1>9, <1>10, <1>11 DEF AdmittedWithinLimit

\* A step that creates no orphan and lets no exit become due.
LEMMA ChargeStays ==
    ASSUME Life, Life', CallsSound, CallsSound', Charged, role' = role,
           \A c \in recent' : call'[c].stage # "unsent",
           \A p \in Procs : \A c \in hits'[p] : call'[c].stage # "unsent",
           \A p \in Procs : hits'[p] # {} => p \in Gateways /\ phase'[p] \in Running,
           \A p \in Procs : Cardinality(Fresh(p)') <= Limit,
           Orphans' \subseteq Orphans, Ending' \subseteq Ending, exceptions' = exceptions
    PROVE  Charged'
<1>1. Cardinality(Orphans') <= Cardinality(Orphans) /\ Cardinality(Ending') <= Cardinality(Ending)
  BY FS_Subset, Finite
<1>2. /\ Cardinality(Orphans) \in Nat /\ Cardinality(Orphans') \in Nat
      /\ Cardinality(Ending) \in Nat /\ Cardinality(Ending') \in Nat
  <2>1. IsFiniteSet(Orphans') /\ IsFiniteSet(Ending')
    BY FS_Subset, Finite
  <2> QED
    BY <2>1, Finite, FS_CardinalityType
<1>3. Limit \in Nat /\ exceptions \in Nat
  BY RequestAssumption, LifeAssumption DEF Life, LifeTypeOK
<1>4. Limit * Cardinality(Ending') <= Limit * Cardinality(Ending)
  BY <1>1, <1>2, <1>3
<1>5. Limit * Cardinality(Ending') \in Nat /\ Limit * Cardinality(Ending) \in Nat
      /\ Limit * exceptions \in Nat
  BY <1>2, <1>3
<1>6. Cardinality(Orphans)' + Limit * Cardinality(Ending)' <= (Limit * exceptions)'
  BY <1>1, <1>2, <1>4, <1>5 DEF Charged
<1>7. Gateways' = Gateways
  BY DEF Gateways
<1> QED
  BY <1>6, <1>7 DEF Charged

\* How processes move, as far as the throttlers are concerned: no gateway has
\* an exit due without an exception.
LEMMA PhaseMoves ==
    ASSUME Life, LifeNext
    PROVE  \/ \E p \in Procs : UncaughtException(p)
           \/ \E p \in Procs : Exit(p)
           \/ /\ exceptions' = exceptions
              /\ \A q \in Procs : phase[q] \in Running => phase'[q] \in Running
              /\ \A q \in Gateways : phase'[q] = "exiting" => phase[q] = "exiting"
<1> DEFINE Calm == /\ exceptions' = exceptions
                   /\ \A q \in Procs : phase[q] \in Running => phase'[q] \in Running
                   /\ \A q \in Gateways : phase'[q] = "exiting" => phase[q] = "exiting"
<1>t. LifeTypeOK /\ \A q \in Procs : Tally(q)
  BY DEF Life
<1>1. ASSUME NEW p \in Procs, Starts(p) PROVE Calm
  BY <1>1, <1>t DEF Starts, StartGateway, StartUser, StartEmail, StartTemplate, Start, Running,
                    Gateways, LifeTypeOK, past
<1>2. ASSUME NEW p \in Procs, Listen(p) PROVE Calm
  BY <1>2, <1>t DEF Listen, Running, Gateways, LifeTypeOK, past
<1>3. ASSUME NEW p \in Procs, phase[p] = "booting", End(p), exceptions' = exceptions PROVE Calm
  <2>1. \A q \in Procs : phase'[q] = phase[q] \/ (q = p /\ phase'[q] \in {"errored", "exited"})
    BY <1>3, <1>t DEF End, LifeTypeOK
  <2> QED
    BY <1>3, <2>1 DEF Running, Gateways
<1>4. ASSUME NEW p \in Procs, DatabaseRefuses(p) \/ SetUpRejects(p) PROVE Calm
  BY <1>3, <1>4 DEF DatabaseRefuses, SetUpRejects, Hook, past
<1>5. ASSUME NEW p \in Procs, TimerThrows(p) PROVE Calm
  <2>1. exceptions' = exceptions
    BY <1>5 DEF TimerThrows, past
  <2>2. CASE phase[p] = "booting" /\ End(p)
    BY <1>3, <2>1, <2>2
  <2>3. CASE phase[p] = "serving" /\ phase' = [phase EXCEPT ![p] = "exiting"]
    <3>1. p \notin Gateways
      BY <1>5, <1>t DEF TimerThrows, Tally, Gateways
    <3>2. \A q \in Procs : phase'[q] = IF q = p THEN "exiting" ELSE phase[q]
      BY <1>t, <2>3 DEF LifeTypeOK
    <3> QED
      BY <2>1, <2>3, <3>1, <3>2 DEF Running, Gateways
  <2> QED
    BY <1>5, <2>2, <2>3 DEF TimerThrows
<1>6. ASSUME NEW p \in Procs, Connects(p) \/ Disconnected(p) \/ Reconnected(p) PROVE Calm
  BY <1>6 DEF Connects, DatabaseConnects, QueueConnects, DeclaresTopology, RegistersConsumer, SetUp,
              Disconnected, Reconnected, Running, past
<1>7. CASE ContainerRestarts
  BY <1>7 DEF ContainerRestarts, Running, Gateways
<1>8. ASSUME NEW d \in Deps, Outage(d) \/ Recover(d) PROVE Calm
  BY <1>8 DEF Outage, Recover, past
<1> QED
  BY <1>1, <1>2, <1>4, <1>5, <1>6, <1>7, <1>8 DEF LifeNext, ProcStep, StartFails

\* A call that was sent stays sent.
LEMMA SentStays ==
    ASSUME CallsSound, LifeStep, NEW c \in Calls, call[c].stage # "unsent"
    PROVE  call'[c].stage # "unsent"
<1>1. call'[c] = Affected(call[c]) /\ call[c] \in Calling
  BY DEF LifeStep, CallsSound, Sound
<1> QED
  BY <1>1 DEF Affected, Closed, Calling

LEMMA CalmCharged ==
    ASSUME Life, Life', CallsSound, CallsSound', Charged, LifeStep, exceptions' = exceptions,
           \A q \in Procs : phase[q] \in Running => phase'[q] \in Running,
           \A q \in Gateways : phase'[q] = "exiting" => phase[q] = "exiting"
    PROVE  Charged'
<1>1. role' = role /\ recent' = recent /\ Gateways' = Gateways
  BY RoleKept DEF LifeStep, Gateways
<1>2. ASSUME NEW q \in Procs PROVE hits'[q] = hits[q]
  BY DEF LifeStep, CallsSound, Charged
<1>3. hits' = hits
  BY <1>2 DEF LifeStep, CallsSound
<1>4. Orphans' = Orphans /\ \A p \in Procs : Fresh(p)' = Fresh(p)
  BY <1>1, <1>3 DEF Orphans, Fresh
<1>5. Ending' \subseteq Ending
  BY <1>1 DEF Ending, Gateways
<1>6. \A c \in recent' : call'[c].stage # "unsent"
  BY <1>1, SentStays DEF Charged, CallsSound
<1>7. \A p \in Procs : \A c \in hits'[p] : call'[c].stage # "unsent"
  BY <1>3, SentStays DEF Charged, CallsSound
<1>8. \A p \in Procs : hits'[p] # {} => p \in Gateways /\ phase'[p] \in Running
  BY <1>3 DEF Charged
<1>9. \A p \in Procs : Cardinality(Fresh(p)') <= Limit
  BY <1>4 DEF Charged
<1> QED
  BY <1>1, <1>4, <1>5, <1>6, <1>7, <1>8, <1>9, ChargeStays

\* The exception is counted when the exit becomes due.
LEMMA ExceptionCharged ==
    ASSUME Life, Life', CallsSound, CallsSound', Charged, LifeStep,
           NEW p \in Procs, UncaughtException(p)
    PROVE  Charged'
<1>1. role' = role /\ recent' = recent /\ Gateways' = Gateways
  BY RoleKept DEF LifeStep, Gateways
<1>2. \A q \in Procs : phase'[q] = IF q = p THEN "exiting" ELSE phase[q]
  BY DEF UncaughtException, Life, LifeTypeOK
<1>3. ASSUME NEW q \in Procs PROVE hits'[q] = hits[q]
  BY <1>2 DEF LifeStep, CallsSound, Charged, Running
<1>4. hits' = hits
  BY <1>3 DEF LifeStep, CallsSound
<1>5. Orphans' = Orphans /\ \A q \in Procs : Fresh(q)' = Fresh(q)
  BY <1>1, <1>4 DEF Orphans, Fresh
<1>6. Ending' \subseteq Ending \cup {p}
  BY <1>1, <1>2 DEF Ending, Gateways
<1>7. /\ Cardinality(Ending) \in Nat /\ Cardinality(Ending') \in Nat
      /\ Cardinality(Ending') <= Cardinality(Ending) + 1
  <2>1. IsFiniteSet(Ending \cup {p}) /\ Cardinality(Ending \cup {p}) <= Cardinality(Ending) + 1
        /\ Cardinality(Ending) \in Nat
    <3>1. IsFiniteSet(Ending) /\ Cardinality(Ending) \in Nat
      BY Finite
    <3> HIDE DEF Ending
    <3>2. /\ IsFiniteSet(Ending \cup {p})
          /\ Cardinality(Ending \cup {p})
                = IF p \in Ending THEN Cardinality(Ending) ELSE Cardinality(Ending) + 1
      BY <3>1, FS_AddElement
    <3> QED
      BY <3>1, <3>2
  <2>2. IsFiniteSet(Ending') /\ Cardinality(Ending') <= Cardinality(Ending \cup {p})
    BY <1>6, <2>1, FS_Subset
  <2>3. Cardinality(Ending') \in Nat /\ Cardinality(Ending \cup {p}) \in Nat
    BY <2>1, <2>2, FS_CardinalityType
  <2> QED
    BY <2>1, <2>2, <2>3
<1>8. Limit \in Nat /\ exceptions \in Nat /\ exceptions' = exceptions + 1
      /\ Cardinality(Orphans) \in Nat
  BY Finite, RequestAssumption, LifeAssumption DEF UncaughtException, Life, LifeTypeOK
<1>9. Limit * (exceptions + 1) = Limit * exceptions + Limit
      /\ Limit * (Cardinality(Ending) + 1) = Limit * Cardinality(Ending) + Limit
  BY <1>7, <1>8, Distributes
<1>10. Limit * Cardinality(Ending') <= Limit * (Cardinality(Ending) + 1)
  BY <1>7, <1>8
<1>11. Cardinality(Orphans') + Limit * Cardinality(Ending') <= Limit * exceptions'
  <2>1. Limit * Cardinality(Ending') \in Nat /\ Limit * Cardinality(Ending) \in Nat
        /\ Limit * exceptions \in Nat
    BY <1>7, <1>8
  <2>2. Cardinality(Orphans') = Cardinality(Orphans)
        /\ Cardinality(Orphans) + Limit * Cardinality(Ending) <= Limit * exceptions
    BY <1>5 DEF Charged
  <2> QED
    BY <1>8, <1>9, <1>10, <2>1, <2>2
<1>12. \A c \in recent' : call'[c].stage # "unsent"
  BY <1>1, SentStays DEF Charged, CallsSound
<1>13. \A q \in Procs : \A c \in hits'[q] : call'[c].stage # "unsent"
  BY <1>4, SentStays DEF Charged, CallsSound
<1>14. \A q \in Procs : hits'[q] # {} => q \in Gateways /\ phase'[q] \in Running
  BY <1>2, <1>4 DEF Charged, Running
<1>15. \A q \in Procs : Cardinality(Fresh(q)') <= Limit
  BY <1>5 DEF Charged
<1> QED
  BY <1>1, <1>11, <1>12, <1>13, <1>14, <1>15 DEF Charged

\* The exit makes orphans of what the process let through.
LEMMA ExitCharged ==
    ASSUME Life, Life', CallsSound, CallsSound', Charged, LifeStep,
           NEW p \in Procs, Exit(p)
    PROVE  Charged'
<1>1. role' = role /\ recent' = recent /\ Gateways' = Gateways /\ exceptions' = exceptions
  BY RoleKept DEF LifeStep, Gateways, Exit, past
<1>2. phase[p] = "exiting" /\ phase'[p] \in {"errored", "exited"}
      /\ \A q \in Procs : q # p => phase'[q] = phase[q]
  BY DEF Exit, End, Life, LifeTypeOK
<1>3. hits'[p] = {} /\ \A q \in Procs : q # p => hits'[q] = hits[q]
  BY <1>2 DEF LifeStep, CallsSound, Charged, Running
<1>4. \A c \in recent' : call'[c].stage # "unsent"
  BY <1>1, SentStays DEF Charged, CallsSound
<1>5. \A q \in Procs : \A c \in hits'[q] : call'[c].stage # "unsent"
  BY <1>3, SentStays DEF Charged, CallsSound
<1>6. \A q \in Procs : hits'[q] # {} => q \in Gateways /\ phase'[q] \in Running
  BY <1>2, <1>3 DEF Charged
<1>7. \A q \in Procs : Cardinality(Fresh(q)') <= Limit
  <2> SUFFICES ASSUME NEW q \in Procs PROVE Cardinality(Fresh(q)') <= Limit
    OBVIOUS
  <2>1. CASE q = p
    <3>1. Fresh(q)' = {}
      BY <1>3, <2>1 DEF Fresh
    <3> QED
      BY <3>1, FS_EmptySet, RequestAssumption
  <2>2. CASE q # p
    <3>1. Fresh(q)' = Fresh(q)
      BY <1>1, <1>3, <2>2 DEF Fresh
    <3> QED
      BY <3>1 DEF Charged
  <2> QED
    BY <2>1, <2>2
<1>8. CASE p \notin Gateways
  <2>1. hits[p] = {}
    BY <1>8 DEF Charged
  <2>2. Orphans' \subseteq Orphans
    BY <1>1, <1>3, <2>1 DEF Orphans, Gateways
  <2>3. Ending' \subseteq Ending
    BY <1>1, <1>2 DEF Ending, Gateways
  <2> QED
    BY <1>1, <1>4, <1>5, <1>6, <1>7, <2>2, <2>3, ChargeStays
<1>9. CASE p \in Gateways
  <2>1. Orphans' \subseteq Orphans \cup Fresh(p)
    BY <1>1, <1>3 DEF Orphans, Fresh, Gateways
  <2>2. p \in Ending /\ Ending' \subseteq Ending \ {p}
    BY <1>1, <1>2, <1>9 DEF Ending, Gateways
  <2>3. /\ Cardinality(Orphans) \in Nat /\ Cardinality(Orphans') \in Nat
        /\ Cardinality(Orphans') <= Cardinality(Orphans) + Limit
    <3>1. /\ IsFiniteSet(Orphans) /\ IsFiniteSet(Fresh(p)) /\ Cardinality(Orphans) \in Nat
          /\ Cardinality(Fresh(p)) \in Nat /\ Cardinality(Fresh(p)) <= Limit
      BY Finite DEF Charged
    <3>2. IsFiniteSet(Orphans \cap Fresh(p)) /\ Cardinality(Orphans \cap Fresh(p)) \in Nat
      BY <3>1, FS_Intersection, FS_CardinalityType
    <3>3. /\ IsFiniteSet(Orphans \cup Fresh(p))
          /\ Cardinality(Orphans \cup Fresh(p))
                 = Cardinality(Orphans) + Cardinality(Fresh(p)) - Cardinality(Orphans \cap Fresh(p))
      BY <3>1, FS_Union
    <3>4. IsFiniteSet(Orphans') /\ Cardinality(Orphans') <= Cardinality(Orphans \cup Fresh(p))
      BY <2>1, <3>3, FS_Subset
    <3>5. Cardinality(Orphans') \in Nat
      BY <3>4, FS_CardinalityType
    <3> QED
      BY <3>1, <3>2, <3>3, <3>4, <3>5, RequestAssumption
  <2>4. /\ Cardinality(Ending) \in Nat /\ Cardinality(Ending') \in Nat
        /\ Cardinality(Ending') + 1 <= Cardinality(Ending)
    <3>1. IsFiniteSet(Ending) /\ Cardinality(Ending) \in Nat
      BY Finite
    <3>2. IsFiniteSet(Ending \ {p}) /\ Cardinality(Ending \ {p}) = Cardinality(Ending) - 1
      BY <2>2, <3>1, FS_RemoveElement
    <3>3. IsFiniteSet(Ending') /\ Cardinality(Ending') <= Cardinality(Ending \ {p})
      BY <2>2, <3>2, FS_Subset
    <3>4. Cardinality(Ending') \in Nat
      BY <3>3, FS_CardinalityType
    <3> QED
      BY <3>1, <3>2, <3>3, <3>4
  <2>5. Limit \in Nat /\ exceptions \in Nat
    BY RequestAssumption, LifeAssumption DEF Life, LifeTypeOK
  <2>6. Limit * (Cardinality(Ending') + 1) = Limit * Cardinality(Ending') + Limit
    BY <2>4, <2>5, Distributes
  <2>7. Limit * (Cardinality(Ending') + 1) <= Limit * Cardinality(Ending)
    BY <2>4, <2>5
  <2>8. Cardinality(Orphans') + Limit * Cardinality(Ending') <= Limit * exceptions'
    <3>1. Limit * Cardinality(Ending') \in Nat /\ Limit * Cardinality(Ending) \in Nat
          /\ Limit * exceptions \in Nat
      BY <2>4, <2>5
    <3>2. Cardinality(Orphans) + Limit * Cardinality(Ending) <= Limit * exceptions
      BY DEF Charged
    <3> QED
      BY <1>1, <2>3, <2>5, <2>6, <2>7, <3>1, <3>2
  <2> QED
    BY <1>1, <1>4, <1>5, <1>6, <1>7, <2>8 DEF Charged
<1> QED
  BY <1>8, <1>9

LEMMA LifeStepCharged ==
    ASSUME Life, Life', CallsSound, CallsSound', Charged, LifeStep PROVE Charged'
BY PhaseMoves, CalmCharged, ExceptionCharged, ExitCharged DEF LifeStep

\* What a step of call c leaves of the calls sent, given Right(c).
LEMMA RightSent ==
    ASSUME NEW c \in Calls, Right(c), NEW d \in Calls, call[d].stage # "unsent"
    PROVE  call'[d].stage # "unsent"
BY DEF Right

\* A step of a call that no throttler sees.
LEMMA UncountedCharged ==
    ASSUME Life, Life', CallsSound, Charged, NEW c \in Calls, Right(c),
           UNCHANGED <<lifeVars, hits, recent>>
    PROVE  Charged'
<1>1. role' = role /\ phase' = phase /\ exceptions' = exceptions
  BY DEF lifeVars
<1>2. CallsSound' /\ Orphans' = Orphans /\ Ending' = Ending /\ \A p \in Procs : Fresh(p)' = Fresh(p)
  BY <1>1 DEF Right, Orphans, Ending, Fresh, Gateways
<1>3. \A d \in recent' : call'[d].stage # "unsent"
  BY RightSent DEF Charged, CallsSound
<1>4. \A p \in Procs : \A d \in hits'[p] : call'[d].stage # "unsent"
  BY RightSent DEF Charged, CallsSound
<1>5. \A p \in Procs : Cardinality(Fresh(p)') <= Limit
  BY <1>2 DEF Charged
<1>6. \A p \in Procs : hits'[p] # {} => p \in Gateways /\ phase'[p] \in Running
  BY <1>1 DEF Charged
<1> QED
  BY <1>1, <1>2, <1>3, <1>4, <1>5, <1>6, ChargeStays

LEMMA ExpiryCharged ==
    ASSUME Life, Life', CallsSound, Charged, NEW c \in Calls, Right(c), HitExpires(c)
    PROVE  Charged'
<1>1. role' = role /\ phase' = phase /\ exceptions' = exceptions /\ CallsSound'
  BY DEF HitExpires, lifeVars, Right
<1>2. recent' = recent \ {c} /\ \A p \in Procs : hits'[p] = hits[p] \ {c}
  BY DEF HitExpires
<1>3. Orphans' \subseteq Orphans /\ Ending' = Ending
  BY <1>1, <1>2 DEF Orphans, Ending, Gateways
<1>4. \A d \in recent' : call'[d].stage # "unsent"
  BY <1>2, RightSent DEF Charged, CallsSound
<1>5. \A p \in Procs : \A d \in hits'[p] : call'[d].stage # "unsent"
  BY <1>2, RightSent DEF Charged, CallsSound
<1>6. ASSUME NEW p \in Procs PROVE Cardinality(Fresh(p)') <= Limit
  <2>1. Fresh(p)' \subseteq Fresh(p)
    BY <1>2 DEF Fresh
  <2>2. IsFiniteSet(Fresh(p)) /\ Cardinality(Fresh(p)) \in Nat /\ Cardinality(Fresh(p)) <= Limit
    BY Finite DEF Charged
  <2>3. IsFiniteSet(Fresh(p)') /\ Cardinality(Fresh(p)') <= Cardinality(Fresh(p))
    BY <2>1, <2>2, FS_Subset
  <2>4. Cardinality(Fresh(p)') \in Nat
    BY <2>3, FS_CardinalityType
  <2> QED
    BY <2>2, <2>3, <2>4, RequestAssumption
<1>7. \A p \in Procs : hits'[p] # {} => p \in Gateways /\ phase'[p] \in Running
  BY <1>1, <1>2 DEF Charged
<1> QED
  BY <1>1, <1>3, <1>4, <1>5, <1>6, <1>7, ChargeStays

\* A request that p's throttler counts: let through, and then p counts no
\* more than its limit, or refused.
LEMMA CountedCharged ==
    ASSUME Life, Life', CallsSound, Charged, NEW c \in Calls, NEW p \in Procs, Right(c),
           UNCHANGED lifeVars, call[c].stage = "unsent", call'[c].stage # "unsent",
           p \in Gateways, phase[p] \in Running,
           hits' = [hits EXCEPT ![p] = @ \cup {c}],
           recent' = recent \/ (recent' = recent \cup {c} /\ Cardinality(hits'[p]) <= Limit)
    PROVE  Charged'
<1>1. role' = role /\ phase' = phase /\ exceptions' = exceptions /\ CallsSound'
  BY DEF lifeVars, Right
<1>2. hits'[p] = hits[p] \cup {c} /\ \A q \in Procs : q # p => hits'[q] = hits[q]
  BY DEF CallsSound
<1>3. c \notin recent /\ \A q \in Procs : c \notin hits[q]
  BY DEF Charged
<1>4. Gateways' = Gateways /\ \A q \in Procs : hits[q] \subseteq hits'[q]
  BY <1>1, <1>2 DEF Gateways
<1>5. Orphans' \subseteq Orphans
  <2> SUFFICES ASSUME NEW d \in Orphans' PROVE d \in Orphans
    OBVIOUS
  <2>1. d \in recent' /\ \A q \in Gateways : d \notin hits'[q]
    BY <1>4 DEF Orphans
  <2>2. d # c
    BY <1>2, <2>1
  <2>3. \A q \in Gateways : d \notin hits[q]
    BY <1>4, <2>1 DEF Gateways
  <2> QED
    BY <2>1, <2>2, <2>3 DEF Orphans
<1>6. Ending' = Ending
  BY <1>1, <1>4 DEF Ending
<1>7. \A d \in recent' : call'[d].stage # "unsent"
  BY RightSent DEF Charged, CallsSound
<1>8. \A q \in Procs : \A d \in hits'[q] : call'[d].stage # "unsent"
  <2> SUFFICES ASSUME NEW q \in Procs, NEW d \in hits'[q] PROVE call'[d].stage # "unsent"
    OBVIOUS
  <2>1. d = c \/ d \in hits[q]
    BY <1>2
  <2> QED
    BY <2>1, RightSent DEF Charged, CallsSound
<1>9. ASSUME NEW q \in Procs PROVE Cardinality(Fresh(q)') <= Limit
  <2>1. CASE recent' = recent \/ q # p
    <3>1. Fresh(q)' = Fresh(q)
      BY <1>2, <1>3, <2>1 DEF Fresh
    <3> QED
      BY <3>1 DEF Charged
  <2>2. CASE q = p /\ Cardinality(hits'[p]) <= Limit
    <3>1. IsFiniteSet(hits'[p])
      BY <1>1, FS_Subset, RequestAssumption DEF CallsSound
    <3>2. Fresh(q)' \subseteq hits'[p]
      BY <2>2 DEF Fresh
    <3>3. IsFiniteSet(Fresh(q)') /\ Cardinality(Fresh(q)') <= Cardinality(hits'[p])
      BY <3>1, <3>2, FS_Subset
    <3>4. Cardinality(Fresh(q)') \in Nat /\ Cardinality(hits'[p]) \in Nat
      BY <3>1, <3>3, FS_CardinalityType
    <3> QED
      BY <2>2, <3>3, <3>4, RequestAssumption
  <2> QED
    BY <2>1, <2>2
<1>10. \A q \in Procs : hits'[q] # {} => q \in Gateways /\ phase'[q] \in Running
  BY <1>1, <1>2 DEF Charged
<1> QED
  BY <1>1, <1>4, <1>5, <1>6, <1>7, <1>8, <1>9, <1>10, ChargeStays

LEMMA TemplatesCharged ==
    ASSUME Life, Life', CallsSound, Charged, NEW c \in Calls, NEW p \in Procs, Right(c),
           Templates(c, p)
    PROVE  Charged'
<1>1. /\ UNCHANGED lifeVars /\ call[c].stage = "unsent" /\ p \in Gateways
      /\ phase[p] \in Running /\ call[c] \in Calling
  BY DEF Templates, Arrives, Alive, Gateways, CallsSound, Sound
<1>2. Reject(c) \/ Forward(c, p) => call'[c].stage # "unsent"
  <2>1. CASE Reject(c)
    <3>1. call'[c] = Closed(call[c], "answered", "rejected")
      BY <2>1 DEF Reject, Answer, Becomes, CallsSound
    <3> QED
      BY <1>1, <3>1 DEF Closed, Calling
  <2>2. CASE Forward(c, p)
    <3>1. call'[c] = [call[c] EXCEPT !.stage = "waiting", !.at = p, !.remote = "sent"]
      BY <2>2 DEF Forward, Becomes, CallsSound
    <3> QED
      BY <1>1, <3>1 DEF Calling
  <2> QED
    BY <2>1, <2>2
<1>3. CASE NoToken(c)
  BY <1>1, <1>3, UncountedCharged DEF NoToken
<1>4. CASE Throttled(c, p)
  BY <1>1, <1>2, <1>4, CountedCharged DEF Throttled
<1>5. CASE LetThrough(c, p) /\ (Reject(c) \/ Forward(c, p))
  <2>1. Cardinality(hits'[p]) <= Limit
    <3>1. IsFiniteSet(hits'[p])
      BY FS_Subset, RequestAssumption DEF Right, CallsSound
    <3>2. Cardinality(hits'[p]) \in Nat
      BY <3>1, FS_CardinalityType
    <3> QED
      BY <1>5, <3>2, RequestAssumption DEF LetThrough, TooMany
  <2> QED
    BY <1>1, <1>2, <1>5, <2>1, CountedCharged DEF LetThrough
<1> QED
  BY <1>3, <1>4, <1>5 DEF Templates, Invalid, Proxy

LEMMA CallStepCharged ==
    ASSUME Life, Life', CallsSound, Charged, NEW c \in Calls, CallStep(c)
    PROVE  Charged'
<1>1. Right(c)
  BY CallRight
<1>2. CASE HitExpires(c)
  BY <1>1, <1>2, ExpiryCharged
<1>3. ASSUME NEW p \in Procs, Templates(c, p) PROVE Charged'
  BY <1>1, <1>3, TemplatesCharged
<1>4. CASE UNCHANGED <<lifeVars, hits, recent>>
  BY <1>1, <1>4, UncountedCharged
<1> QED
  BY <1>2, <1>3, <1>4
  DEF CallStep, CheckHealth, Register, Execute, Probes, GatewayProbes, UserProbes, EmailProbes,
      TemplateProbes, Settle, HealthAnswer, Lose, Reply, Broken, TimesOut

LEMMA ChargedInitially == Init => Charged
<1> SUFFICES ASSUME Init PROVE Charged
  OBVIOUS
<1>1. recent = {} /\ exceptions = 0 /\ \A p \in Procs : hits[p] = {} /\ phase[p] = "exited"
  BY DEF Init, LifeInit
<1>2. Orphans = {} /\ Ending = {} /\ \A p \in Procs : Fresh(p) = {}
  BY <1>1 DEF Orphans, Ending, Fresh, Gateways
<1>3. Cardinality({}) = 0 /\ Limit \in Nat
  BY FS_EmptySet, RequestAssumption
<1>4. Cardinality(Orphans) = 0 /\ Cardinality(Ending) = 0 /\ \A p \in Procs : Cardinality(Fresh(p)) = 0
  BY <1>2, <1>3
<1> QED
  BY <1>1, <1>3, <1>4 DEF Charged

LEMMA ChargedKept ==
    ASSUME Inductive, Charged, [Next]_vars PROVE Charged'
<1>1. Inductive'
  BY InductiveKept
<1>2. CASE LifeStep
  BY <1>1, <1>2, LifeStepCharged DEF Inductive
<1>3. ASSUME NEW c \in Calls, CallStep(c) PROVE Charged'
  BY <1>1, <1>3, CallStepCharged DEF Inductive
<1>4. CASE UNCHANGED vars
  BY <1>4 DEF vars, lifeVars, callVars, Charged, Orphans, Ending, Fresh, Gateways
<1> QED
  BY <1>2, <1>3, <1>4 DEF Next

\* However the gateway's processes die and come back, their throttlers let
\* through no more than the limit per process and per exception.
THEOREM AdmittedWithinLimitHolds == Spec => []AdmittedWithinLimit
<1>1. Init => Inductive /\ Charged
  BY InductiveInitially, ChargedInitially
<1>2. (Inductive /\ Charged) /\ [Next]_vars => (Inductive /\ Charged)'
  BY InductiveKept, ChargedKept
<1>3. Inductive /\ Charged => AdmittedWithinLimit
  BY ChargedWithinLimit DEF Inductive
<1> QED
  BY <1>1, <1>2, <1>3, PTL DEF Spec

-------------------------------------------------------------------------------
(* How far a process is from serving                                       *)

\* A start that cannot go on waits for the first connection to RabbitMQ and for
\* nothing else: it listens, or PostgreSQL accepts or refuses the connection, or
\* a setup is over or rejected.
WaitsForBrokerOnly ==
    \A p \in Procs :
        phase[p] = "booting" =>
            \/ pending[p] = {}
            \/ \E h \in {"database", "topology", "consumer"} : Hook(p, h)
            \/ Hook(p, "queue")

Waits(p, h) == IF h \in pending[p] THEN 1 ELSE 0

\* The steps that p has still to take before it serves.
StepsToServe(p) ==
    IF phase[p] = "booting" THEN 1 + Waits(p, "database") + Waits(p, "queue")
                                   + Waits(p, "topology") + Waits(p, "consumer")
    ELSE IF phase[p] = "exited" THEN 6
    ELSE IF phase[p] = "exiting" THEN 7
    ELSE 0

AllUp == \A d \in Deps : up[d]

\* While the dependencies are up and no exception occurs, a process that pm2 has
\* not given up, and that runs no leftover of a lost channel, only comes closer to
\* serving, with every step of its own; it gets no leftover, and pm2 gives up none
\* but a process whose exit was due already.
ComesUp ==
    AllUp /\ exceptions' = exceptions =>
        \A p \in Procs : phase[p] # "errored" /\ ~leftover[p] =>
            /\ StepsToServe(p)' <= StepsToServe(p)
            /\ LifeProgress(p) /\ LifeStep => StepsToServe(p)' < StepsToServe(p)
            /\ phase'[p] = "errored" => phase[p] = "exiting"
            /\ ~leftover'[p]

LEMMA WaitsRange == \A p \in Procs, h \in Hooks : Waits(p, h) \in 0..1 /\ Waits(p, h)' \in 0..1
BY DEF Waits

LEMMA DistanceRange ==
    ASSUME NEW p \in Procs
    PROVE  /\ StepsToServe(p) \in 0..7 /\ StepsToServe(p)' \in 0..7
           /\ phase[p] = "booting" => StepsToServe(p) \in 1..5
           /\ phase'[p] = "booting" => StepsToServe(p)' \in 1..5
<1>1. /\ Waits(p, "database") \in 0..1 /\ Waits(p, "queue") \in 0..1
      /\ Waits(p, "topology") \in 0..1 /\ Waits(p, "consumer") \in 0..1
      /\ Waits(p, "database")' \in 0..1 /\ Waits(p, "queue")' \in 0..1
      /\ Waits(p, "topology")' \in 0..1 /\ Waits(p, "consumer")' \in 0..1
  BY WaitsRange DEF Hooks
<1> QED
  BY <1>1 DEF StepsToServe

\* A step of process p.
LEMMA ProcComesUp ==
    ASSUME Life, AllUp, exceptions' = exceptions, NEW p \in Procs, ProcStep(p)
    PROVE  /\ phase[p] # "errored" /\ ~leftover[p] =>
                  /\ StepsToServe(p)' <= StepsToServe(p)
                  /\ LifeProgress(p) => StepsToServe(p)' < StepsToServe(p)
                  /\ phase'[p] = "errored" => phase[p] = "exiting"
                  /\ ~leftover'[p]
           /\ \A q \in Procs : q # p =>
                  phase'[q] = phase[q] /\ pending'[q] = pending[q] /\ leftover'[q] = leftover[q]
<1> DEFINE Others ==
        \A q \in Procs : q # p =>
            phase'[q] = phase[q] /\ pending'[q] = pending[q] /\ leftover'[q] = leftover[q]
           Good ==
        /\ phase[p] # "errored" /\ ~leftover[p] =>
               /\ StepsToServe(p)' <= StepsToServe(p)
               /\ LifeProgress(p) => StepsToServe(p)' < StepsToServe(p)
               /\ phase'[p] = "errored" => phase[p] = "exiting"
               /\ ~leftover'[p]
        /\ Others
<1>t. /\ phase \in [Procs -> Phases] /\ pending \in [Procs -> SUBSET Hooks]
      /\ leftover \in [Procs -> BOOLEAN] /\ exceptions \in Nat
  BY DEF Life, LifeTypeOK
<1>d. /\ StepsToServe(p) \in 0..7 /\ StepsToServe(p)' \in 0..7
      /\ phase[p] = "booting" => StepsToServe(p) \in 1..5
      /\ phase'[p] = "booting" => StepsToServe(p)' \in 1..5
  BY DistanceRange
<1>u. up["database"] /\ up["queue"]
  BY DEF AllUp, Deps
<1>1. ASSUME Starts(p) PROVE Good
  <2>1. PICK h : Start(p, h)
    BY <1>1 DEF Starts, StartGateway, StartUser, StartEmail, StartTemplate
  <2>2. phase[p] = "exited" /\ phase'[p] = "booting" /\ leftover' = leftover /\ Others
    BY <1>t, <2>1 DEF Start
  <2>3. StepsToServe(p) = 6
    BY <2>2 DEF StepsToServe
  <2>4. StepsToServe(p)' < StepsToServe(p)
    BY <1>d, <2>2, <2>3
  <2> QED
    BY <1>d, <2>2, <2>4
<1>2. ASSUME Connects(p) PROVE Good
  <2>1. PICK h \in Hooks :
            /\ phase[p] = "booting" /\ h \in pending[p] /\ HookDone(p, h)
            /\ phase' = phase /\ leftover' = leftover
    BY <1>2 DEF Connects, DatabaseConnects, QueueConnects, DeclaresTopology, RegistersConsumer,
                SetUp, Hook, Hooks
  <2>2. pending'[p] = pending[p] \ {h} /\ Others
    BY <1>t, <2>1 DEF HookDone
  <2>3. /\ Waits(p, h) = 1 /\ Waits(p, h)' = 0
        /\ \A e \in Hooks : e # h => Waits(p, e)' = Waits(p, e)
    BY <2>1, <2>2 DEF Waits
  <2>4. /\ StepsToServe(p) = 1 + Waits(p, "database") + Waits(p, "queue")
                               + Waits(p, "topology") + Waits(p, "consumer")
        /\ StepsToServe(p)' = 1 + Waits(p, "database")' + Waits(p, "queue")'
                                + Waits(p, "topology")' + Waits(p, "consumer")'
    BY <2>1 DEF StepsToServe
  <2>5. \A e \in Hooks : Waits(p, e) \in 0..1
    BY WaitsRange
  <2>6. StepsToServe(p)' < StepsToServe(p)
    <3>1. CASE h = "database"
      BY <2>3, <2>4, <2>5, <3>1 DEF Hooks
    <3>2. CASE h = "queue"
      BY <2>3, <2>4, <2>5, <3>2 DEF Hooks
    <3>3. CASE h = "topology"
      BY <2>3, <2>4, <2>5, <3>3 DEF Hooks
    <3>4. CASE h = "consumer"
      BY <2>3, <2>4, <2>5, <3>4 DEF Hooks
    <3> QED
      BY <3>1, <3>2, <3>3, <3>4 DEF Hooks
  <2> QED
    BY <1>d, <2>1, <2>2, <2>6
<1>3. ASSUME Listen(p) PROVE Good
  <2>1. phase[p] = "booting" /\ phase'[p] = "serving" /\ leftover' = leftover /\ Others
    BY <1>3, <1>t DEF Listen
  <2>2. StepsToServe(p)' = 0
    BY <2>1 DEF StepsToServe
  <2>3. StepsToServe(p)' < StepsToServe(p)
    BY <1>d, <2>1, <2>2
  <2> QED
    BY <1>d, <2>1, <2>3
<1>4. ~StartFails(p)
  BY <1>u DEF StartFails, DatabaseRefuses, SetUpRejects
<1>5. ~UncaughtException(p)
  BY <1>t DEF UncaughtException
<1>6. ASSUME Exit(p) PROVE Good
  <2>1. phase[p] = "exiting" /\ phase'[p] \in {"exited", "errored"} /\ ~leftover'[p] /\ Others
    BY <1>6, <1>t DEF Exit, End
  <2>2. StepsToServe(p) = 7 /\ StepsToServe(p)' \in {0, 6}
    BY <2>1 DEF StepsToServe
  <2>3. StepsToServe(p)' < StepsToServe(p)
    BY <2>2
  <2> QED
    BY <1>d, <2>1, <2>3
<1>7. ASSUME Reconnected(p) PROVE Good
  <2>1. phase' = phase /\ pending' = pending /\ leftover' = leftover /\ linked' # linked
    BY <1>7 DEF Reconnected, Life, LifeTypeOK
  <2>2. StepsToServe(p)' = StepsToServe(p)
    BY <2>1 DEF StepsToServe, Waits
  <2>3. ~LifeProgress(p)
    <3>1. ASSUME NEW h PROVE ~Start(p, h)
      BY <2>1 DEF Start
    <3>2. ASSUME NEW h \in Hooks, Hook(p, h), HookDone(p, h) PROVE FALSE
      <4>1. h \in pending[p] /\ pending'[p] = pending[p] \ {h}
        BY <1>t, <3>2 DEF Hook, HookDone
      <4> QED
        BY <2>1, <4>1
    <3>3. ~Connects(p)
      BY <3>2 DEF Connects, DatabaseConnects, QueueConnects, DeclaresTopology, RegistersConsumer,
                  SetUp, Hooks
    <3>4. ~Listen(p)
      BY <2>1 DEF Listen
    <3>5. ~Exit(p)
      <4>1. ASSUME Exit(p) PROVE FALSE
        <5>1. phase[p] = "exiting" /\ phase'[p] \in {"exited", "errored"}
          BY <1>t, <4>1 DEF Exit, End
        <5> QED
          BY <2>1, <5>1
      <4> QED
        BY <4>1
    <3> QED
      BY <1>4, <3>1, <3>3, <3>4, <3>5 DEF LifeProgress, Starts, StartGateway, StartUser, StartEmail,
                                          StartTemplate
  <2> QED
    BY <1>d, <2>1, <2>2, <2>3
<1>8. ~Disconnected(p)
  BY <1>u DEF Disconnected
<1>9. ASSUME TimerThrows(p) PROVE Good
  <2>1. leftover[p]
    BY <1>9 DEF TimerThrows
  <2>2. Others
    BY <1>9, <1>t DEF TimerThrows, End
  <2> QED
    BY <2>1, <2>2
<1> QED
  BY <1>1, <1>2, <1>3, <1>4, <1>5, <1>6, <1>7, <1>8, <1>9 DEF ProcStep

LEMMA ComesUpNext == Life /\ [Next]_vars => ComesUp
<1> SUFFICES ASSUME Life, [Next]_vars, AllUp, exceptions' = exceptions,
                    NEW p \in Procs, phase[p] # "errored", ~leftover[p]
             PROVE  /\ StepsToServe(p)' <= StepsToServe(p)
                    /\ LifeProgress(p) /\ LifeStep => StepsToServe(p)' < StepsToServe(p)
                    /\ phase'[p] = "errored" => phase[p] = "exiting"
                    /\ ~leftover'[p]
  BY DEF ComesUp
<1>d. StepsToServe(p) \in 0..7
  BY DistanceRange
<1>1. CASE ProcStep(p)
  BY <1>1, ProcComesUp
<1>2. CASE ~ProcStep(p)
  <2>1. phase'[p] = phase[p] /\ pending'[p] = pending[p] /\ leftover'[p] = leftover[p]
    <3>1. ASSUME NEW q \in Procs, q # p, ProcStep(q)
          PROVE  phase'[p] = phase[p] /\ pending'[p] = pending[p] /\ leftover'[p] = leftover[p]
      BY <3>1, ProcComesUp
    <3>2. ~ContainerRestarts
      BY DEF ContainerRestarts
    <3>3. ASSUME NEW d \in Deps, Outage(d) \/ Recover(d)
          PROVE  phase'[p] = phase[p] /\ pending'[p] = pending[p] /\ leftover'[p] = leftover[p]
      BY <3>3 DEF Outage, Recover
    <3>4. ASSUME UNCHANGED lifeVars
          PROVE  phase'[p] = phase[p] /\ pending'[p] = pending[p] /\ leftover'[p] = leftover[p]
      BY <3>4 DEF lifeVars
    <3>5. CASE LifeNext
      BY <1>2, <3>1, <3>2, <3>3, <3>5 DEF LifeNext
    <3> QED
      BY <3>4, <3>5, CallStepLife DEF Next, LifeStep, vars
  <2>2. StepsToServe(p)' = StepsToServe(p)
    BY <2>1 DEF StepsToServe, Waits
  <2>3. ~LifeProgress(p)
    BY <1>2 DEF LifeProgress, ProcStep
  <2> QED
    BY <1>d, <2>1, <2>2, <2>3
<1> QED
  BY <1>1, <1>2

LEMMA Waiting == Life => WaitsForBrokerOnly
<1> SUFFICES ASSUME Life, NEW p \in Procs, phase[p] = "booting", pending[p] # {}
             PROVE  \E h \in Hooks : Hook(p, h)
  BY DEF WaitsForBrokerOnly, Hooks
<1>1. pending[p] \subseteq Hooks
  BY DEF Life, LifeTypeOK
<1>2. CASE "database" \in pending[p]
  BY <1>2 DEF Hook, Before, Hooks
<1>3. CASE "queue" \in pending[p]
  BY <1>3 DEF Hook, Before, Hooks
<1>4. CASE "queue" \notin pending[p] /\ "topology" \in pending[p]
  BY <1>4 DEF Hook, Before, Hooks
<1>5. CASE "queue" \notin pending[p] /\ "topology" \notin pending[p] /\ "consumer" \in pending[p]
  BY <1>5 DEF Hook, Before, Hooks
<1> QED
  BY <1>1, <1>2, <1>3, <1>4, <1>5 DEF Hooks

\* The safety half of ServesOrGivenUp and SystemComesBack, for any number of
\* processes: a start waits for RabbitMQ only, and at most seven steps of its own
\* separate a process from serving, which nothing but a fault, or what a fault
\* left over, prolongs.
THEOREM StartsDescend == Spec => []WaitsForBrokerOnly /\ [][ComesUp]_vars
<1>1. Inductive => WaitsForBrokerOnly
  BY Waiting DEF Inductive
<1>2. Inductive => Life
  BY DEF Inductive
<1> QED
  BY <1>1, <1>2, ComesUpNext, AlwaysInductive, PTL DEF Spec

-------------------------------------------------------------------------------
(* How far a call is from its answer                                       *)

\* An open call is at a running process, and one that waits for the other
\* service has been sent there.
Attended(c) ==
    LET k == call[c] IN
    /\ Open(k) => Alive(k.at)
    /\ k.stage = "checking" => k.remote = "none"
    /\ k.stage = "waiting" => k.remote \in {"sent", "done", "refused", "lost"}

AllAttended == \A c \in Calls : Attended(c)

\* 1 if the probe of d has not settled.
Owed(k, d) == IF d \in Checks(role[k.at]) \ (k.yes \cup k.no) THEN 1 ELSE 0

\* The steps that separate an open call from its answer.
StepsToAnswer(c) ==
    LET k == call[c] IN
    IF k.stage = "checking"
    THEN 1 + Owed(k, "database") + Owed(k, "queue") + Owed(k, "cache")
    ELSE IF k.stage = "waiting" THEN IF k.remote = "sent" THEN 2 ELSE 1
    ELSE 0

\* No step takes an open call away from its answer, whatever other calls,
\* processes and dependencies do, and every step that the code owes it brings
\* the call closer.
CallsCloseIn ==
    \A c \in Calls : Open(call[c]) =>
        /\ StepsToAnswer(c)' <= StepsToAnswer(c)
        /\ CallProgress(c) => StepsToAnswer(c)' < StepsToAnswer(c)

LEMMA AnswerDistance ==
    ASSUME NEW c \in Calls
    PROVE  /\ StepsToAnswer(c) \in 0..4 /\ StepsToAnswer(c)' \in 0..4
           /\ Open(call[c]) => StepsToAnswer(c) \in 1..4
           /\ ~Open(call[c]) => StepsToAnswer(c) = 0
           /\ ~Open(call'[c]) => StepsToAnswer(c)' = 0
<1>1. \A d \in Deps : Owed(call[c], d) \in 0..1 /\ Owed(call[c], d)' \in 0..1
  BY DEF Owed
<1>2. /\ Owed(call[c], "database") \in 0..1 /\ Owed(call[c], "queue") \in 0..1
      /\ Owed(call[c], "cache") \in 0..1
      /\ Owed(call[c], "database")' \in 0..1 /\ Owed(call[c], "queue")' \in 0..1
      /\ Owed(call[c], "cache")' \in 0..1
  BY <1>1 DEF Deps
<1> QED
  BY <1>2 DEF StepsToAnswer, Open

\* What a step of call c does to it.
Moved(c, k) ==
    /\ call'[c] = k
    /\ \A d \in Calls : d # c => call'[d] = call[d]
    /\ UNCHANGED lifeVars

LEMMA BecomesMoved ==
    ASSUME CallsSound, NEW c \in Calls, NEW k, Becomes(c, k), UNCHANGED lifeVars
    PROVE  Moved(c, k)
BY DEF CallsSound, Becomes, Moved

LEMMA AnswerMoved ==
    ASSUME CallsSound, NEW c \in Calls, NEW a, Answer(c, a), UNCHANGED lifeVars
    PROVE  \E k : Moved(c, k) /\ k.stage = "answered"
<1>1. call[c] \in Calling
  BY DEF CallsSound, Sound
<1>2. Closed(call[c], "answered", a).stage = "answered"
  BY <1>1 DEF Closed, Calling
<1> QED
  BY <1>2, BecomesMoved DEF Answer

\* The kinds of steps a call takes: it comes, it settles a probe, the other
\* service goes on, or it is answered.
Comes(c, n) ==
    /\ Moved(c, n)
    /\ call[c].stage = "unsent"
    /\ n.at \in Procs /\ Alive(n.at)
    /\ \/ n.stage = "checking" /\ n.remote = "none"
       \/ n.stage = "waiting" /\ n.remote = "sent"

Settles(c, n, d) ==
    /\ Moved(c, n)
    /\ Unsettled(c, d)
    /\ n.stage = call[c].stage /\ n.at = call[c].at /\ n.remote = call[c].remote
    /\ n.yes \cup n.no = call[c].yes \cup call[c].no \cup {d}

GoesOn(c, n) ==
    /\ Moved(c, n)
    /\ call[c].remote = "sent" /\ n.remote \in {"done", "refused", "lost"}
    /\ n.stage = call[c].stage /\ n.at = call[c].at

Ends(c, n) == Moved(c, n) /\ n.stage = "answered"

CallKinds(c) ==
    \E n : Comes(c, n) \/ (\E d \in Deps : Settles(c, n, d)) \/ GoesOn(c, n) \/ Ends(c, n)

LEMMA AnswerEnds ==
    ASSUME CallsSound, NEW c \in Calls, NEW a, Answer(c, a), UNCHANGED lifeVars
    PROVE  \E n : Ends(c, n)
BY AnswerMoved DEF Ends

LEMMA HealthComes ==
    ASSUME CallsSound, NEW c \in Calls, NEW p \in Procs, CheckHealth(c, p)
    PROVE  \E n : Comes(c, n)
<1> DEFINE now == View(linked[p], up)
           n == [call[c] EXCEPT !.stage = "checking", !.at = p, !.seen = now]
<1>1. Sound(call[c]) /\ call[c].stage = "unsent" /\ call[c].remote = "none" /\ Alive(p)
  BY ArrivalSound DEF CheckHealth, Arrives
<1>2. Becomes(c, n) /\ UNCHANGED lifeVars
  BY DEF CheckHealth
<1> HIDE DEF now
<1>3. n.stage = "checking" /\ n.at = p /\ n.remote = "none"
  BY <1>1 DEF Sound, Calling
<1> HIDE DEF n
<1> QED
  BY <1>1, <1>2, <1>3, BecomesMoved DEF Comes

LEMMA ForwardComes ==
    ASSUME CallsSound, NEW c \in Calls, NEW p \in Procs, Alive(p),
           call[c].stage = "unsent", Forward(c, p), UNCHANGED lifeVars
    PROVE  \E n : Comes(c, n)
<1> DEFINE n == [call[c] EXCEPT !.stage = "waiting", !.at = p, !.remote = "sent"]
<1>1. Becomes(c, n)
  BY DEF Forward
<1>2. n.stage = "waiting" /\ n.at = p /\ n.remote = "sent"
  BY DEF CallsSound, Sound, Calling
<1> HIDE DEF n
<1> QED
  BY <1>1, <1>2, BecomesMoved DEF Comes

LEMMA ProbeSettles ==
    ASSUME CallsSound, NEW c \in Calls, Probes(c)
    PROVE  \E n : \E d \in Deps : Settles(c, n, d)
<1>1. PICK d \in Deps : \E b : Unsettled(c, d) /\ Settle(c, d, b)
  BY DEF Probes, GatewayProbes, UserProbes, EmailProbes, TemplateProbes
<1>b. PICK b : Unsettled(c, d) /\ Settle(c, d, b)
  BY <1>1
<1>2. call[c] \in Calling
  BY DEF CallsSound, Sound
<1>3. CASE b
  <2> DEFINE n == [call[c] EXCEPT !.yes = @ \cup {d}]
  <2>1. Becomes(c, n) /\ UNCHANGED lifeVars
    BY <1>b, <1>3, Zenon DEF Settle
  <2>2. /\ n.stage = call[c].stage /\ n.at = call[c].at /\ n.remote = call[c].remote
        /\ n.yes = call[c].yes \cup {d} /\ n.no = call[c].no
    BY <1>2 DEF Calling
  <2> HIDE DEF n
  <2>3. n.yes \cup n.no = call[c].yes \cup call[c].no \cup {d}
    BY <2>2
  <2> QED
    BY <1>b, <2>1, <2>2, <2>3, BecomesMoved DEF Settles
<1>4. CASE ~b
  <2> DEFINE n == [call[c] EXCEPT !.no = @ \cup {d}]
  <2>1. Becomes(c, n) /\ UNCHANGED lifeVars
    BY <1>b, <1>4, Zenon DEF Settle
  <2>2. /\ n.stage = call[c].stage /\ n.at = call[c].at /\ n.remote = call[c].remote
        /\ n.yes = call[c].yes /\ n.no = call[c].no \cup {d}
    BY <1>2 DEF Calling
  <2> HIDE DEF n
  <2>3. n.yes \cup n.no = call[c].yes \cup call[c].no \cup {d}
    BY <2>2
  <2> QED
    BY <1>b, <2>1, <2>2, <2>3, BecomesMoved DEF Settles
<1> QED
  BY <1>3, <1>4

LEMMA BackendGoesOn ==
    ASSUME CallsSound, NEW c \in Calls, (\E p \in Procs : Execute(c, p)) \/ Lose(c)
    PROVE  \E n : GoesOn(c, n)
<1>1. call[c] \in Calling /\ call[c].remote = "sent" /\ UNCHANGED lifeVars
  BY Zenon DEF CallsSound, Sound, Execute, Lose
<1>2. ASSUME NEW p \in Procs, NEW r \in {"done", "refused"},
             Becomes(c, [call[c] EXCEPT !.remote = r, !.by = p])
      PROVE  \E n : GoesOn(c, n)
  <2> DEFINE n == [call[c] EXCEPT !.remote = r, !.by = p]
  <2>1. n.stage = call[c].stage /\ n.at = call[c].at /\ n.remote = r
    BY <1>1 DEF Calling
  <2>2. Becomes(c, n)
    BY <1>2
  <2> HIDE DEF n
  <2> QED
    BY <1>1, <2>1, <2>2, BecomesMoved DEF GoesOn
<1>3. ASSUME Becomes(c, [call[c] EXCEPT !.remote = "lost"]) PROVE \E n : GoesOn(c, n)
  <2> DEFINE n == [call[c] EXCEPT !.remote = "lost"]
  <2>1. n.stage = call[c].stage /\ n.at = call[c].at /\ n.remote = "lost"
    BY <1>1 DEF Calling
  <2>2. Becomes(c, n)
    BY <1>3
  <2> HIDE DEF n
  <2> QED
    BY <1>1, <2>1, <2>2, BecomesMoved DEF GoesOn
<1> QED
  BY <1>2, <1>3 DEF Execute, Lose

LEMMA StepKinds ==
    ASSUME CallsSound, NEW c \in Calls, CallStep(c), ~HitExpires(c)
    PROVE  CallKinds(c)
<1>1. CASE HealthAnswer(c) \/ Reply(c) \/ Broken(c) \/ TimesOut(c)
  BY <1>1, AnswerEnds DEF HealthAnswer, Reply, Broken, TimesOut, CallKinds
<1>2. ASSUME NEW p \in Procs, Templates(c, p) PROVE CallKinds(c)
  <2>1. call[c].stage = "unsent" /\ Alive(p) /\ UNCHANGED lifeVars
    BY <1>2 DEF Templates, Arrives
  <2>2. CASE Reject(c)
    BY <2>1, <2>2, AnswerEnds DEF Reject, CallKinds
  <2>3. CASE Forward(c, p)
    BY <2>1, <2>3, ForwardComes DEF CallKinds
  <2> QED
    BY <1>2, <2>2, <2>3 DEF Templates, NoToken, Throttled, Invalid, Proxy
<1>3. ASSUME NEW p \in Procs, Register(c, p) PROVE CallKinds(c)
  <2>1. call[c].stage = "unsent" /\ Alive(p) /\ UNCHANGED lifeVars
    BY <1>3 DEF Register, Arrives
  <2>2. CASE Reject(c)
    BY <2>1, <2>2, AnswerEnds DEF Reject, CallKinds
  <2>3. CASE Forward(c, p)
    BY <2>1, <2>3, ForwardComes DEF CallKinds
  <2> QED
    BY <1>3, <2>2, <2>3 DEF Register
<1>4. ASSUME NEW p \in Procs, CheckHealth(c, p) PROVE CallKinds(c)
  BY <1>4, HealthComes DEF CallKinds
<1>5. CASE Probes(c)
  BY <1>5, ProbeSettles DEF CallKinds
<1>6. CASE (\E p \in Procs : Execute(c, p)) \/ Lose(c)
  BY <1>6, BackendGoesOn DEF CallKinds
<1> QED
  BY <1>1, <1>2, <1>3, <1>4, <1>5, <1>6 DEF CallStep

LEMMA AttendedNext == Inductive /\ AllAttended /\ [Next]_vars => AllAttended'
<1> SUFFICES ASSUME Inductive, AllAttended, [Next]_vars, NEW c \in Calls PROVE Attended(c)'
  BY DEF AllAttended
<1>s. Sound(call[c]) /\ Attended(c) /\ CallsSound
  BY DEF Inductive, CallsSound, AllAttended
<1>1. ASSUME UNCHANGED phase, call'[c] = call[c] PROVE Attended(c)'
  BY <1>1, <1>s DEF Attended, Alive
<1>2. CASE LifeStep
  <2>1. call'[c] = Affected(call[c])
    BY <1>2 DEF LifeStep
  <2>2. CASE ~Open(call[c])
    BY <1>s, <2>1, <2>2 DEF Affected, Attended, Open
  <2>3. CASE Open(call[c]) /\ phase'[call[c].at] \notin Running
    BY <1>s, <2>1, <2>3 DEF Affected, Attended, Open, Closed, Sound, Calling
  <2>4. CASE Open(call[c]) /\ phase'[call[c].at] \in Running
    <3>1. /\ call'[c].stage = call[c].stage /\ call'[c].at = call[c].at
          /\ call'[c].remote = call[c].remote
      BY <1>s, <2>1, <2>4 DEF Affected, Sound, Calling
    <3> QED
      BY <1>s, <2>4, <3>1 DEF Attended, Open, Alive
  <2> QED
    BY <2>2, <2>3, <2>4
<1>3. ASSUME NEW e \in Calls, CallStep(e), ~HitExpires(e) PROVE Attended(c)'
  <2>1. PICK n : Comes(e, n) \/ (\E d \in Deps : Settles(e, n, d)) \/ GoesOn(e, n) \/ Ends(e, n)
    BY <1>3, <1>s, StepKinds DEF CallKinds
  <2>2. Moved(e, n) /\ phase' = phase
    BY <2>1 DEF Comes, Settles, GoesOn, Ends, Moved, lifeVars
  <2>3. CASE c # e
    BY <1>1, <2>2, <2>3 DEF Moved
  <2>4. CASE c = e
    <3>1. call'[c] = n /\ (Alive(n.at) => Alive(n.at)')
      BY <2>2, <2>4 DEF Moved, Alive
    <3>2. CASE Comes(c, n)
      BY <3>1, <3>2 DEF Comes, Attended, Alive
    <3>3. ASSUME NEW d \in Deps, Settles(c, n, d) PROVE Attended(c)'
      BY <1>s, <2>2, <3>1, <3>3 DEF Settles, Attended, Open, Alive
    <3>4. CASE GoesOn(c, n)
      BY <1>s, <2>2, <3>1, <3>4 DEF GoesOn, Attended, Open, Alive
    <3>5. CASE Ends(c, n)
      BY <3>1, <3>5 DEF Ends, Attended, Open
    <3> QED
      BY <2>1, <2>4, <3>2, <3>3, <3>4, <3>5
  <2> QED
    BY <2>3, <2>4
<1>4. ASSUME NEW e \in Calls, HitExpires(e) PROVE Attended(c)'
  BY <1>1, <1>4 DEF HitExpires, lifeVars
<1>5. CASE UNCHANGED vars
  BY <1>1, <1>5 DEF vars, lifeVars, callVars
<1> QED
  BY <1>2, <1>3, <1>4, <1>5 DEF Next

\* What brings an open call closer to its answer.
LEMMA Closer ==
    ASSUME NEW c \in Calls, Open(call[c]), Attended(c), NEW n,
           (\E d \in Deps : Settles(c, n, d)) \/ GoesOn(c, n) \/ Ends(c, n)
    PROVE  StepsToAnswer(c)' < StepsToAnswer(c)
<1>r. StepsToAnswer(c) \in 1..4
  BY AnswerDistance
<1>1. ASSUME NEW d \in Deps, Settles(c, n, d) PROVE StepsToAnswer(c)' < StepsToAnswer(c)
  <2>1. /\ call'[c] = n /\ role' = role /\ call[c].stage = "checking"
        /\ d \in Checks(role[call[c].at]) \ (call[c].yes \cup call[c].no)
        /\ n.stage = call[c].stage /\ n.at = call[c].at
        /\ n.yes \cup n.no = call[c].yes \cup call[c].no \cup {d}
    BY <1>1 DEF Settles, Moved, Unsettled, lifeVars
  <2>2. /\ Owed(call[c], d) = 1 /\ Owed(call[c], d)' = 0
        /\ \A e \in Deps : e # d => Owed(call[c], e)' = Owed(call[c], e)
    BY <2>1 DEF Owed
  <2>3. /\ StepsToAnswer(c) = 1 + Owed(call[c], "database") + Owed(call[c], "queue")
                                + Owed(call[c], "cache")
        /\ StepsToAnswer(c)' = 1 + Owed(call[c], "database")' + Owed(call[c], "queue")'
                                 + Owed(call[c], "cache")'
    BY <2>1 DEF StepsToAnswer
  <2>4. \A e \in Deps : Owed(call[c], e) \in 0..1
    BY DEF Owed
  <2>5. Deps = {"database", "queue", "cache"}
    BY DEF Deps
  <2>6. CASE d = "database"
    BY <2>2, <2>3, <2>4, <2>5, <2>6
  <2>7. CASE d = "queue"
    BY <2>2, <2>3, <2>4, <2>5, <2>7
  <2>8. CASE d = "cache"
    BY <2>2, <2>3, <2>4, <2>5, <2>8
  <2> QED
    BY <2>5, <2>6, <2>7, <2>8
<1>2. CASE GoesOn(c, n)
  <2>1. /\ call'[c] = n /\ call[c].stage = "waiting" /\ call[c].remote = "sent"
        /\ n.stage = "waiting" /\ n.remote # "sent"
    BY <1>2 DEF GoesOn, Moved, Attended, Open
  <2>2. StepsToAnswer(c) = 2 /\ StepsToAnswer(c)' = 1
    BY <2>1 DEF StepsToAnswer
  <2> QED
    BY <2>2
<1>3. CASE Ends(c, n)
  <2>1. StepsToAnswer(c)' = 0
    BY <1>3, AnswerDistance DEF Ends, Moved, Open
  <2> QED
    BY <1>r, <2>1
<1> QED
  BY <1>1, <1>2, <1>3

LEMMA ProgressKinds ==
    ASSUME CallsSound, NEW c \in Calls, CallProgress(c)
    PROVE  \E n : (\E d \in Deps : Settles(c, n, d)) \/ GoesOn(c, n) \/ Ends(c, n)
<1>1. CASE HealthAnswer(c) \/ Reply(c) \/ Broken(c)
  BY <1>1, AnswerEnds DEF HealthAnswer, Reply, Broken
<1>2. CASE Probes(c)
  BY <1>2, ProbeSettles
<1>3. CASE (\E p \in Procs : Execute(c, p)) \/ Lose(c)
  BY <1>3, BackendGoesOn
<1> QED
  BY <1>1, <1>2, <1>3 DEF CallProgress

LEMMA CallsCloseInNext == Inductive /\ AllAttended /\ [Next]_vars => CallsCloseIn
<1> SUFFICES ASSUME Inductive, AllAttended, [Next]_vars, NEW c \in Calls, Open(call[c])
             PROVE  /\ StepsToAnswer(c)' <= StepsToAnswer(c)
                    /\ CallProgress(c) => StepsToAnswer(c)' < StepsToAnswer(c)
  BY DEF CallsCloseIn
<1>s. Sound(call[c]) /\ Attended(c) /\ CallsSound
  BY DEF Inductive, CallsSound, AllAttended
<1>r. StepsToAnswer(c) \in 1..4 /\ StepsToAnswer(c)' \in 0..4
  BY AnswerDistance
<1>1. ASSUME CallProgress(c) PROVE StepsToAnswer(c)' < StepsToAnswer(c)
  BY <1>1, <1>s, ProgressKinds, Closer
<1>2. ASSUME role' = role, call'[c].stage = call[c].stage, call'[c].at = call[c].at,
             call'[c].remote = call[c].remote,
             call'[c].yes = call[c].yes, call'[c].no = call[c].no
      PROVE  StepsToAnswer(c)' <= StepsToAnswer(c)
  <2>1. StepsToAnswer(c)' = StepsToAnswer(c)
    BY <1>2 DEF StepsToAnswer, Owed
  <2> QED
    BY <1>r, <2>1
<1>3. CASE LifeStep
  <2>1. call'[c] = Affected(call[c]) /\ role' = role
    BY <1>3, RoleKept DEF LifeStep
  <2>2. CASE phase'[call[c].at] \notin Running
    <3>1. ~Open(call'[c])
      BY <1>s, <2>1, <2>2 DEF Affected, Closed, Open, Sound, Calling
    <3>2. StepsToAnswer(c)' = 0
      BY <3>1, AnswerDistance
    <3> QED
      BY <1>1, <1>r, <3>2
  <2>3. CASE phase'[call[c].at] \in Running
    BY <1>1, <1>2, <1>s, <2>1, <2>3 DEF Affected, Sound, Calling
  <2> QED
    BY <2>2, <2>3
<1>4. ASSUME NEW e \in Calls, CallStep(e), ~HitExpires(e)
      PROVE  StepsToAnswer(c)' <= StepsToAnswer(c)
  <2>1. PICK n : Comes(e, n) \/ (\E d \in Deps : Settles(e, n, d)) \/ GoesOn(e, n) \/ Ends(e, n)
    BY <1>4, <1>s, StepKinds DEF CallKinds
  <2>2. CASE c # e
    <3>1. call'[c] = call[c] /\ role' = role
      BY <2>1, <2>2 DEF Comes, Settles, GoesOn, Ends, Moved, lifeVars
    <3> QED
      BY <1>2, <3>1
  <2>3. CASE c = e
    <3>1. ~Comes(c, n)
      BY DEF Comes, Open
    <3>2. StepsToAnswer(c)' < StepsToAnswer(c)
      BY <1>s, <2>1, <2>3, <3>1, Closer
    <3> QED
      BY <1>r, <3>2
  <2> QED
    BY <2>2, <2>3
<1>5. ASSUME role' = role, call' = call PROVE StepsToAnswer(c)' <= StepsToAnswer(c)
  BY <1>2, <1>5
<1>6. StepsToAnswer(c)' <= StepsToAnswer(c)
  BY <1>3, <1>4, <1>5 DEF Next, HitExpires, vars, lifeVars, callVars
<1> QED
  BY <1>1, <1>6

\* The safety half of Answered, for any number of calls and processes: an open
\* call is never without somebody who owes it a step, and at most four of these
\* steps separate it from its answer.
THEOREM CallsAreAttended == Spec => []AllAttended /\ [][CallsCloseIn]_vars
<1>1. Init => AllAttended
  BY DEF Init, Unsent, AllAttended, Attended, Open
<1> QED
  BY <1>1, AttendedNext, CallsCloseInNext, AlwaysInductive, PTL DEF Spec

===============================================================================
