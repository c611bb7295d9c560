------------------------- MODULE QueueConsumerProofs -------------------------
(***************************************************************************)
(* Proofs about QueueConsumer for every set of messages and processes and  *)
(* every value of the limits.  The inductive invariant IInv joins the      *)
(* properties to what they rest on: channel numbers are never reused, and  *)
(* the broker holds one delivery of a message, on an open channel.         *)
(***************************************************************************)
EXTENDS QueueConsumer, FiniteSetTheorems, TLAPS

\* A channel number is at most the last one its process opened.
OldChannels ==
    /\ \A c \in open : c.no <= gen[c.proc]
    /\ \A d \in running \cup backoff : d.chan.no <= gen[d.chan.proc]

\* The broker's bookkeeping: what is unacknowledged is out, on an open
\* channel, and one delivery of a message is outstanding at a time.
OneHolder ==
    /\ \A d \in unacked : d.chan \in open /\ place[d.msg] = "out"
    /\ \A d1, d2 \in unacked : d1.msg = d2.msg => d1 = d2

\* A delivery has one callback: its handler, or the timer of its retry.
OneCallback == running \cap backoff = {}

\* Only a published message has a handler or a timer.
HandledWerePublished == \A d \in running \cup backoff : place[d.msg] # "unsent"

IInv ==
    /\ TypeOK
    /\ OldChannels
    /\ OneHolder
    /\ OneCallback
    /\ HandledWerePublished
    /\ HandlerHoldsDelivery
    /\ NoStuckDelivery
    /\ AckedOnlyAfterCompletion

-------------------------------------------------------------------------------
(* Routing *)

\* Publishing with the keys of the gateway reaches the queue of that key.
LEMMA PublishRoutes ==
    ASSUME NEW m \in Msgs
    PROVE  Route("notifications.direct", RoutingKey(m)) \in {"email.queue", "push.queue"}
<1>1. \E b \in Bindings : b.exchange = "notifications.direct" /\ b.key = RoutingKey(m)
  BY DEF Bindings, RoutingKey
<1> DEFINE B(b) == b \in Bindings /\ b.exchange = "notifications.direct" /\ b.key = RoutingKey(m)
<1>2. \A b : B(b) => b.queue \in {"email.queue", "push.queue"}
  BY DEF Bindings
<1>3. Route("notifications.direct", RoutingKey(m))
        = (CHOOSE b \in Bindings :
              b.exchange = "notifications.direct" /\ b.key = RoutingKey(m)).queue
  BY <1>1 DEF Route
<1> QED
  BY <1>1, <1>2, <1>3

\* A dead letter ends in failed.queue or nowhere.
LEMMA DeadLetterRoutes ==
    ASSUME NEW m \in Msgs
    PROVE  DeadLetterPlace(m) \in {"failed.queue", "dropped"}
<1>1. CASE \E b \in Bindings : b.exchange = "notifications.dlx" /\ b.key = RoutingKey(m)
  <2>1. DeadLetterPlace(m)
          = (CHOOSE b \in Bindings :
                b.exchange = "notifications.dlx" /\ b.key = RoutingKey(m)).queue
    BY <1>1 DEF DeadLetterPlace, Route
  <2>2. \A b \in Bindings : b.exchange = "notifications.dlx" => b.queue = "failed.queue"
    BY DEF Bindings
  <2> QED
    BY <1>1, <2>1, <2>2
<1>2. CASE ~ \E b \in Bindings : b.exchange = "notifications.dlx" /\ b.key = RoutingKey(m)
  BY <1>2 DEF DeadLetterPlace, Route
<1> QED
  BY <1>1, <1>2
-------------------------------------------------------------------------------
(* The inductive invariant *)

\* The steps that change neither the broker's nor the processes' deliveries
\* and open no channel.
LEMMA QuietStep ==
    ASSUME IInv,
           UNCHANGED <<open, unacked, running, backoff>>, TypeOK',
           \A p \in Procs : gen'[p] = gen[p] /\ (live'[p] => live[p]),
           \A d \in unacked : place'[d.msg] = place[d.msg],
           \A m \in Msgs : place'[m] = "acked" => place[m] = "acked",
           \A m \in Msgs : place'[m] = "unsent" => place[m] = "unsent",
           completed' = completed
    PROVE  IInv'
<1> USE DEF IInv
<1>1. \A d \in unacked \cup running \cup backoff : d.msg \in Msgs /\ d.chan.proc \in Procs
  BY DEF TypeOK, Deliveries, Channels
<1>2. \A c \in open : c.proc \in Procs
  BY DEF TypeOK, Channels
<1>3. OldChannels'
  BY <1>1, <1>2 DEF OldChannels
<1>4. OneHolder'
  BY <1>1 DEF OneHolder
<1>5. HandlerHoldsDelivery'
  BY DEF HandlerHoldsDelivery
<1>6. NoStuckDelivery'
  BY <1>1 DEF NoStuckDelivery, ClientUses
<1>7. AckedOnlyAfterCompletion'
  BY DEF AckedOnlyAfterCompletion
<1>8. OneCallback'
  BY DEF OneCallback
<1>9. HandledWerePublished'
  BY <1>1 DEF HandledWerePublished
<1> QED
  BY <1>3, <1>4, <1>5, <1>6, <1>7, <1>8, <1>9

\* A handler or timer d ends, and its delivery with it: settled if the
\* process still uses the channel, otherwise left to the broker.
LEMMA EndOfCallback ==
    ASSUME IInv, NEW d \in running \cup backoff, NEW to \in Queues \cup {"acked", "dropped"},
           TypeOK',
           running' = running \ {d}, backoff' = backoff \ {d},
           UNCHANGED <<open, live, gen>>, completed \subseteq completed',
           to = "acked" => d.msg \in completed',
           IF ClientUses(d.chan) THEN Settle(d, to) ELSE UNCHANGED <<unacked, place>>
    PROVE  IInv'
<1> USE DEF IInv
<1>1. d.msg \in Msgs
  BY DEF TypeOK, Deliveries
<1>h. \A e \in running \cup backoff : e.msg \in Msgs
  BY DEF TypeOK, Deliveries
<1>2. CASE ClientUses(d.chan) /\ d \in unacked
  <2>1. unacked' = unacked \ {d} /\ place' = [place EXCEPT ![d.msg] = to]
    BY <1>2 DEF Settle
  <2>2. OldChannels'
    BY DEF OldChannels
  <2>3. OneHolder'
    <3>1. \A e \in unacked' : e.msg # d.msg /\ e.msg \in Msgs
      BY <1>2, <2>1 DEF OneHolder, TypeOK, Deliveries
    <3> QED
      BY <2>1, <3>1 DEF OneHolder, TypeOK
  <2>4. HandlerHoldsDelivery'
    BY <2>1 DEF HandlerHoldsDelivery
  <2>5. NoStuckDelivery'
    BY <2>1 DEF NoStuckDelivery, ClientUses
  <2>6. AckedOnlyAfterCompletion'
    BY <1>1, <2>1 DEF AckedOnlyAfterCompletion, TypeOK
  <2>7. OneCallback'
    BY DEF OneCallback
  <2>8. HandledWerePublished'
    BY <1>h, <2>1 DEF HandledWerePublished, TypeOK, Queues
  <2> QED
    BY <2>2, <2>3, <2>4, <2>5, <2>6, <2>7, <2>8
<1>3. CASE ~(ClientUses(d.chan) /\ d \in unacked)
  <2>1. UNCHANGED <<unacked, place>>
    BY <1>3 DEF Settle
  <2>2. OldChannels'
    BY DEF OldChannels
  <2>3. OneHolder'
    BY <2>1 DEF OneHolder
  <2>4. HandlerHoldsDelivery'
    BY <2>1 DEF HandlerHoldsDelivery
  <2>5. NoStuckDelivery'
    BY <1>3, <2>1 DEF NoStuckDelivery, ClientUses
  <2>6. AckedOnlyAfterCompletion'
    BY <2>1 DEF AckedOnlyAfterCompletion
  <2>7. OneCallback'
    BY DEF OneCallback
  <2>8. HandledWerePublished'
    BY <1>h, <2>1 DEF HandledWerePublished, TypeOK, Queues
  <2> QED
    BY <2>2, <2>3, <2>4, <2>5, <2>6, <2>7, <2>8
<1> QED
  BY <1>2, <1>3

\* The catch block keeps the invariant, whichever branch it takes.
LEMMA ErrorPath ==
    ASSUME IInv, NEW d \in running, TypeOK',
           running' = running \ {d}, OnError(d),
           UNCHANGED <<open, live, gen>>, completed \subseteq completed'
    PROVE  IInv'
<1>1. d \in Deliveries /\ d \notin backoff /\ d.msg \in Msgs
  BY DEF IInv, TypeOK, OneCallback, Deliveries
<1>2. CASE RetryHeader(d.msg) + 1 < MaxRetries
  <2>1. backoff' = backoff \cup {d} /\ UNCHANGED <<unacked, place>>
    BY <1>2 DEF OnError
  <2>2. OldChannels' /\ OneHolder' /\ OneCallback' /\ HandledWerePublished'
    BY <2>1, <1>1 DEF IInv, OldChannels, OneHolder, OneCallback, HandledWerePublished
  <2>3. HandlerHoldsDelivery' /\ NoStuckDelivery'
    BY <2>1 DEF IInv, HandlerHoldsDelivery, NoStuckDelivery, ClientUses
  <2>4. AckedOnlyAfterCompletion'
    BY <2>1 DEF IInv, AckedOnlyAfterCompletion
  <2> QED
    BY <2>2, <2>3, <2>4 DEF IInv
<1>3. CASE ~(RetryHeader(d.msg) + 1 < MaxRetries)
  <2>1. backoff' = backoff \ {d}
    BY <1>1, <1>3 DEF OnError
  <2>2. IF ClientUses(d.chan) THEN Settle(d, DeadLetterPlace(d.msg))
                              ELSE UNCHANGED <<unacked, place>>
    BY <1>3 DEF OnError
  <2>3. DeadLetterPlace(d.msg) \in Queues \cup {"acked", "dropped"}
        /\ DeadLetterPlace(d.msg) # "acked"
    BY <1>1, DeadLetterRoutes DEF Queues
  <2> QED
    BY <2>1, <2>2, <2>3, EndOfCallback
<1> QED
  BY <1>2, <1>3

\* The type invariant is inductive by itself.
LEMMA TypeOKNext == TypeOK /\ [Next]_vars => TypeOK'
<1> SUFFICES ASSUME TypeOK, [Next]_vars PROVE TypeOK'
  OBVIOUS
<1> USE LimitsAssumption DEF TypeOK, Places, Queues
<1>1. ASSUME NEW p \in Procs, Connect(p) PROVE TypeOK'
  BY <1>1 DEF Connect, Channels, historyVars
<1>2. ASSUME NEW p \in Procs, ClientLoses(p) PROVE TypeOK'
  BY <1>2 DEF ClientLoses, FaultIf, brokerVars
<1>3. ASSUME NEW p \in Procs, Exit(p) PROVE TypeOK'
  BY <1>3 DEF Exit, Die, brokerVars
<1>4. ASSUME NEW p \in Procs, Crash(p) PROVE TypeOK'
  BY <1>4 DEF Crash, Die, FaultIf, brokerVars
<1>5. ASSUME NEW p \in Procs, Restart(p) PROVE TypeOK'
  BY <1>5 DEF Restart, brokerVars, historyVars
<1>6. ASSUME NEW m \in Msgs, Publish(m) PROVE TypeOK'
  BY <1>6, PublishRoutes DEF Publish, processVars, historyVars
<1>7. ASSUME NEW m \in Msgs, Expire(m) PROVE TypeOK'
  BY <1>7, DeadLetterRoutes DEF Expire, processVars, historyVars
<1>8. ASSUME NEW c \in open, BrokerCloses(c) PROVE TypeOK'
  BY <1>8 DEF BrokerCloses, FaultIf, processVars
<1>9. ASSUME NEW m \in Msgs, NEW c \in open, Deliver(m, c) PROVE TypeOK'
  BY <1>9 DEF Deliver, Deliveries, historyVars
<1>10. ASSUME NEW d \in Deliveries PROVE d.msg \in Msgs /\ d.chan.proc \in Procs
  BY DEF Deliveries, Channels
<1>11. ASSUME NEW d \in running, HandlerSucceeds(d) PROVE TypeOK'
  BY <1>10, <1>11, DeadLetterRoutes DEF HandlerSucceeds, Settle, OnError
<1>12. ASSUME NEW d \in running, HandlerFails(d) PROVE TypeOK'
  BY <1>10, <1>12, DeadLetterRoutes DEF HandlerFails, Settle, OnError
<1>13. ASSUME NEW d \in backoff, TimerFires(d) PROVE TypeOK'
  BY <1>10, <1>13 DEF TimerFires, Settle, historyVars
<1>14. CASE UNCHANGED vars
  BY <1>14 DEF vars, brokerVars, processVars, historyVars
<1> QED
  BY <1>1, <1>2, <1>3, <1>4, <1>5, <1>6, <1>7, <1>8, <1>9, <1>11, <1>12, <1>13, <1>14
     DEF Next

LEMMA IInvNext == IInv /\ [Next]_vars => IInv'
<1> SUFFICES ASSUME IInv, [Next]_vars PROVE IInv'
  OBVIOUS
<1>t. TypeOK /\ TypeOK'
  BY TypeOKNext DEF IInv
<1>d. \A d \in unacked \cup running \cup backoff :
         d \in Deliveries /\ d.msg \in Msgs /\ d.chan \in Channels /\ d.chan.proc \in Procs
  BY <1>t DEF TypeOK, Deliveries, Channels
<1>1. ASSUME NEW p \in Procs, Connect(p) PROVE IInv'
  <2> DEFINE new == [proc |-> p, no |-> gen[p] + 1]
  <2>1. gen' = [gen EXCEPT ![p] = gen[p] + 1] /\ live' = [live EXCEPT ![p] = TRUE]
        /\ open' = open \cup {new}
        /\ UNCHANGED <<place, unacked, running, backoff, completed>> /\ ~live[p]
    BY <1>1 DEF Connect, historyVars
  <2>2. \A d \in unacked \cup running \cup backoff : d.chan # new
    <3>1. \A d \in unacked \cup running \cup backoff : d.chan.no <= gen[d.chan.proc]
      BY DEF IInv, OldChannels, OneHolder
    <3> QED
      BY <1>t, <1>d, <3>1 DEF TypeOK, Channels
  <2>3. OldChannels'
    BY <1>t, <1>d, <2>1 DEF IInv, OldChannels, TypeOK, Channels
  <2>4. OneHolder' /\ OneCallback' /\ HandledWerePublished'
    BY <2>1 DEF IInv, OneHolder, OneCallback, HandledWerePublished
  <2>5. HandlerHoldsDelivery'
    BY <2>1, <2>2 DEF IInv, HandlerHoldsDelivery
  <2>6. NoStuckDelivery'
    <3> SUFFICES ASSUME NEW d \in unacked, ClientUses(d.chan)' PROVE d \in running \cup backoff
      BY <2>1 DEF NoStuckDelivery
    <3>1. d.chan.proc # p
      BY <1>t, <1>d, <2>1, <2>2 DEF ClientUses, TypeOK, Channels
    <3> QED
      BY <1>t, <1>d, <2>1, <3>1 DEF IInv, NoStuckDelivery, ClientUses, TypeOK
  <2>7. AckedOnlyAfterCompletion'
    BY <2>1 DEF IInv, AckedOnlyAfterCompletion
  <2> QED
    BY <1>t, <2>3, <2>4, <2>5, <2>6, <2>7 DEF IInv
<1>2. ASSUME NEW p \in Procs, ClientLoses(p) PROVE IInv'
  BY <1>t, <1>2, QuietStep DEF ClientLoses, brokerVars, TypeOK
<1>3. ASSUME NEW p \in Procs, Die(p) PROVE IInv'
  <2>1. /\ running' = {d \in running : d.chan.proc # p}
        /\ backoff' = {d \in backoff : d.chan.proc # p}
        /\ live' = [live EXCEPT ![p] = FALSE]
        /\ UNCHANGED <<place, open, unacked, gen, completed>>
    BY <1>3 DEF Die, brokerVars
  <2>2. OldChannels' /\ OneHolder' /\ OneCallback' /\ HandlerHoldsDelivery'
        /\ HandledWerePublished'
    BY <2>1 DEF IInv, OldChannels, OneHolder, OneCallback, HandlerHoldsDelivery,
                HandledWerePublished
  <2>3. NoStuckDelivery'
    BY <1>t, <1>d, <2>1 DEF IInv, NoStuckDelivery, ClientUses, TypeOK
  <2>4. AckedOnlyAfterCompletion'
    BY <2>1 DEF IInv, AckedOnlyAfterCompletion
  <2> QED
    BY <1>t, <2>2, <2>3, <2>4 DEF IInv
<1>4. ASSUME NEW p \in Procs, Exit(p) \/ Crash(p) PROVE IInv'
  BY <1>3, <1>4 DEF Exit, Crash
<1>5. ASSUME NEW p \in Procs, Restart(p) PROVE IInv'
  BY <1>t, <1>5, QuietStep DEF Restart, brokerVars, historyVars
<1>6. ASSUME NEW m \in Msgs, Publish(m) \/ Expire(m) PROVE IInv'
  <2>1. PICK to \in Queues \cup {"dropped"} : place' = [place EXCEPT ![m] = to]
    BY <1>6, PublishRoutes, DeadLetterRoutes DEF Publish, Expire, Queues
  <2>2. place[m] # "out"
        /\ UNCHANGED <<open, unacked, running, backoff, gen, live, completed>>
    BY <1>6 DEF Publish, Expire, processVars, historyVars
  <2>3. \A d \in unacked : place'[d.msg] = place[d.msg]
    BY <1>t, <1>d, <2>1, <2>2 DEF IInv, OneHolder, TypeOK
  <2>4. \A n \in Msgs : place'[n] = "acked" => place[n] = "acked"
    BY <1>t, <2>1 DEF TypeOK, Queues
  <2>5. \A n \in Msgs : place'[n] = "unsent" => place[n] = "unsent"
    BY <1>t, <2>1 DEF TypeOK, Queues
  <2> QED
    BY <1>t, <2>2, <2>3, <2>4, <2>5, QuietStep
<1>7. ASSUME NEW c \in open, BrokerCloses(c) PROVE IInv'
  <2>1. /\ open' = open \ {c} /\ unacked' = {d \in unacked : d.chan # c}
        /\ UNCHANGED <<running, backoff, live, gen, completed>>
    BY <1>7 DEF BrokerCloses, OnChannel, processVars
  <2>2. \A m \in Msgs : place'[m] = place[m] \/ place'[m] = "email.queue"
    BY <1>7 DEF BrokerCloses
  <2>3. \A d \in unacked' : place'[d.msg] = "out"
    <3> SUFFICES ASSUME NEW d \in unacked' PROVE place'[d.msg] = "out"
      OBVIOUS
    <3>1. \A e \in OnChannel(c) : e.msg # d.msg
      BY <2>1 DEF IInv, OneHolder, OnChannel
    <3> QED
      BY <1>7, <1>d, <2>1, <3>1 DEF BrokerCloses, IInv, OneHolder
  <2>4. OldChannels' /\ OneCallback' /\ HandlerHoldsDelivery'
    BY <2>1 DEF IInv, OldChannels, OneCallback, HandlerHoldsDelivery
  <2>5. OneHolder' /\ NoStuckDelivery'
    BY <2>1, <2>3 DEF IInv, OneHolder, NoStuckDelivery, ClientUses
  <2>6. AckedOnlyAfterCompletion'
    BY <2>1, <2>2 DEF IInv, AckedOnlyAfterCompletion
  <2>7. HandledWerePublished'
    BY <1>d, <2>1, <2>2 DEF IInv, HandledWerePublished
  <2> QED
    BY <1>t, <2>4, <2>5, <2>6, <2>7 DEF IInv
<1>8. ASSUME NEW m \in Msgs, NEW c \in open, Deliver(m, c) PROVE IInv'
  <2> DEFINE d == [msg |-> m, chan |-> c]
  <2>1. /\ place[m] = "email.queue" /\ place' = [place EXCEPT ![m] = "out"]
        /\ unacked' = unacked \cup {d}
        /\ running' = IF ClientUses(c) THEN running \cup {d} ELSE running
        /\ UNCHANGED <<open, backoff, live, gen, completed>>
    BY <1>8 DEF Deliver, historyVars
  <2>2. \A e \in unacked : e.msg # m
    BY <2>1 DEF IInv, OneHolder
  <2>3. OldChannels'
    BY <2>1 DEF IInv, OldChannels
  <2>4. OneHolder'
    BY <1>t, <1>d, <2>1, <2>2 DEF IInv, OneHolder, TypeOK
  <2>5. OneCallback'
    BY <2>1, <2>2 DEF IInv, OneCallback, HandlerHoldsDelivery
  <2>6. HandlerHoldsDelivery'
    BY <2>1 DEF IInv, HandlerHoldsDelivery
  <2>7. NoStuckDelivery'
    BY <2>1 DEF IInv, NoStuckDelivery, ClientUses
  <2>8. AckedOnlyAfterCompletion'
    BY <1>t, <2>1 DEF IInv, AckedOnlyAfterCompletion, TypeOK
  <2>9. HandledWerePublished'
    BY <1>t, <1>d, <2>1 DEF IInv, HandledWerePublished, TypeOK
  <2> QED
    BY <1>t, <2>3, <2>4, <2>5, <2>6, <2>7, <2>8, <2>9 DEF IInv
<1>9. ASSUME NEW d \in running, HandlerSucceeds(d) PROVE IInv'
  <2>1. /\ running' = running \ {d} /\ UNCHANGED <<open, live, gen>>
        /\ completed' = completed \cup {d.msg}
    BY <1>9 DEF HandlerSucceeds
  <2>2. CASE ClientUses(d.chan)
    <3>1. backoff' = backoff \ {d} /\ Settle(d, "acked")
      BY <1>9, <2>2 DEF HandlerSucceeds, IInv, OneCallback
    <3> QED
      BY <1>t, <2>1, <2>2, <3>1, EndOfCallback
  <2>3. CASE ~ClientUses(d.chan)
    BY <1>t, <1>9, <2>1, <2>3, ErrorPath DEF HandlerSucceeds
  <2> QED
    BY <2>2, <2>3
<1>10. ASSUME NEW d \in running, HandlerFails(d) PROVE IInv'
  BY <1>t, <1>10, ErrorPath DEF HandlerFails
<1>11. ASSUME NEW d \in backoff, TimerFires(d) PROVE IInv'
  <2>1. /\ running' = running \ {d} /\ backoff' = backoff \ {d}
        /\ UNCHANGED <<open, live, gen, completed>>
        /\ IF ClientUses(d.chan) THEN Settle(d, "email.queue") ELSE UNCHANGED <<unacked, place>>
    BY <1>11 DEF TimerFires, IInv, OneCallback, historyVars
  <2> QED
    BY <1>t, <2>1, EndOfCallback DEF Queues
<1>12. CASE UNCHANGED vars
  BY <1>t, <1>12, QuietStep DEF vars, brokerVars, processVars, historyVars
<1> QED
  BY <1>1, <1>2, <1>4, <1>5, <1>6, <1>7, <1>8, <1>9, <1>10, <1>11, <1>12 DEF Next

-------------------------------------------------------------------------------
(* Theorems *)

LEMMA InitIInv == Init => IInv
<1> SUFFICES ASSUME Init PROVE IInv
  OBVIOUS
<1>1. TypeOK
  BY DEF Init, TypeOK, Places
<1>2. OldChannels /\ OneHolder /\ OneCallback /\ HandledWerePublished
  BY DEF Init, OldChannels, OneHolder, OneCallback, HandledWerePublished
<1>3. HandlerHoldsDelivery /\ NoStuckDelivery /\ AckedOnlyAfterCompletion
  BY DEF Init, HandlerHoldsDelivery, NoStuckDelivery, AckedOnlyAfterCompletion
<1> QED
  BY <1>1, <1>2, <1>3 DEF IInv

THEOREM Invariance == Spec => []IInv
<1> QED
  BY InitIInv, IInvNext, PTL DEF Spec

\* The model is type correct for every instance.
THEOREM TypeCorrect == Spec => []TypeOK
<1>1. IInv => TypeOK
  BY DEF IInv
<1> QED
  BY <1>1, Invariance, PTL

\* The consume callback of queue.service.ts: whatever the order of crashes,
\* reconnects, acks and timers, a handler on a channel the broker has open
\* holds the message's only outstanding delivery.
THEOREM HandlersHold == Spec => []HandlerHoldsDelivery
<1>1. IInv => HandlerHoldsDelivery
  BY DEF IInv
<1> QED
  BY <1>1, Invariance, PTL

\* No delivery over a usable channel is ever without a handler or a timer.
THEOREM NeverStuck == Spec => []NoStuckDelivery
<1>1. IInv => NoStuckDelivery
  BY DEF IInv
<1> QED
  BY <1>1, Invariance, PTL

\* An acknowledged message was handled to completion.
THEOREM AckedCompleted == Spec => []AckedOnlyAfterCompletion
<1>1. IInv => AckedOnlyAfterCompletion
  BY DEF IInv
<1> QED
  BY <1>1, Invariance, PTL

\* The action of OnlyHolderSettles.
SettledByHolder ==
    \A d \in unacked : d \notin unacked' =>
        \/ d.chan \notin open'
        \/ d \in (running \cup backoff) /\ d \notin (running' \cup backoff')

LEMMA SettledByHolderNext == IInv /\ [Next]_vars => SettledByHolder
<1> SUFFICES ASSUME IInv, [Next]_vars, NEW d \in unacked, d \notin unacked'
             PROVE  \/ d.chan \notin open'
                    \/ d \in (running \cup backoff) /\ d \notin (running' \cup backoff')
  BY DEF SettledByHolder
<1>1. CASE UNCHANGED unacked
  BY <1>1
<1>2. CASE \E c \in open : BrokerCloses(c)
  BY <1>2 DEF BrokerCloses, OnChannel
<1>3. CASE \E m \in Msgs, c \in open : Deliver(m, c)
  BY <1>3 DEF Deliver
<1>4. CASE \E e \in running : HandlerSucceeds(e) \/ HandlerFails(e)
  <2>1. PICK e \in running : HandlerSucceeds(e) \/ HandlerFails(e)
    BY <1>4
  <2>2. d = e /\ running' = running \ {e} /\ UNCHANGED backoff
    BY <2>1 DEF HandlerSucceeds, HandlerFails, OnError, Settle
  <2> QED
    BY <2>2 DEF IInv, OneCallback
<1>5. CASE \E e \in backoff : TimerFires(e)
  <2>1. PICK e \in backoff : TimerFires(e)
    BY <1>5
  <2>2. d = e /\ backoff' = backoff \ {e} /\ UNCHANGED running
    BY <2>1 DEF TimerFires, Settle
  <2> QED
    BY <2>2 DEF IInv, OneCallback
<1> QED
  BY <1>1, <1>2, <1>3, <1>4, <1>5
     DEF Next, Connect, ClientLoses, Exit, Crash, Die, Restart, Publish, Expire,
         brokerVars, vars

\* Only the handler or timer that holds a delivery settles it, or the closing
\* of its channel: no left-over callback settles a redelivery.
THEOREM HolderSettles == Spec => OnlyHolderSettles
<1>1. Spec => [][SettledByHolder]_vars
  BY Invariance, SettledByHolderNext, PTL DEF Spec
<1> QED
  BY <1>1 DEF OnlyHolderSettles, SettledByHolder

-------------------------------------------------------------------------------
(* No message is forgotten *)

\* A message that has left its queue unsettled is in the broker's books.
OutIsHeld == \A m \in Msgs : place[m] = "out" => \E d \in unacked : d.msg = m

LEMMA OutIsHeldNext == IInv /\ OutIsHeld /\ [Next]_vars => OutIsHeld'
<1> SUFFICES ASSUME IInv, OutIsHeld, [Next]_vars PROVE OutIsHeld'
  OBVIOUS
<1>t. /\ place \in [Msgs -> Places]
      /\ \A d \in running \cup backoff \cup unacked : d.msg \in Msgs
  BY DEF IInv, TypeOK, Deliveries
<1>1. ASSUME NEW n \in Msgs, Publish(n) \/ Expire(n) PROVE OutIsHeld'
  <2>1. PICK to \in Queues \cup {"dropped"} : place' = [place EXCEPT ![n] = to]
    BY <1>1, PublishRoutes, DeadLetterRoutes DEF Publish, Expire, Queues
  <2>2. \A m \in Msgs : place'[m] = "out" => place[m] = "out"
    BY <1>t, <2>1 DEF Queues
  <2> QED
    BY <1>1, <2>2 DEF OutIsHeld, Publish, Expire
<1>2. ASSUME NEW c \in open, BrokerCloses(c) PROVE OutIsHeld'
  BY <1>2 DEF BrokerCloses, OutIsHeld, OnChannel
<1>3. ASSUME NEW n \in Msgs, NEW c \in open, Deliver(n, c) PROVE OutIsHeld'
  <2> DEFINE e == [msg |-> n, chan |-> c]
  <2>1. place' = [place EXCEPT ![n] = "out"] /\ unacked' = unacked \cup {e} /\ e.msg = n
    BY <1>3 DEF Deliver
  <2>2. \A m \in Msgs : place'[m] = "out" => m = n \/ place[m] = "out"
    BY <1>t, <2>1
  <2> HIDE DEF e
  <2> QED
    BY <2>1, <2>2 DEF OutIsHeld
<1>4. ASSUME NEW d \in running \cup backoff, NEW to \in Queues \cup {"acked", "dropped"},
             Settle(d, to) \/ UNCHANGED <<unacked, place>>
      PROVE  OutIsHeld'
  <2>1. CASE UNCHANGED <<unacked, place>>
    BY <2>1 DEF OutIsHeld
  <2>2. CASE unacked' = unacked \ {d} /\ place' = [place EXCEPT ![d.msg] = to]
    <3>1. \A m \in Msgs : place'[m] = "out" => m # d.msg /\ place[m] = "out"
      BY <1>t, <2>2 DEF Queues
    <3> QED
      BY <2>2, <3>1 DEF OutIsHeld
  <2> QED
    BY <1>4, <2>1, <2>2 DEF Settle
<1>5. ASSUME NEW d \in running, HandlerSucceeds(d) \/ HandlerFails(d) PROVE OutIsHeld'
  <2>1. DeadLetterPlace(d.msg) \in Queues \cup {"acked", "dropped"}
    BY <1>t, DeadLetterRoutes DEF Queues
  <2>2. \/ Settle(d, "acked") \/ Settle(d, DeadLetterPlace(d.msg))
        \/ UNCHANGED <<unacked, place>>
    BY <1>5 DEF HandlerSucceeds, HandlerFails, OnError
  <2> QED
    BY <1>4, <2>1, <2>2
<1>6. ASSUME NEW d \in backoff, TimerFires(d) PROVE OutIsHeld'
  BY <1>4, <1>6 DEF TimerFires, Queues
<1>7. CASE UNCHANGED <<place, unacked>>
  BY <1>7 DEF OutIsHeld
<1> QED
  BY <1>1, <1>2, <1>3, <1>5, <1>6, <1>7
     DEF Next, Connect, ClientLoses, Exit, Crash, Die, Restart, brokerVars, vars

\* A message that is out has somebody who will bring it back: a handler or a
\* timer that settles it, or a channel its client has given up, which the
\* broker closes.  Nothing else is needed of a crash, a lost connection, an
\* unsettled timer or an exit; it is the safety half of EmailSettled.
NeverForgotten ==
    \A m \in Msgs : place[m] = "out" =>
        \E d \in unacked :
            /\ d.msg = m
            /\ \/ d \in running \cup backoff /\ ClientUses(d.chan)
               \/ d.chan \in open /\ ~ClientUses(d.chan)

THEOREM NobodyForgets == Spec => []NeverForgotten
<1>1. Init => OutIsHeld
  BY DEF Init, OutIsHeld
<1>2. IInv /\ OutIsHeld => NeverForgotten
  BY DEF IInv, OneHolder, NoStuckDelivery, OutIsHeld, NeverForgotten
<1> QED
  BY <1>1, <1>2, OutIsHeldNext, Invariance, PTL DEF Spec

-------------------------------------------------------------------------------
(* What faults can multiply *)

\* S is finite with at most n members.
AtMost(S, n) == IsFiniteSet(S) /\ Cardinality(S) <= n

\* What one channel occupies: at the broker, in the process, or both.
Held(c) == {d \in unacked \cup running \cup backoff : d.chan = c}

\* Handlers and timers left over from a connection one side has given up.
StaleCallbacks == {d \in running \cup backoff : ~Healthy(d.chan)}
StaleChannels  == {d.chan : d \in StaleCallbacks}

\* A channel never has more deliveries, in whatever view, than its prefetch,
\* and a channel with left-over callbacks was broken by a fault of its own.
Limits ==
    /\ \A c \in Channels : AtMost(Held(c), Prefetch)
    /\ AtMost(StaleChannels, faults)
    /\ AtMost(StaleCallbacks, Prefetch * faults)

LEMMA AtMostSubset ==
    ASSUME NEW T, NEW n \in Nat, AtMost(T, n), NEW S, S \subseteq T, NEW k \in Nat, n <= k
    PROVE  AtMost(S, k)
<1>1. IsFiniteSet(S) /\ Cardinality(S) <= Cardinality(T)
  BY FS_Subset DEF AtMost
<1>2. Cardinality(S) \in Nat /\ Cardinality(T) \in Nat
  BY <1>1, FS_CardinalityType DEF AtMost
<1> QED
  BY <1>1, <1>2 DEF AtMost

LEMMA AtMostUnion ==
    ASSUME NEW S, NEW T, NEW m \in Nat, NEW n \in Nat, AtMost(S, m), AtMost(T, n)
    PROVE  AtMost(S \cup T, m + n)
<1>1. IsFiniteSet(S \cup T)
      /\ Cardinality(S \cup T) = Cardinality(S) + Cardinality(T) - Cardinality(S \cap T)
  BY FS_Union DEF AtMost
<1>2. IsFiniteSet(S \cap T)
  BY FS_Intersection DEF AtMost
<1>3. /\ Cardinality(S) \in Nat /\ Cardinality(T) \in Nat
      /\ Cardinality(S \cap T) \in Nat
  BY <1>2, FS_CardinalityType DEF AtMost
<1> QED
  BY <1>1, <1>3 DEF AtMost

LEMMA AtMostOne == ASSUME NEW x PROVE AtMost({x}, 1)
BY FS_Singleton DEF AtMost

LEMMA Distributes ==
    ASSUME NEW a \in Nat, NEW n \in Nat
    PROVE  a * n \in Nat /\ a * (n + 1) = a * n + a
OBVIOUS

LEMMA TimesMonotone ==
    ASSUME NEW a \in Nat, NEW m \in Nat, NEW n \in Nat, m <= n
    PROVE  a * m <= a * n
<1>1. PICK k \in Nat : n = m + k
  <2>1. n - m \in Nat /\ n = m + (n - m)
    OBVIOUS
  <2> QED
    BY <2>1
<1>2. a * (m + k) = a * m + a * k
  OBVIOUS
<1>3. a * m \in Nat /\ a * k \in Nat
  BY Distributes
<1> QED
  BY <1>1, <1>2, <1>3

\* Prefetch bounds a channel: the broker counts what it has outstanding there,
\* and that is all the process works on while the channel is open.
LEMMA HeldBound ==
    ASSUME IInv, [Next]_vars, NEW c \in Channels, AtMost(Held(c), Prefetch)
    PROVE  AtMost(Held(c)', Prefetch)
<1> USE LimitsAssumption
<1>1. CASE Held(c)' \subseteq Held(c)
  BY <1>1, AtMostSubset
<1>2. ASSUME NEW m \in Msgs, c \in open, Deliver(m, c)
      PROVE  AtMost(Held(c)', Prefetch)
  <2> DEFINE d == [msg |-> m, chan |-> c]
  <2>1. Held(c) = OnChannel(c)
    BY <1>2 DEF Held, OnChannel, IInv, HandlerHoldsDelivery
  <2>2. unacked' = unacked \cup {d} /\ running' \subseteq running \cup {d} /\ backoff' = backoff
    BY <1>2 DEF Deliver
  <2>3. Held(c)' \subseteq Held(c) \cup {d}
    BY <2>2 DEF Held
  <2>4. Cardinality(Held(c)) < Prefetch /\ IsFiniteSet(Held(c))
    BY <1>2, <2>1 DEF Deliver, AtMost
  <2>5. Cardinality(Held(c)) \in Nat
    BY <2>4, FS_CardinalityType
  <2>6. AtMost(Held(c) \cup {d}, Cardinality(Held(c)) + 1)
    <3>1. AtMost(Held(c), Cardinality(Held(c)))
      BY <2>4, <2>5 DEF AtMost
    <3> HIDE DEF d
    <3>2. AtMost({d}, 1)
      BY AtMostOne
    <3> QED
      BY <2>5, <3>1, <3>2, AtMostUnion
  <2> QED
    BY <2>3, <2>4, <2>5, <2>6, AtMostSubset
<1>3. CASE UNCHANGED unacked /\ running' \subseteq running /\ backoff' \subseteq running \cup backoff
  BY <1>1, <1>3 DEF Held
<1>4. CASE \E p \in Procs : Connect(p) \/ ClientLoses(p) \/ Exit(p) \/ Crash(p) \/ Restart(p)
  BY <1>3, <1>4 DEF Connect, ClientLoses, Exit, Crash, Die, Restart, brokerVars
<1>5. CASE \E e \in open : BrokerCloses(e)
  <2>1. unacked' \subseteq unacked /\ UNCHANGED <<running, backoff>>
    BY <1>5 DEF BrokerCloses, processVars
  <2> QED
    BY <1>1, <2>1 DEF Held
<1>6. CASE \E m \in Msgs, e \in open : Deliver(m, e)
  <2>1. PICK m \in Msgs, e \in open : Deliver(m, e)
    BY <1>6
  <2>2. CASE e = c
    BY <1>2, <2>1, <2>2
  <2>3. CASE e # c
    <3>1. Held(c)' \subseteq Held(c)
      BY <2>1, <2>3 DEF Deliver, Held
    <3> QED
      BY <1>1, <3>1
  <2> QED
    BY <2>2, <2>3
<1>7. CASE \E d \in running : HandlerSucceeds(d) \/ HandlerFails(d)
  <2>1. running' \subseteq running /\ backoff' \subseteq running \cup backoff
        /\ unacked' \subseteq unacked
    BY <1>7 DEF HandlerSucceeds, HandlerFails, OnError, Settle
  <2> QED
    BY <1>1, <2>1 DEF Held
<1>8. CASE \E d \in backoff : TimerFires(d)
  <2>1. UNCHANGED running /\ backoff' \subseteq backoff /\ unacked' \subseteq unacked
    BY <1>8 DEF TimerFires, Settle
  <2> QED
    BY <1>1, <2>1 DEF Held
<1>9. CASE \E m \in Msgs : Publish(m) \/ Expire(m)
  BY <1>3, <1>9 DEF Publish, Expire, processVars
<1>10. CASE UNCHANGED vars
  BY <1>3, <1>10 DEF vars, brokerVars, processVars
<1> QED
  BY <1>4, <1>5, <1>6, <1>7, <1>8, <1>9, <1>10 DEF Next

\* Callbacks become stale only with a fault, and then those of one channel.
LEMMA StaleStep ==
    ASSUME IInv, [Next]_vars
    PROVE  /\ faults' \in Nat /\ faults' >= faults
           /\ \/ StaleCallbacks' \subseteq StaleCallbacks
              \/ /\ faults' = faults + 1
                 /\ \E c \in Channels : StaleCallbacks' \subseteq StaleCallbacks \cup Held(c)
<1>t. TypeOK /\ TypeOK'
  BY TypeOKNext DEF IInv
<1>d. \A d \in running \cup backoff : d.chan \in Channels /\ d.chan.proc \in Procs
  BY <1>t DEF TypeOK, Deliveries, Channels
<1>f. faults \in Nat /\ faults' \in Nat
  BY <1>t DEF TypeOK
<1>1. ASSUME NEW p \in Procs, Connect(p)
      PROVE  UNCHANGED faults /\ StaleCallbacks' \subseteq StaleCallbacks
  <2>1. /\ live' = [live EXCEPT ![p] = TRUE] /\ gen' = [gen EXCEPT ![p] = gen[p] + 1]
        /\ open \subseteq open' /\ UNCHANGED <<running, backoff, faults>> /\ ~live[p]
    BY <1>1 DEF Connect, historyVars
  <2>2. \A d \in running \cup backoff : Healthy(d.chan) => Healthy(d.chan)'
    BY <1>t, <1>d, <2>1 DEF Healthy, ClientUses, TypeOK
  <2> QED
    BY <2>1, <2>2 DEF StaleCallbacks
<1>2. ASSUME NEW p \in Procs, ClientLoses(p)
      PROVE  /\ StaleCallbacks' \subseteq StaleCallbacks \cup Held(Chan(p))
             /\ \/ StaleCallbacks' \subseteq StaleCallbacks /\ UNCHANGED faults
                \/ faults' = faults + 1
  <2>1. /\ live' = [live EXCEPT ![p] = FALSE]
        /\ UNCHANGED <<running, backoff, open, gen>>
        /\ IF Chan(p) \in open THEN faults' = faults + 1 ELSE UNCHANGED faults
    BY <1>2 DEF ClientLoses, brokerVars, FaultIf
  <2>2. \A d \in running \cup backoff :
           Healthy(d.chan) => Healthy(d.chan)' \/ (d.chan = Chan(p) /\ Chan(p) \in open)
    BY <1>t, <1>d, <2>1 DEF Healthy, ClientUses, TypeOK, Chan, Channels
  <2> QED
    BY <2>1, <2>2 DEF StaleCallbacks, Held
<1>3. ASSUME NEW c \in open, BrokerCloses(c)
      PROVE  /\ StaleCallbacks' \subseteq StaleCallbacks \cup Held(c)
             /\ \/ StaleCallbacks' \subseteq StaleCallbacks /\ UNCHANGED faults
                \/ faults' = faults + 1
  <2>1. /\ open' = open \ {c} /\ UNCHANGED <<running, backoff, live, gen>>
        /\ IF ClientUses(c) THEN faults' = faults + 1 ELSE UNCHANGED faults
    BY <1>3 DEF BrokerCloses, processVars, FaultIf
  <2>2. \A d \in running \cup backoff :
           Healthy(d.chan) => Healthy(d.chan)' \/ (d.chan = c /\ ClientUses(c))
    BY <2>1 DEF Healthy, ClientUses
  <2> QED
    BY <2>1, <2>2 DEF StaleCallbacks, Held
<1>4. ASSUME NEW p \in Procs, Die(p)
      PROVE  StaleCallbacks' \subseteq StaleCallbacks
  <2>1. /\ running' = {d \in running : d.chan.proc # p}
        /\ backoff' = {d \in backoff : d.chan.proc # p}
        /\ live' = [live EXCEPT ![p] = FALSE] /\ UNCHANGED <<open, gen>>
    BY <1>4 DEF Die, brokerVars
  <2>2. \A d \in running' \cup backoff' : Healthy(d.chan) => Healthy(d.chan)'
    BY <1>t, <1>d, <2>1 DEF Healthy, ClientUses, TypeOK
  <2> QED
    BY <2>1, <2>2 DEF StaleCallbacks
<1>5. ASSUME NEW m \in Msgs, NEW c \in open, Deliver(m, c)
      PROVE  UNCHANGED faults /\ StaleCallbacks' \subseteq StaleCallbacks
  <2>1. /\ running' = IF ClientUses(c) THEN running \cup {[msg |-> m, chan |-> c]} ELSE running
        /\ UNCHANGED <<open, backoff, live, gen, faults>>
    BY <1>5 DEF Deliver, historyVars
  <2> QED
    BY <2>1 DEF StaleCallbacks, Healthy, ClientUses
<1>6. ASSUME UNCHANGED <<open, live, gen>>, running' \subseteq running,
             backoff' \subseteq running \cup backoff
      PROVE  StaleCallbacks' \subseteq StaleCallbacks
  BY <1>6 DEF StaleCallbacks, Healthy, ClientUses
<1>7. ASSUME NEW d \in running, HandlerSucceeds(d) \/ HandlerFails(d)
      PROVE  UNCHANGED faults /\ StaleCallbacks' \subseteq StaleCallbacks
  BY <1>6, <1>7 DEF HandlerSucceeds, HandlerFails, OnError
<1>8. ASSUME NEW d \in backoff, TimerFires(d)
      PROVE  UNCHANGED faults /\ StaleCallbacks' \subseteq StaleCallbacks
  BY <1>6, <1>8 DEF TimerFires, historyVars
<1>9. ASSUME NEW m \in Msgs, Publish(m) \/ Expire(m)
      PROVE  UNCHANGED faults /\ StaleCallbacks' \subseteq StaleCallbacks
  BY <1>6, <1>9 DEF Publish, Expire, processVars, historyVars
<1>10. ASSUME NEW p \in Procs, Restart(p)
       PROVE  UNCHANGED faults /\ StaleCallbacks' \subseteq StaleCallbacks
  BY <1>6, <1>10 DEF Restart, brokerVars, historyVars
<1>11. ASSUME NEW p \in Procs, Exit(p) \/ Crash(p)
       PROVE  faults' >= faults /\ StaleCallbacks' \subseteq StaleCallbacks
  BY <1>f, <1>4, <1>11 DEF Exit, Crash, FaultIf
<1>12. ASSUME UNCHANGED vars
       PROVE  UNCHANGED faults /\ StaleCallbacks' \subseteq StaleCallbacks
  BY <1>6, <1>12 DEF vars, brokerVars, processVars, historyVars
<1>13. CASE \E p \in Procs : ClientLoses(p)
  <2>1. PICK p \in Procs : ClientLoses(p)
    BY <1>13
  <2>2. Chan(p) \in Channels
    BY <1>t DEF Chan, Channels, TypeOK
  <2> QED
    BY <1>f, <1>2, <2>1, <2>2
<1>14. CASE \E c \in open : BrokerCloses(c)
  <2>1. open \subseteq Channels
    BY <1>t DEF TypeOK
  <2> QED
    BY <1>f, <1>3, <1>14, <2>1
<1>15. CASE UNCHANGED faults /\ StaleCallbacks' \subseteq StaleCallbacks
  BY <1>f, <1>15
<1> QED
  BY <1>f, <1>1, <1>5, <1>7, <1>8, <1>9, <1>10, <1>11, <1>12, <1>13, <1>14, <1>15 DEF Next

LEMMA LimitsNext == IInv /\ Limits /\ [Next]_vars => Limits'
<1> SUFFICES ASSUME IInv, Limits, [Next]_vars PROVE Limits'
  OBVIOUS
<1> USE LimitsAssumption
<1>1. \A c \in Channels : AtMost(Held(c)', Prefetch)
  BY HeldBound DEF Limits
<1>2. faults \in Nat /\ faults' \in Nat /\ faults' >= faults
  BY StaleStep DEF IInv, TypeOK
<1>3. Prefetch \in Nat /\ Prefetch * faults \in Nat /\ Prefetch * faults' \in Nat
  BY <1>2, Distributes
<1>4. CASE StaleCallbacks' \subseteq StaleCallbacks
  <2>1. StaleChannels' \subseteq StaleChannels
    BY <1>4 DEF StaleChannels
  <2>2. Prefetch * faults <= Prefetch * faults'
    BY <1>2, <1>3, TimesMonotone
  <2>3. AtMost(StaleChannels', faults')
    BY <1>2, <2>1, AtMostSubset DEF Limits
  <2>4. AtMost(StaleCallbacks', Prefetch * faults')
    BY <1>3, <1>4, <2>2, AtMostSubset DEF Limits
  <2> QED
    BY <1>1, <2>3, <2>4 DEF Limits
<1>5. ASSUME faults' = faults + 1, NEW c \in Channels,
             StaleCallbacks' \subseteq StaleCallbacks \cup Held(c)
      PROVE  Limits'
  <2>1. StaleChannels' \subseteq StaleChannels \cup {c}
    BY <1>5 DEF StaleChannels, Held
  <2>2. AtMost(StaleChannels \cup {c}, faults + 1)
    BY <1>2, AtMostOne, AtMostUnion DEF Limits
  <2>3. AtMost(StaleCallbacks \cup Held(c), Prefetch * faults + Prefetch)
    BY <1>3, AtMostUnion DEF Limits
  <2>4. Prefetch * faults' = Prefetch * faults + Prefetch
    BY <1>2, <1>3, <1>5, Distributes
  <2>5. AtMost(StaleChannels', faults')
    BY <1>2, <1>5, <2>1, <2>2, AtMostSubset
  <2>6. AtMost(StaleCallbacks', Prefetch * faults')
    BY <1>3, <1>5, <2>3, <2>4, AtMostSubset
  <2> QED
    BY <1>1, <2>5, <2>6 DEF Limits
<1> QED
  BY <1>4, <1>5, StaleStep

LEMMA InitLimits == Init => Limits
<1> SUFFICES ASSUME Init PROVE Limits
  OBVIOUS
<1>1. StaleCallbacks = {} /\ StaleChannels = {} /\ \A c \in Channels : Held(c) = {}
  BY DEF Init, StaleCallbacks, StaleChannels, Held
<1>2. \A n \in Nat : AtMost({}, n)
  BY FS_EmptySet DEF AtMost
<1>3. Prefetch \in Nat /\ Prefetch * faults \in Nat /\ faults \in Nat
  BY LimitsAssumption, Distributes DEF Init
<1> QED
  BY <1>1, <1>2, <1>3 DEF Limits

LEMMA LimitsHold == Spec => []Limits
<1> QED
  BY InitLimits, LimitsNext, Invariance, PTL DEF Spec

\* The handlers of one message: the one that holds the delivery, and at most
\* one on every channel a fault has broken.
LEMMA HandlersOfMessage == IInv /\ Limits => HandlersNeedFaults
<1> SUFFICES ASSUME IInv, Limits, NEW m \in Msgs
             PROVE  Cardinality({d \in running \cup backoff : d.msg = m}) <= 1 + faults
  BY DEF HandlersNeedFaults
<1> DEFINE All   == {d \in running \cup backoff : d.msg = m}
           Stale == {d \in All : ~Healthy(d.chan)}
           Fresh == {d \in All : Healthy(d.chan)}
<1>d. \A d \in running \cup backoff : d \in Deliveries
  BY DEF IInv, TypeOK
<1>1. AtMost(Stale, faults)
  <2> DEFINE f == [d \in Stale |-> d.chan]
  <2>1. \A d, e \in Stale : d.chan = e.chan => d = e
    BY <1>d DEF Deliveries
  <2>2. f \in Injection(Stale, StaleChannels)
    BY <2>1 DEF Injection, IsInjective, StaleChannels, StaleCallbacks
  <2>3. IsFiniteSet(Stale) /\ Cardinality(Stale) <= Cardinality(StaleChannels)
    BY <2>2, FS_Injection DEF Limits, AtMost
  <2>4. Cardinality(Stale) \in Nat /\ Cardinality(StaleChannels) \in Nat
    BY <2>3, FS_CardinalityType DEF Limits, AtMost
  <2> QED
    BY <2>3, <2>4 DEF Limits, AtMost, IInv, TypeOK
<1>2. AtMost(Fresh, 1)
  <2>1. \A d, e \in Fresh : d = e
    BY DEF Healthy, IInv, HandlerHoldsDelivery, OneHolder
  <2>2. CASE Fresh = {}
    BY <2>2, FS_EmptySet DEF AtMost
  <2>3. CASE Fresh # {}
    <3>1. PICK d : Fresh = {d}
      BY <2>1, <2>3
    <3> QED
      BY <3>1, AtMostOne
  <2> QED
    BY <2>2, <2>3
<1>3. All = Fresh \cup Stale
  OBVIOUS
<1>4. faults \in Nat
  BY DEF IInv, TypeOK
<1> HIDE DEF All, Stale, Fresh
<1>5. AtMost(All, 1 + faults)
  BY <1>1, <1>2, <1>3, <1>4, AtMostUnion
<1> QED
  BY <1>5 DEF AtMost, All

\* Two handlers of one message at a time, and so a second mail of it, need a
\* broken connection: not the retries of the consume callback, its timers,
\* reconnects, nor the exit and restart of a process.
THEOREM HandlersHaveFaults == Spec => []HandlersNeedFaults
<1> QED
  BY HandlersOfMessage, LimitsHold, Invariance, PTL

\* What a consumer process works on at once: the prefetch of its channel, and
\* once more the prefetch for every fault, since the handlers of a broken
\* connection go on while the new channel is filled (queue.service.ts 152).
LoadNeedsFaults ==
    \A p \in Procs :
        AtMost({d \in running \cup backoff : d.chan.proc = p}, Prefetch * (faults + 1))

THEOREM LoadBounded == Spec => []LoadNeedsFaults
<1>1. IInv /\ Limits => LoadNeedsFaults
  <2> SUFFICES ASSUME IInv, Limits, NEW p \in Procs
               PROVE  AtMost({d \in running \cup backoff : d.chan.proc = p},
                             Prefetch * (faults + 1))
    BY DEF LoadNeedsFaults
  <2>1. faults \in Nat /\ Chan(p) \in Channels
    BY DEF IInv, TypeOK, Chan, Channels
  <2>2. Prefetch \in Nat /\ Prefetch * faults \in Nat
        /\ Prefetch * (faults + 1) = Prefetch * faults + Prefetch
    BY <2>1, LimitsAssumption, Distributes
  <2>3. AtMost(StaleCallbacks \cup Held(Chan(p)), Prefetch * faults + Prefetch)
    BY <2>1, <2>2, AtMostUnion DEF Limits
  <2>4. \A d \in running \cup backoff : d.chan \in Channels
    BY DEF IInv, TypeOK, Deliveries
  <2>5. {d \in running \cup backoff : d.chan.proc = p} \subseteq StaleCallbacks \cup Held(Chan(p))
    BY <2>4 DEF StaleCallbacks, Held, Healthy, ClientUses, Chan, Channels
  <2> QED
    BY <2>2, <2>3, <2>5, AtMostSubset
<1> QED
  BY <1>1, LimitsHold, Invariance, PTL

-------------------------------------------------------------------------------
(* What becomes of a message *)

\* The bindings lead each key to its own queue, and no dead letter anywhere:
\* failed.queue is bound with a key that no message carries.
LEMMA ExactRoutes ==
    ASSUME NEW m \in Msgs
    PROVE  /\ Route("notifications.direct", RoutingKey(m))
                = IF m \in EmailMsgs THEN "email.queue" ELSE "push.queue"
           /\ DeadLetterPlace(m) = "dropped"
<1>1. Route("notifications.direct", RoutingKey(m))
        = IF m \in EmailMsgs THEN "email.queue" ELSE "push.queue"
  <2>1. \E b \in Bindings : b.exchange = "notifications.direct" /\ b.key = RoutingKey(m)
    BY DEF Bindings, RoutingKey
  <2>2. \A b \in Bindings :
           b.exchange = "notifications.direct" /\ b.key = RoutingKey(m) =>
              b.queue = IF m \in EmailMsgs THEN "email.queue" ELSE "push.queue"
    BY DEF Bindings, RoutingKey
  <2>3. Route("notifications.direct", RoutingKey(m))
          = (CHOOSE b \in Bindings :
                b.exchange = "notifications.direct" /\ b.key = RoutingKey(m)).queue
    BY <2>1 DEF Route
  <2> QED
    BY <2>1, <2>2, <2>3
<1>2. ~ \E b \in Bindings : b.exchange = "notifications.dlx" /\ b.key = RoutingKey(m)
  BY DEF Bindings, RoutingKey
<1> QED
  BY <1>1, <1>2 DEF DeadLetterPlace, Route

\* An email is consumed from email.queue; a push message stays in push.queue
\* until it expires; neither ever reaches failed.queue.
Routes ==
    /\ \A m \in EmailMsgs : place[m] \in {"unsent", "email.queue", "out", "acked", "dropped"}
    /\ \A m \in Msgs \ EmailMsgs : place[m] \in {"unsent", "push.queue", "dropped"}
    /\ \A d \in unacked \cup running \cup backoff : d.msg \in EmailMsgs
    /\ completed \subseteq EmailMsgs

\* Steps that move one message, if any, along its route, and whose callbacks
\* are of emails.
LEMMA RouteStep ==
    ASSUME TypeOK, Routes, NEW m \in Msgs, NEW to,
           place' = [place EXCEPT ![m] = to] \/ UNCHANGED place,
           IF m \in EmailMsgs THEN to \in {"email.queue", "out", "acked", "dropped"}
                              ELSE to \in {"push.queue", "dropped"},
           \A d \in unacked' \cup running' \cup backoff' :
               d \in unacked \cup running \cup backoff \/ d.msg \in EmailMsgs,
           completed' \subseteq completed \cup EmailMsgs
    PROVE  Routes'
<1>1. \A n \in Msgs : place'[n] = place[n] \/ (n = m /\ place'[n] = to)
  BY DEF TypeOK
<1>2. EmailMsgs \subseteq Msgs
  BY DEF Msgs
<1> QED
  BY <1>1, <1>2 DEF Routes

LEMMA RoutesNext == IInv /\ Routes /\ [Next]_vars => Routes'
<1> SUFFICES ASSUME IInv, Routes, [Next]_vars PROVE Routes'
  OBVIOUS
<1>t. TypeOK
  BY DEF IInv
<1>e. \A d \in unacked \cup running \cup backoff : d.msg \in EmailMsgs /\ d.msg \in Msgs
  BY DEF Routes, Msgs
<1>1. ASSUME NEW m \in Msgs, Publish(m) \/ Expire(m) PROVE Routes'
  <2> DEFINE to == IF Publish(m) THEN Route("notifications.direct", RoutingKey(m)) ELSE "dropped"
  <2>1. to \in IF m \in EmailMsgs THEN {"email.queue", "dropped"} ELSE {"push.queue", "dropped"}
    BY ExactRoutes
  <2>2. place' = [place EXCEPT ![m] = to] /\ UNCHANGED <<unacked, running, backoff, completed>>
    BY <1>1, ExactRoutes DEF Publish, Expire, processVars, historyVars
  <2> HIDE DEF to
  <2> QED
    BY <1>t, <2>1, <2>2, RouteStep
<1>2. ASSUME NEW c \in open, BrokerCloses(c) PROVE Routes'
  <2>1. \A m \in Msgs :
           \/ place'[m] = place[m]
           \/ place'[m] = "email.queue" /\ m \in EmailMsgs
    BY <1>2, <1>e DEF BrokerCloses, OnChannel
  <2>2. unacked' \subseteq unacked /\ UNCHANGED <<running, backoff, completed>>
    BY <1>2 DEF BrokerCloses, processVars
  <2> QED
    BY <2>1, <2>2 DEF Routes, Msgs
<1>3. ASSUME NEW m \in Msgs, NEW c \in open, Deliver(m, c) PROVE Routes'
  <2>1. m \in EmailMsgs
    BY <1>3 DEF Deliver, Routes
  <2>2. /\ place' = [place EXCEPT ![m] = "out"]
        /\ \A d \in unacked' \cup running' \cup backoff' :
              d \in unacked \cup running \cup backoff \/ d.msg = m
        /\ completed' = completed
    BY <1>3 DEF Deliver, historyVars
  <2> QED
    BY <1>t, <2>1, <2>2, RouteStep
\* The end of a callback settles its own message, with one of three results.
<1>4. ASSUME NEW d \in running \cup backoff,
             NEW to \in {"email.queue", "acked", "dropped"},
             Settle(d, to) \/ UNCHANGED <<unacked, place>>,
             running' \subseteq running, backoff' \subseteq running \cup backoff,
             completed' \subseteq completed \cup {d.msg}
      PROVE  Routes'
  <2>1. place' = [place EXCEPT ![d.msg] = to] \/ UNCHANGED place
    BY <1>4 DEF Settle
  <2>2. unacked' \subseteq unacked
    BY <1>4 DEF Settle
  <2> QED
    BY <1>t, <1>e, <1>4, <2>1, <2>2, RouteStep
<1>5. ASSUME NEW d \in running, HandlerSucceeds(d) \/ HandlerFails(d) PROVE Routes'
  <2>1. running' \subseteq running /\ completed' \subseteq completed \cup {d.msg}
        /\ backoff' \subseteq running \cup backoff
    BY <1>5 DEF HandlerSucceeds, HandlerFails, OnError
  <2>2. \/ Settle(d, "acked") \/ Settle(d, DeadLetterPlace(d.msg))
        \/ UNCHANGED <<unacked, place>>
    BY <1>5 DEF HandlerSucceeds, HandlerFails, OnError
  <2>3. DeadLetterPlace(d.msg) = "dropped"
    BY <1>e, ExactRoutes
  <2> QED
    BY <1>4, <2>1, <2>2, <2>3
<1>6. ASSUME NEW d \in backoff, TimerFires(d) PROVE Routes'
  <2>1. /\ UNCHANGED <<running, completed>> /\ backoff' \subseteq backoff
        /\ Settle(d, "email.queue") \/ UNCHANGED <<unacked, place>>
    BY <1>6 DEF TimerFires, historyVars
  <2> QED
    BY <1>4, <2>1
<1>7. CASE /\ UNCHANGED <<place, unacked, completed>>
           /\ running' \subseteq running /\ backoff' \subseteq backoff
  BY <1>7 DEF Routes
<1>8. CASE \E p \in Procs : Connect(p) \/ ClientLoses(p) \/ Exit(p) \/ Crash(p) \/ Restart(p)
  BY <1>7, <1>8 DEF Connect, ClientLoses, Exit, Crash, Die, Restart, brokerVars, historyVars
<1>9. CASE UNCHANGED vars
  BY <1>7, <1>9 DEF vars, brokerVars, processVars, historyVars
<1> QED
  BY <1>1, <1>2, <1>3, <1>5, <1>6, <1>8, <1>9 DEF Next

\* Routing of setupExchangesAndQueues (queue.service.ts 75-113) and of the
\* gateway's keys: the email consumer never sees a push message, no push message
\* is ever acknowledged, and what is dead-lettered is lost.
THEOREM MessagesTakeTheirRoute == Spec => []Routes
<1>1. Init => Routes
  BY DEF Init, Routes, Msgs
<1> QED
  BY <1>1, RoutesNext, Invariance, PTL DEF Spec

\* queue.service.ts 171-179 with its maxRetries of 3: the second branch of the
\* catch block is dead code, because no message carries x-retry-count.  So a
\* message that is out goes back or is acknowledged; only its TTL discards it.
DiscardedByExpiry ==
    MaxRetries >= 2 =>
        \A m \in Msgs : place[m] = "out" => place'[m] \in {"out", "email.queue", "acked"}

LEMMA DiscardNext == IInv /\ [Next]_vars => DiscardedByExpiry
<1> SUFFICES ASSUME IInv, [Next]_vars, MaxRetries >= 2, NEW m \in Msgs, place[m] = "out"
             PROVE  place'[m] \in {"out", "email.queue", "acked"}
  BY DEF DiscardedByExpiry
<1>t. place \in [Msgs -> Places] /\ \A d \in running \cup backoff : d.msg \in Msgs
  BY DEF IInv, TypeOK, Deliveries
<1>1. CASE \E n \in Msgs : Publish(n) \/ Expire(n)
  BY <1>1, <1>t DEF Publish, Expire
<1>2. CASE \E c \in open : BrokerCloses(c)
  BY <1>2 DEF BrokerCloses
<1>3. CASE \E n \in Msgs, c \in open : Deliver(n, c)
  BY <1>3, <1>t DEF Deliver
<1>4. ASSUME NEW d \in running, OnError(d) PROVE UNCHANGED place
  BY <1>4, LimitsAssumption DEF OnError, RetryHeader
<1>5. CASE \E d \in running : HandlerSucceeds(d) \/ HandlerFails(d)
  BY <1>t, <1>4, <1>5 DEF HandlerSucceeds, HandlerFails, Settle
<1>6. CASE \E d \in backoff : TimerFires(d)
  BY <1>t, <1>6 DEF TimerFires, Settle
<1>7. CASE UNCHANGED place
  BY <1>7
<1> QED
  BY <1>1, <1>2, <1>3, <1>5, <1>6, <1>7
     DEF Next, Connect, ClientLoses, Exit, Crash, Die, Restart, brokerVars, vars

\* After any number of failures a message is not given up by the consumer.
THEOREM NeverGivenUp == Spec => [][DiscardedByExpiry]_vars
<1> QED
  BY DiscardNext, Invariance, PTL DEF Spec

-------------------------------------------------------------------------------
(* Refinement of DeliveryContract *)

LEMMA ContractInit == Init => Contract!CInit
BY DEF Init, Contract!CInit, Phase

\* A step that moves m alone is a move of the contract.
LEMMA PhaseMove ==
    ASSUME TypeOK, NEW m \in Msgs, NEW to \in Places, NEW from,
           Phase(place[m]) \in from, place' = [place EXCEPT ![m] = to]
    PROVE  Contract!Move(m, from, Phase(to))
<1>1. \A n \in Msgs : place'[n] = IF n = m THEN to ELSE place[n]
  BY DEF TypeOK
<1>2. \A n \in Msgs : Phase(place[n])' = IF n = m THEN Phase(to) ELSE Phase(place[n])
  <2>1. \A n \in Msgs : Phase(place[n])' = Phase(place'[n])
    BY DEF Phase
  <2> QED
    BY <1>1, <2>1
<1>3. [n \in Msgs |-> Phase(place[n])]'
        = [[n \in Msgs |-> Phase(place[n])] EXCEPT ![m] = Phase(to)]
  BY <1>2, Zenon
<1> QED
  BY <1>3 DEF Contract!Move

\* The phases of the places, one by one.
LEMMA PhaseOf ==
    /\ Phase("unsent") = "unsent"
    /\ Phase("email.queue") = "waiting" /\ Phase("push.queue") = "waiting"
    /\ Phase("out") = "taken"
    /\ Phase("acked") = "settled"
    /\ Phase("failed.queue") = "dead" /\ Phase("dropped") = "dead"
BY DEF Phase

\* What Settle does to the broker is a move of the contract, or nothing.
LEMMA SettleMoves ==
    ASSUME IInv, NEW d \in Deliveries, NEW to \in Places, Settle(d, to)
    PROVE  \/ Contract!Move(d.msg, {"taken"}, Phase(to))
           \/ UNCHANGED place
<1>1. CASE d \notin unacked
  BY <1>1 DEF Settle
<1>2. CASE d \in unacked
  <2>1. d.msg \in Msgs /\ place[d.msg] = "out" /\ place' = [place EXCEPT ![d.msg] = to]
    BY <1>2 DEF Settle, Deliveries, IInv, OneHolder
  <2> QED
    BY <2>1, PhaseOf, PhaseMove DEF IInv
<1> QED
  BY <1>1, <1>2

LEMMA ContractNext == IInv /\ [Next]_vars => [Contract!CNext]_Contract!cvars
<1> SUFFICES ASSUME IInv, [Next]_vars PROVE [Contract!CNext]_Contract!cvars
  OBVIOUS
<1>t. TypeOK
  BY DEF IInv
<1>s. ASSUME UNCHANGED <<place, completed>> PROVE UNCHANGED Contract!cvars
  BY <1>s DEF Contract!cvars
<1>1. CASE \E p \in Procs :
             Connect(p) \/ ClientLoses(p) \/ Exit(p) \/ Crash(p) \/ Restart(p)
  BY <1>1, <1>s DEF Connect, ClientLoses, Exit, Crash, Die, Restart, brokerVars, historyVars
<1>2. ASSUME NEW m \in Msgs, Publish(m) PROVE Contract!Send(m)
  <2>1. PICK to \in {"email.queue", "push.queue"} : place' = [place EXCEPT ![m] = to]
    BY <1>2, PublishRoutes DEF Publish
  <2> QED
    BY <1>2, <1>t, <2>1, PhaseOf, PhaseMove
       DEF Publish, historyVars, Contract!Send, Places, Queues
<1>3. ASSUME NEW m \in Msgs, Expire(m) PROVE Contract!Discard(m)
  <2>1. PICK to \in {"failed.queue", "dropped"} : place' = [place EXCEPT ![m] = to]
    BY <1>3, DeadLetterRoutes DEF Expire
  <2>2. Phase(place[m]) \in {"waiting", "taken"} /\ Phase(to) = "dead"
    BY <1>3, PhaseOf DEF Expire
  <2>3. Contract!Move(m, {"waiting", "taken"}, "dead")
    BY <1>t, <2>1, <2>2, PhaseMove DEF Places, Queues
  <2> QED
    BY <1>3, <2>3 DEF Expire, historyVars, Contract!Discard
<1>4. ASSUME NEW c \in open, BrokerCloses(c)
      PROVE  Contract!GiveBack({m \in Msgs : \E d \in OnChannel(c) : d.msg = m})
  <2> DEFINE S == {m \in Msgs : \E d \in OnChannel(c) : d.msg = m}
  <2>1. \A m \in S : place[m] = "out"
    BY DEF OnChannel, IInv, OneHolder
  <2>2. place' = [m \in Msgs |-> IF m \in S THEN "email.queue" ELSE place[m]]
        /\ completed' = completed
    BY <1>4 DEF BrokerCloses
  <2> QED
    BY <2>1, <2>2, PhaseOf DEF Contract!GiveBack
<1>5. ASSUME NEW m \in Msgs, NEW c \in open, Deliver(m, c) PROVE Contract!Take(m)
  BY <1>5, <1>t, PhaseOf, PhaseMove
     DEF Deliver, historyVars, Contract!Take, Places
<1>6. \A d \in running \cup backoff : d \in Deliveries /\ d.msg \in Msgs
  BY <1>t DEF TypeOK, Deliveries
\* OnError, reached with the handler's message m, discards it or leaves it.
<1>7. ASSUME NEW d \in running, OnError(d)
      PROVE  Contract!Move(d.msg, {"taken"}, "dead") \/ UNCHANGED place
  <2>1. UNCHANGED place \/ Settle(d, DeadLetterPlace(d.msg))
    BY <1>7 DEF OnError
  <2>2. DeadLetterPlace(d.msg) \in Places /\ Phase(DeadLetterPlace(d.msg)) = "dead"
    BY <1>6, DeadLetterRoutes, PhaseOf DEF Places, Queues
  <2> QED
    BY <1>6, <2>1, <2>2, SettleMoves
<1>8. ASSUME NEW d \in running, HandlerFails(d) PROVE [Contract!CNext]_Contract!cvars
  <2>1. completed' = completed /\ d.msg \in Msgs
    BY <1>6, <1>8 DEF HandlerFails
  <2>2. CASE UNCHANGED place
    BY <1>s, <2>1, <2>2
  <2>3. CASE Contract!Move(d.msg, {"taken"}, "dead")
    <3>1. Contract!Discard(d.msg)
      BY <2>1, <2>3 DEF Contract!Discard, Contract!Move
    <3> QED
      BY <2>1, <3>1 DEF Contract!CNext
  <2> QED
    BY <1>7, <1>8, <2>2, <2>3 DEF HandlerFails
<1>9. ASSUME NEW d \in running, HandlerSucceeds(d) PROVE Contract!Complete(d.msg)
  <2>1. d.msg \in Msgs /\ completed' = completed \cup {d.msg} /\ place[d.msg] # "unsent"
    BY <1>6, <1>9 DEF HandlerSucceeds, IInv, HandledWerePublished
  <2>2. Phase(place[d.msg]) # "unsent"
    BY <1>t, <2>1, PhaseOf DEF TypeOK, Places, Queues
  <2>3. Settle(d, "acked") \/ UNCHANGED place
    BY <1>9 DEF HandlerSucceeds, OnError
  <2>4. Contract!Move(d.msg, {"taken"}, "settled") \/ UNCHANGED place
    BY <1>6, <2>3, SettleMoves, PhaseOf DEF Places
  <2>5. UNCHANGED place => UNCHANGED [m \in Msgs |-> Phase(place[m])]
    OBVIOUS
  <2> QED
    BY <2>1, <2>2, <2>4, <2>5 DEF Contract!Complete, Contract!Move
<1>10. ASSUME NEW d \in backoff, TimerFires(d) PROVE [Contract!CNext]_Contract!cvars
  <2>1. completed' = completed /\ d.msg \in Msgs
    BY <1>6, <1>10 DEF TimerFires, historyVars
  <2>2. Settle(d, "email.queue") \/ UNCHANGED place
    BY <1>10 DEF TimerFires
  <2>3. CASE UNCHANGED place
    BY <1>s, <2>1, <2>3
  <2>4. CASE Settle(d, "email.queue") /\ ~UNCHANGED place
    <3>1. Contract!Move(d.msg, {"taken"}, "waiting")
      BY <1>6, <2>4, SettleMoves, PhaseOf DEF Places, Queues
    <3>2. Contract!GiveBack({d.msg})
      BY <2>1, <3>1 DEF Contract!GiveBack, Contract!Move
    <3> QED
      BY <2>1, <3>2 DEF Contract!CNext
  <2> QED
    BY <2>2, <2>3, <2>4
<1>11. CASE UNCHANGED vars
  BY <1>11, <1>s DEF vars, brokerVars, historyVars
<1> QED
  BY <1>1, <1>2, <1>3, <1>4, <1>5, <1>6, <1>8, <1>9, <1>10, <1>11
     DEF Next, Contract!CNext

\* The consumer, its connections and the broker implement the contract.
THEOREM Refinement == Spec => ImplementsContract
<1> QED
  BY ContractInit, ContractNext, Invariance, PTL DEF Spec, ImplementsContract, Contract!CSpec
===============================================================================
