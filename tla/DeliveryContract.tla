--------------------------- MODULE DeliveryContract ---------------------------
(***************************************************************************)
(* What the queue library (libs/queue) promises of a published message,    *)
(* without channels, connections, processes or timers: a message waits at  *)
(* the broker, is taken by a consumer, goes back or is settled, and it is  *)
(* settled only when the application handler has completed for it.         *)
(* Delivery is at least once, so a handler may complete for a message that *)
(* went back to the queue, or was settled by another delivery, meanwhile.  *)
(***************************************************************************)

CONSTANT Msgs    \* the published messages

VARIABLES
    phase,       \* phase[m]: where m is in its life
    processed    \* the messages some handler has completed for

cvars == <<phase, processed>>

Phases == {"unsent", "waiting", "taken", "settled", "dead"}

CInit ==
    /\ phase = [m \in Msgs |-> "unsent"]
    /\ processed = {}

Move(m, from, to) ==
    /\ phase[m] \in from
    /\ phase' = [phase EXCEPT ![m] = to]

Send(m) == Move(m, {"unsent"}, "waiting") /\ UNCHANGED processed

Take(m) == Move(m, {"waiting"}, "taken") /\ UNCHANGED processed

\* A connection that ends gives back everything taken over it.
GiveBack(S) ==
    /\ \A m \in S : phase[m] = "taken"
    /\ phase' = [m \in Msgs |-> IF m \in S THEN "waiting" ELSE phase[m]]
    /\ UNCHANGED processed

\* The handler completes; its acknowledgement reaches the broker or is lost.
Complete(m) ==
    /\ phase[m] # "unsent"
    /\ processed' = processed \cup {m}
    /\ \/ Move(m, {"taken"}, "settled")
       \/ UNCHANGED phase

\* Expired in the queue, or refused after its last attempt.
Discard(m) == Move(m, {"waiting", "taken"}, "dead") /\ UNCHANGED processed

CNext ==
    \/ \E m \in Msgs : Send(m) \/ Take(m) \/ Complete(m) \/ Discard(m)
    \/ \E S \in SUBSET Msgs : GiveBack(S)

CSpec == CInit /\ [][CNext]_cvars

===============================================================================
