---------------------------- MODULE IntakeContract ----------------------------
(***************************************************************************)
(* What the gateway promises of a request, whichever of its processes      *)
(* serve it and however often it is repeated: one notification is stored   *)
(* for it, once and for all; only that one is queued; and only a queued    *)
(* notification is ever reported to a client.  No processes, idempotency   *)
(* maps, crashes, or retries of the broker's client.                       *)
(***************************************************************************)

CONSTANTS
    Names,       \* names of notifications
    Requests,    \* values of request_id
    RequestOf,   \* RequestOf[n]: the request_id of notification n
    None         \* no notification

VARIABLES
    stored,      \* stored[r]: the notification stored for request r
    queued,      \* the notifications that have been queued
    told         \* the pairs <<r, n>> of which some client was told

ivars == <<stored, queued, told>>

IInit ==
    /\ stored = [r \in Requests |-> None]
    /\ queued = {}
    /\ told = {}

Store(n) ==
    /\ stored[RequestOf[n]] = None
    /\ stored' = [stored EXCEPT ![RequestOf[n]] = n]
    /\ UNCHANGED <<queued, told>>

Enqueue(n) ==
    /\ stored[RequestOf[n]] = n
    /\ queued' = queued \cup {n}
    /\ UNCHANGED <<stored, told>>

Tell(n) ==
    /\ stored[RequestOf[n]] = n
    /\ n \in queued
    /\ told' = told \cup {<<RequestOf[n], n>>}
    /\ UNCHANGED <<stored, queued>>

INext == \E n \in Names : Store(n) \/ Enqueue(n) \/ Tell(n)

ISpec == IInit /\ [][INext]_ivars

===============================================================================
