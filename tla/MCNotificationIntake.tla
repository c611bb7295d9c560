------------------------- MODULE MCNotificationIntake -------------------------
(* Small instances of NotificationIntake for TLC. *)
EXTENDS NotificationIntake, TLC

CONSTANTS a1, a2, a3, b1, ra, rb, g1, g2

\* Three calls of one request and one of another, on two processes.
MCCalls      == {a1, a2, a3, b1}
MCRequestIds == {ra, rb}
MCRequestOf  == (a1 :> ra) @@ (a2 :> ra) @@ (a3 :> ra) @@ (b1 :> rb)
MCInstances  == {g1, g2}

MCSymmetry == Permutations({a1, a2, a3}) \cup Permutations(MCInstances)
===============================================================================
