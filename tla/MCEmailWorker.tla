----------------------------- MODULE MCEmailWorker -----------------------------
(* Small instances of EmailWorker for TLC. *)
EXTENDS EmailWorker

CONSTANTS n1, n2, m1, m1again, m2, w1, w2

MCNotes      == {n1, n2}
MCIncomplete == {n2}
MCMsgs       == {m1, m1again, m2}
MCNoteOf     == [m \in MCMsgs |-> IF m = m2 THEN n2 ELSE n1]
MCWorkers    == {w1, w2}
===============================================================================
