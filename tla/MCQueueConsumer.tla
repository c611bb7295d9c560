--------------------------- MODULE MCQueueConsumer ---------------------------
(* Small instances of QueueConsumer for TLC. *)
EXTENDS QueueConsumer, TLC

CONSTANTS e1, e2, p1, c1, c2

MCEmailMsgs == {e1, e2}
MCPushMsgs  == {p1}
MCProcs     == {c1, c2}

MCOneMsg  == {e1}
MCNone    == {}

\* Nothing in the specification tells emails, or processes, apart.
MCSymmetry == Permutations(MCEmailMsgs) \cup Permutations(MCProcs)
===============================================================================
