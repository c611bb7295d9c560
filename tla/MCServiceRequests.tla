-------------------------- MODULE MCServiceRequests ---------------------------
(***************************************************************************)
(* Two processes and up to two calls: a health check of each service, two  *)
(* template requests against the limit, one that reaches the template      *)
(* service, and a registration at the user service.                        *)
(***************************************************************************)
EXTENDS ServiceRequests

CONSTANTS p1, p2, c1, c2

MCProcs == {p1, p2}

MCCalls == {c1, c2}

Workload(r1, r2, o1, o2) ==
    [fleet |-> [p \in MCProcs |-> IF p = p1 THEN r1 ELSE r2],
     asks |-> [c \in MCCalls |-> IF c = c1 THEN o1 ELSE o2]]

MCWorkloads ==
    {Workload("gateway", "user",     "health",   "none"),
     Workload("email",   "template", "health",   "none"),
     Workload("gateway", "user",     "template", "template"),
     Workload("gateway", "template", "template", "none"),
     Workload("gateway", "user",     "register", "none")}

MCFleets == {w.fleet : w \in MCWorkloads}

===============================================================================
