---------------------------- MODULE MCTemplateStore ----------------------------
(* A small instance of TemplateStore for TLC, and the pages of its findAll *)
(* for a few rows and limits.                                              *)
EXTENDS TemplateStore

CONSTANTS c1, c2

MCCallers == {c1, c2}

List == INSTANCE Pagination

\* The pages of up to 12 rows, 1 to 5 per page.
ASSUME SmallPages ==
    \A total, counted \in 0..12, page \in 1..6, limit \in 1..5 :
        /\ List!HasNextIsRight(total, page, limit)
        /\ List!StopsAtTheEnd(total, counted, page, limit)
===============================================================================
