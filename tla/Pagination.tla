----------------------------- MODULE Pagination ------------------------------
(***************************************************************************)
(* The pages of the list operations: findAll of the user service and of    *)
(* the template service, getNotificationsByUser of the gateway, and        *)
(* PaginatedResponse of libs/common.  Rows are numbered 1..total in the    *)
(* order of the query; page and limit are what PaginationDto admits.       *)
(***************************************************************************)
EXTENDS Integers

PageNumbers == Nat \ {0}

Limits == 1..100

Skip(page, limit) == (page - 1) * limit

\* The rows findMany returns with this skip and take.
Page(total, page, limit) ==
    {row \in 1..total : Skip(page, limit) < row /\ row <= Skip(page, limit) + limit}

\* Math.ceil(total / limit).
TotalPages(total, limit) == (total + limit - 1) \div limit

HasNext(total, page, limit) == Skip(page, limit) + limit < total

\* The condition as PaginatedResponse writes it.
HasNextOfResponse(total, page, limit) == page * limit < total

-------------------------------------------------------------------------------
(* Properties *)

\* The pages up to total_pages show every row exactly once, and no later
\* page shows any.
PagesPartitionRows(total, limit) ==
    \A row \in 1..total :
        /\ \E page \in 1..TotalPages(total, limit) : row \in Page(total, page, limit)
        /\ \A p, q \in PageNumbers :
              row \in Page(total, p, limit) /\ row \in Page(total, q, limit) => p = q

\* has_next says that the following page has rows, total_pages says the same,
\* and both formulas of has_next agree.
HasNextIsRight(total, page, limit) ==
    /\ HasNext(total, page, limit) <=> Page(total, page + 1, limit) # {}
    /\ HasNext(total, page, limit) <=> page < TotalPages(total, limit)
    /\ HasNext(total, page, limit) <=> HasNextOfResponse(total, page, limit)

\* The rows are read and counted by two queries that run at once.  While the
\* count is no smaller than the rows there were to read, a reader who stops at
\* the first page without has_next has seen them all.  A row inserted after
\* the count and before the read makes it smaller; the code allows that.
StopsAtTheEnd(total, counted, page, limit) ==
    counted >= total /\ ~HasNext(counted, page, limit) =>
        \A row \in 1..total : \E p \in 1..page : row \in Page(total, p, limit)

===============================================================================
