-------------------------- MODULE PaginationProofs ---------------------------
(***************************************************************************)
(* Proofs about Pagination for every number of rows, page and limit.       *)
(***************************************************************************)
EXTENDS Pagination, TLAPS

\* Multiplication by a limit keeps the order of page numbers.
LEMMA TimesMonotone ==
    ASSUME NEW p \in Nat, NEW q \in Nat, NEW limit \in Limits, p < q
    PROVE  p * limit + limit <= q * limit
<1>1. PICK d \in Nat : q = p + 1 + d
  <2>1. q - p - 1 \in Nat /\ q = p + 1 + (q - p - 1)
    OBVIOUS
  <2> QED
    BY <2>1
<1>2. limit \in Nat /\ d * limit \in Nat /\ p * limit \in Nat
  BY DEF Limits
<1>3. q * limit = p * limit + limit + d * limit
  BY <1>1, <1>2
<1> QED
  BY <1>2, <1>3

\* Division rounds down.
LEMMA DivBounds ==
    ASSUME NEW n \in Nat, NEW limit \in Limits
    PROVE  /\ n \div limit \in Nat
           /\ (n \div limit) * limit <= n
           /\ n < (n \div limit) * limit + limit
BY DEF Limits

\* The last of the pages ends at or after the last row, the one before it
\* earlier.
LEMMA TotalPagesBounds ==
    ASSUME NEW total \in Nat, NEW limit \in Limits
    PROVE  /\ TotalPages(total, limit) \in Nat
           /\ total <= TotalPages(total, limit) * limit
           /\ TotalPages(total, limit) * limit < total + limit
<1>1. total + limit - 1 \in Nat /\ limit \in Nat
  BY DEF Limits
<1> QED
  BY <1>1, DivBounds DEF TotalPages

\* The skip of a page is what the pages before it show.
LEMMA SkipFacts ==
    ASSUME NEW page \in PageNumbers, NEW limit \in Limits
    PROVE  /\ Skip(page, limit) \in Nat /\ page * limit \in Nat
           /\ Skip(page, limit) + limit = page * limit
           /\ Skip(page + 1, limit) = page * limit
<1>1. page - 1 \in Nat /\ limit \in Nat
  BY DEF PageNumbers, Limits
<1>2. (page - 1) * limit \in Nat /\ (page - 1) * limit + limit = page * limit
  BY <1>1 DEF PageNumbers
<1>3. (page + 1) - 1 = page
  BY DEF PageNumbers
<1> QED
  BY <1>1, <1>2, <1>3 DEF Skip

\* Every row of a query is on exactly one page (findAll, skip and take).
THEOREM RowsArePartitioned ==
    \A total \in Nat, limit \in Limits : PagesPartitionRows(total, limit)
<1> SUFFICES ASSUME NEW total \in Nat, NEW limit \in Limits, NEW row \in 1..total
             PROVE  /\ \E page \in 1..TotalPages(total, limit) : row \in Page(total, page, limit)
                    /\ \A p, q \in PageNumbers :
                          row \in Page(total, p, limit) /\ row \in Page(total, q, limit) => p = q
  BY DEF PagesPartitionRows
<1> limit \in Nat \ {0}
  BY DEF Limits
<1>1. \E page \in 1..TotalPages(total, limit) : row \in Page(total, page, limit)
  <2> DEFINE before == (row - 1) \div limit
  <2>1. /\ before \in Nat
        /\ before * limit < row /\ row <= before * limit + limit /\ before * limit \in Nat
    <3>1. row - 1 \in Nat
      OBVIOUS
    <3>2. /\ before \in Nat /\ before * limit <= row - 1
          /\ row - 1 < before * limit + limit
      BY <3>1, DivBounds
    <3> HIDE DEF before
    <3> QED
      BY <3>2
  <2> HIDE DEF before
  <2>2. before + 1 <= TotalPages(total, limit)
    <3> SUFFICES ASSUME TotalPages(total, limit) <= before PROVE FALSE
      BY <2>1, TotalPagesBounds
    <3>1. TotalPages(total, limit) * limit <= before * limit
      <4>1. CASE TotalPages(total, limit) = before
        BY <2>1, <4>1
      <4>2. CASE TotalPages(total, limit) < before
        <5>1. TotalPages(total, limit) * limit + limit <= before * limit
          BY <2>1, <4>2, TotalPagesBounds, TimesMonotone
        <5> QED
          BY <2>1, <5>1, TotalPagesBounds
      <4> QED
        BY <2>1, <4>1, <4>2, TotalPagesBounds
    <3> QED
      BY <2>1, <3>1, TotalPagesBounds
  <2>3. row \in Page(total, before + 1, limit)
    BY <2>1 DEF Page, Skip
  <2>4. before + 1 \in 1..TotalPages(total, limit)
    BY <2>1, <2>2, TotalPagesBounds
  <2> QED
    BY <2>3, <2>4
<1>2. ASSUME NEW p \in PageNumbers, NEW q \in PageNumbers, p < q,
             row \in Page(total, p, limit), row \in Page(total, q, limit)
      PROVE  FALSE
  <2>1. p - 1 \in Nat /\ q - 1 \in Nat /\ p - 1 < q - 1
    BY <1>2 DEF PageNumbers
  <2>2. Skip(p, limit) + limit <= Skip(q, limit)
    BY <2>1, TimesMonotone DEF Skip
  <2>3. Skip(p, limit) \in Nat /\ Skip(q, limit) \in Nat
    BY SkipFacts
  <2> QED
    BY <1>2, <2>2, <2>3 DEF Page
<1> QED
  BY <1>1, <1>2 DEF PageNumbers

\* has_next and total_pages tell the truth about the following page, and the
\* template service and PaginatedResponse compute the same.
THEOREM HasNextCorrect ==
    \A total \in Nat, page \in PageNumbers, limit \in Limits : HasNextIsRight(total, page, limit)
<1> SUFFICES ASSUME NEW total \in Nat, NEW page \in PageNumbers, NEW limit \in Limits
             PROVE  HasNextIsRight(total, page, limit)
  OBVIOUS
<1> limit \in Nat \ {0} /\ page \in Nat
  BY DEF Limits, PageNumbers
<1>0. page \in Int /\ TotalPages(total, limit) \in Int
  BY TotalPagesBounds
<1>1. HasNext(total, page, limit) <=> page * limit < total
  BY SkipFacts DEF HasNext
<1>2. page * limit < total <=> Page(total, page + 1, limit) # {}
  <2>1. ASSUME page * limit < total PROVE page * limit + 1 \in Page(total, page + 1, limit)
    BY <2>1, SkipFacts DEF Page
  <2>2. ASSUME NEW row \in Page(total, page + 1, limit) PROVE page * limit < total
    BY <2>2, SkipFacts DEF Page
  <2> QED
    BY <2>1, <2>2
<1>3. page * limit < total <=> page < TotalPages(total, limit)
  <2>1. ASSUME page < TotalPages(total, limit) PROVE page * limit < total
    <3>1. page * limit + limit <= TotalPages(total, limit) * limit
      BY <2>1, TotalPagesBounds, TimesMonotone
    <3> QED
      BY <3>1, SkipFacts, TotalPagesBounds
  <2>2. ASSUME TotalPages(total, limit) <= page PROVE ~(page * limit < total)
    <3>1. CASE TotalPages(total, limit) = page
      BY <3>1, SkipFacts, TotalPagesBounds
    <3>2. CASE TotalPages(total, limit) < page
      <4>1. TotalPages(total, limit) * limit + limit <= page * limit
        BY <3>2, TotalPagesBounds, TimesMonotone
      <4> QED
        BY <4>1, SkipFacts, TotalPagesBounds
    <3>3. TotalPages(total, limit) = page \/ TotalPages(total, limit) < page
      BY <1>0, <2>2
    <3> QED
      BY <3>1, <3>2, <3>3
  <2>3. page < TotalPages(total, limit) \/ TotalPages(total, limit) <= page
    BY <1>0
  <2> QED
    BY <2>1, <2>2, <2>3
<1> QED
  BY <1>1, <1>2, <1>3 DEF HasNextIsRight, HasNextOfResponse

\* If the rows were counted no earlier than they were read, a reader of all
\* pages up to one without has_next has seen them all.
THEOREM NothingMissedAtTheEnd ==
    \A total, counted \in Nat, page \in PageNumbers, limit \in Limits :
        StopsAtTheEnd(total, counted, page, limit)
<1> SUFFICES ASSUME NEW total \in Nat, NEW counted \in Nat,
                    NEW page \in PageNumbers, NEW limit \in Limits,
                    counted >= total, ~HasNext(counted, page, limit),
                    NEW row \in 1..total
             PROVE  \E p \in 1..page : row \in Page(total, p, limit)
  BY DEF StopsAtTheEnd
<1> limit \in Nat \ {0} /\ page \in Nat \ {0}
  BY DEF Limits, PageNumbers
<1>1. row <= page * limit
  BY SkipFacts DEF HasNext
<1>2. PICK p \in 1..TotalPages(total, limit) : row \in Page(total, p, limit)
  BY RowsArePartitioned DEF PagesPartitionRows
<1>3. p \in PageNumbers
  BY TotalPagesBounds DEF PageNumbers
<1>4. p <= page
  <2> SUFFICES ASSUME page < p PROVE FALSE
    BY <1>3 DEF PageNumbers
  <2>1. page * limit + limit <= p * limit
    BY <1>3, TimesMonotone DEF PageNumbers
  <2>2. p * limit - limit < row
    BY <1>2, <1>3, SkipFacts DEF Page
  <2> QED
    BY <1>1, <1>3, <2>1, <2>2, SkipFacts
<1> QED
  BY <1>2, <1>3, <1>4 DEF PageNumbers

===============================================================================
