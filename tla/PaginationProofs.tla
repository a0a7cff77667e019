-------------------------- MODULE PaginationProofs --------------------------
(***************************************************************************)
(* For any rows and page sizes, and any changes of the table: a walk       *)
(* returns no row twice, skips none that was there all the time, and takes *)
(* a page per id at most.                                                  *)
(***************************************************************************)
EXTENDS Pagination, FiniteSetTheorems, TLAPS

Typed ==
  /\ visible \subseteq Ids /\ steady \subseteq visible
  /\ cursor \in Ids \cup {0}
  /\ returned \subseteq Ids
  /\ ended \in BOOLEAN

\* What has been returned is not beyond the cursor.
BehindCursor == ~ ended => \A r \in returned : r <= cursor

\* Of the rows that matched all the time, those up to the cursor have been
\* returned, and all of them when the walk is over.
Complete ==
  /\ ~ ended => \A r \in steady : r <= cursor => r \in returned
  /\ ended => steady \subseteq returned

IInv == Typed /\ BehindCursor /\ Complete /\ NoRowTwice

-----------------------------------------------------------------------------
(* Pages *)

\* A page has no gaps: what is found before a row of the page is on the page.
LEMMA FirstIsPrefix ==
  ASSUME NEW rows \in SUBSET Ids, NEW n \in Int,
         NEW last \in First(n, rows), NEW r \in rows, r <= last
  PROVE  r \in First(n, rows)
<1> DEFINE Before(q) == {p \in rows : p < q}
<1>1. r \in Nat /\ last \in Nat /\ rows \subseteq Nat
  BY PageAssumption DEF First
<1>2. IsFiniteSet(Before(last))
  BY PageAssumption, FS_Subset
<1>3. Before(r) \subseteq Before(last)
  <2> SUFFICES ASSUME NEW p \in rows, p < r PROVE p < last
    OBVIOUS
  <2>1. p \in Nat /\ r \in Nat /\ last \in Nat
    BY <1>1
  <2> QED BY <2>1, r <= last
<1>4. /\ Cardinality(Before(r)) <= Cardinality(Before(last))
      /\ Cardinality(Before(r)) \in Nat /\ Cardinality(Before(last)) \in Nat
  <2>1. /\ IsFiniteSet(Before(r))
        /\ Cardinality(Before(r)) <= Cardinality(Before(last))
    BY <1>2, <1>3, FS_Subset
  <2> QED BY <1>2, <2>1, FS_CardinalityType
<1>5. Cardinality(Before(last)) < n
  BY DEF First
<1>6. Cardinality(Before(r)) < n
  BY <1>4, <1>5
<1> QED BY <1>6 DEF First

\* The last page has all rows that are left.
LEMMA LastPageIsAll ==
  ASSUME NEW rows \in SUBSET Ids, NEW n \in Int, ~ More(n, rows)
  PROVE  First(n, rows) = rows
<1> SUFFICES ASSUME NEW r \in rows PROVE r \in First(n, rows)
  BY DEF First
<1> DEFINE before == {p \in rows : p < r}
<1>1. r \in Nat /\ IsFiniteSet(rows)
  BY PageAssumption, FS_Subset
<1>2. before \subseteq rows /\ before # rows
  BY <1>1
<1>3. Cardinality(before) < Cardinality(rows) /\ Cardinality(rows) \in Nat
      /\ Cardinality(before) \in Nat
  <2>1. /\ Cardinality(before) <= Cardinality(rows)
        /\ Cardinality(before) # Cardinality(rows)
    BY <1>1, <1>2, FS_Subset
  <2>2. Cardinality(before) \in Nat /\ Cardinality(rows) \in Nat
    BY <1>1, <1>2, FS_Subset, FS_CardinalityType
  <2> QED BY <2>1, <2>2
<1>4. Cardinality(rows) <= n
  BY <1>3 DEF More
<1>5. Cardinality(before) < n
  BY <1>3, <1>4
<1> QED BY <1>5 DEF First

\* What a client asks for becomes a number of rows.
LEMMA SizeIsNumber == ASSUME NEW asked \in Asked PROVE PageSize(Parsed(asked)) \in Int
<1>1. ASSUME NEW n \in Int PROVE Int32(n) \in Int
  BY PageAssumption DEF Int32
<1>2. Parsed(asked) \in Int
  BY <1>1, PageAssumption DEF Parsed
<1> QED BY <1>2, PageAssumption DEF PageSize

-----------------------------------------------------------------------------
(* The walk *)

\* The invariant holds before the first page.
LEMMA InitIInv == Init => IInv
<1> SUFFICES ASSUME Init PROVE IInv
  OBVIOUS
<1>1. \A r \in Ids : r \in Nat /\ r > 0
  BY PageAssumption
<1>2. /\ steady \subseteq Ids /\ visible = steady
      /\ cursor = 0 /\ returned = {} /\ twice = {} /\ ended = FALSE
  BY DEF Init
<1>3. \A r \in steady : ~ (r <= cursor)
  BY <1>1, <1>2
<1> QED BY <1>2, <1>3 DEF IInv, Typed, BehindCursor, Complete, NoRowTwice

\* A page and the changes of the table keep it.
LEMMA NextIInv == IInv /\ [Next]_vars => IInv'
<1> SUFFICES ASSUME IInv, [Next]_vars PROVE IInv'
  OBVIOUS
<1>0. Ids \subseteq Nat /\ 0 \notin Ids
  BY PageAssumption
<1> USE DEF IInv, Typed, BehindCursor, Complete, NoRowTwice
<1>1. ASSUME NEW asked \in Asked, NextPage(asked) PROVE IInv'
  <2> DEFINE n == PageSize(Parsed(asked))
             rows == Beyond(cursor)
             page == First(n, rows)
  <2>1. n \in Int
    BY SizeIsNumber
  <2>2. /\ rows \in SUBSET Ids /\ page \subseteq rows
        /\ \A r \in rows : r > cursor
    BY DEF Beyond, First
  <2> HIDE DEF n, rows, page
  <2>3. /\ ~ ended /\ UNCHANGED <<visible, steady>>
        /\ twice' = twice \cup (returned \cap page)
        /\ returned' = returned \cup page
    BY <1>1 DEF NextPage, n, rows, page
  <2>4. returned \cap page = {}
    BY <1>0, <2>2, <2>3
  <2>5. \A r \in steady : r \in returned \/ r \in rows
    BY <1>0, <2>3 DEF Beyond, rows
  <2>6. CASE More(n, rows)
    <3>1. ended' = FALSE /\ cursor' \in Last(n, rows)
      BY <1>1, <2>3, <2>6 DEF NextPage, n, rows
    <3>2. cursor' \in page /\ \A r \in page : r <= cursor'
      BY <3>1 DEF Last, page
    <3>3. Typed' /\ NoRowTwice'
      BY <2>2, <2>3, <2>4, <3>1, <3>2
    <3>4. BehindCursor'
      BY <1>0, <2>2, <2>3, <3>2
    <3>5. ASSUME NEW r \in steady, r <= cursor' PROVE r \in returned'
      <4>1. CASE r \in returned
        BY <2>3, <4>1
      <4>2. CASE r \in rows
        <5>1. cursor' \in First(n, rows)
          BY <3>2 DEF page
        <5>2. r \in First(n, rows)
          BY <2>1, <2>2, <3>5, <4>2, <5>1, FirstIsPrefix
        <5> QED BY <2>3, <5>2 DEF page
      <4> QED BY <2>5, <4>1, <4>2
    <3> QED BY <2>3, <3>1, <3>3, <3>4, <3>5
  <2>7. CASE ~ More(n, rows)
    <3>1. ended' = TRUE /\ cursor' = cursor
      BY <1>1, <2>3, <2>7 DEF NextPage, n, rows
    <3>2. page = rows
      BY <2>1, <2>2, <2>7, LastPageIsAll DEF page
    <3> QED BY <2>2, <2>3, <2>4, <2>5, <3>1, <3>2
  <2> QED BY <2>6, <2>7
<1>2. ASSUME NEW r \in Ids, Appear(r) PROVE IInv'
  BY <1>2 DEF Appear
<1>3. ASSUME NEW r \in Ids, Disappear(r) PROVE IInv'
  BY <1>3 DEF Disappear
<1>4. CASE UNCHANGED vars
  BY <1>4 DEF vars
<1> QED BY <1>1, <1>2, <1>3, <1>4 DEF Next

\* A walk returns no row twice.
THEOREM WalksOnce == Spec => []NoRowTwice
<1>1. IInv => NoRowTwice
  BY DEF IInv
<1> QED BY InitIInv, NextIInv, <1>1, PTL DEF Spec

\* A walk that has ended has returned every row that matched all the time.
THEOREM WalkIsComplete == Spec => []NoneSkipped
<1>1. IInv => NoneSkipped
  BY DEF IInv, Typed, Complete, NoneSkipped
<1> QED BY InitIInv, NextIInv, <1>1, PTL DEF Spec

-----------------------------------------------------------------------------
(* The length of a walk *)

\* The ids the walk has come past.
Passed == {r \in Ids : r <= cursor}

\* Every page but the last comes past one more id at least.
Short ==
  /\ pages \in Nat
  /\ ~ ended => pages <= Cardinality(Passed)
  /\ WalkIsShort

\* What is passed is part of the ids.
LEMMA PassedIsFinite ==
  /\ IsFiniteSet(Passed) /\ Cardinality(Passed) \in Nat
  /\ Cardinality(Ids) \in Nat /\ Cardinality(Passed) <= Cardinality(Ids)
<1>1. Passed \subseteq Ids /\ IsFiniteSet(Ids)
  BY PageAssumption DEF Passed
<1>2. IsFiniteSet(Passed) /\ Cardinality(Passed) <= Cardinality(Ids)
  BY <1>1, FS_Subset
<1> QED BY <1>1, <1>2, FS_CardinalityType

\* A page with a token moves the cursor on, so that more is passed.
LEMMA PageAdvances ==
  ASSUME Typed, NEW n, NEW rows, rows = Beyond(cursor), cursor' \in Last(n, rows)
  PROVE  Cardinality(Passed) + 1 <= Cardinality(Passed')
<1>1. /\ cursor' \in Ids /\ cursor' > cursor /\ cursor' \in Nat /\ cursor \in Nat
      /\ Ids \subseteq Nat /\ IsFiniteSet(Ids)
  BY PageAssumption DEF Typed, Last, First, Beyond
<1>2. Passed \cup {cursor'} \subseteq Passed'
  <2>1. ASSUME NEW r \in Passed PROVE r \in Passed'
    <3>1. r \in Ids /\ r \in Nat /\ r <= cursor
      BY <1>1 DEF Passed
    <3>2. r <= cursor'
      BY <1>1, <3>1
    <3> QED BY <3>1, <3>2 DEF Passed
  <2>2. cursor' \in Passed'
    BY <1>1 DEF Passed
  <2> QED BY <2>1, <2>2
<1>3. cursor' \notin Passed
  BY <1>1 DEF Passed
<1>4. Cardinality(Passed \cup {cursor'}) = Cardinality(Passed) + 1
  BY <1>3, PassedIsFinite, FS_AddElement
<1>5. Passed' \subseteq Ids /\ IsFiniteSet(Passed')
  <2>1. Passed' \subseteq Ids
    BY DEF Passed
  <2> QED BY <1>1, <2>1, FS_Subset
<1>6. Cardinality(Passed \cup {cursor'}) <= Cardinality(Passed')
  BY <1>2, <1>5, FS_Subset
<1> QED BY <1>4, <1>6

LEMMA PageIsShort ==
  ASSUME IInv, Short, NEW asked \in Asked, NextPage(asked)
  PROVE  Short'
<1>1. /\ ~ ended /\ pages' = pages + 1 /\ pages \in Nat
      /\ pages <= Cardinality(Passed)
  BY DEF NextPage, Short
<1> DEFINE n == PageSize(Parsed(asked))
           rows == Beyond(cursor)
<1>2. CASE More(n, rows)
  <2>1. cursor' \in Last(n, rows) /\ Typed
    BY <1>2 DEF NextPage, IInv
  <2>2. Cardinality(Passed) + 1 <= Cardinality(Passed')
    <3> HIDE DEF n
    <3> QED BY <2>1, PageAdvances
  <2>3. Cardinality(Passed') \in Nat /\ Cardinality(Passed') <= Cardinality(Ids)
    <3>1. Passed' \subseteq Ids /\ IsFiniteSet(Ids)
      BY PageAssumption DEF Passed
    <3> QED BY <3>1, FS_Subset, FS_CardinalityType
  <2> QED BY <1>1, <2>2, <2>3, PassedIsFinite DEF Short, WalkIsShort
<1>3. CASE ~ More(n, rows)
  <2>1. ended'
    BY <1>3 DEF NextPage
  <2> QED BY <1>1, <2>1, PassedIsFinite DEF Short, WalkIsShort
<1> QED BY <1>2, <1>3

\* A client that follows the tokens gets an answer per id at most, and the
\* last: rows that come and go cannot keep it walking.
THEOREM WalksAreShort == Spec => []WalkIsShort
<1>1. Init => Short
  BY PassedIsFinite DEF Init, Short, WalkIsShort
<1>2. IInv /\ Short /\ [Next]_vars => Short'
  <2> SUFFICES ASSUME IInv, Short, [Next]_vars PROVE Short'
    OBVIOUS
  <2>1. CASE \E asked \in Asked : NextPage(asked)
    BY <2>1, PageIsShort
  <2>2. CASE UNCHANGED <<cursor, pages, ended>>
    BY <2>2 DEF Short, Passed, WalkIsShort
  <2> QED BY <2>1, <2>2 DEF Next, vars, Appear, Disappear
<1>3. Short => WalkIsShort
  BY DEF Short
<1> QED BY InitIInv, NextIInv, <1>1, <1>2, <1>3, PTL DEF Spec
=============================================================================
