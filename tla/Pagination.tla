----------------------------- MODULE Pagination -----------------------------
(***************************************************************************)
(* ListOrders, ListProducts and SearchProducts: a client walks the pages   *)
(* of a query while rows come to match it or cease to (orders and products *)
(* are created, products change category, name or flag).                   *)
(*                                                                         *)
(* The rows are their ids, which are ordered; 0 is no cursor.  A page is   *)
(* one SELECT.                                                             *)
(***************************************************************************)
EXTENDS Integers, FiniteSets

CONSTANTS
  Ids,                   \* rows that may match
  Asked,                 \* the page_size parameters clients send
  NoSize,                \* none, or one that is no number
  DefaultSize, MaxSize,  \* 20 and 100
  Word                   \* 2^32, the values of an int32

ASSUME PageAssumption ==
  /\ Ids \subseteq Nat \ {0} /\ IsFiniteSet(Ids)
  /\ NoSize \notin Int /\ Asked \subseteq Int \cup {NoSize}
  /\ MaxSize \in Nat /\ DefaultSize \in 1 .. MaxSize
  /\ Word \in Nat \ {0}

VARIABLES
  visible,   \* rows that match the query
  steady,    \* rows that have matched since the walk began
  cursor,    \* the id in the token of the last answer
  returned,  \* rows the walk has returned
  twice,     \* rows it has returned again
  pages,     \* how many answers the walk has had
  ended      \* the last answer had no token

vars == <<visible, steady, cursor, returned, twice, pages, ended>>

-----------------------------------------------------------------------------

\* The gateway parses an int and cuts it down to an int32.
Int32(n) == ((n + Word \div 2) % Word) - Word \div 2

Parsed(asked) == IF asked = NoSize THEN DefaultSize ELSE Int32(asked)

PageSize(n) == IF n <= 0 \/ n > MaxSize THEN DefaultSize ELSE n

\* Mutant of Beyond: the cursor's row again.
From(c) == {r \in visible : r >= c}

\* WHERE id > cursor
Beyond(c) == {r \in visible : r > c}

\* ORDER BY id LIMIT n
First(n, rows) == {r \in rows : Cardinality({q \in rows : q < r}) < n}

\* Mutant of More: the row more that tells of a next page is not asked for.
NoMore(n, rows) == FALSE

\* A row more than the page holds was found.
More(n, rows) == Cardinality(rows) > n

\* The row whose id becomes the token.
Last(n, rows) == {r \in First(n, rows) : \A q \in First(n, rows) : q <= r}

\* One answer.
NextPage(asked) ==
  /\ ~ ended
  /\ LET n == PageSize(Parsed(asked))
         rows == Beyond(cursor)
         page == First(n, rows)
     IN  /\ twice' = twice \cup (returned \cap page)
         /\ returned' = returned \cup page
         /\ pages' = pages + 1
         /\ \/ /\ More(n, rows)
               /\ cursor' \in Last(n, rows)
               /\ UNCHANGED ended
            \/ /\ ~ More(n, rows)
               /\ ended' = TRUE
               /\ UNCHANGED cursor
  /\ UNCHANGED <<visible, steady>>

\* A row is created or changed so that it matches.
Appear(r) ==
  /\ r \notin visible
  /\ visible' = visible \cup {r}
  /\ UNCHANGED <<steady, cursor, returned, twice, pages, ended>>

\* A product is changed so that it does not match any more.
Disappear(r) ==
  /\ r \in visible
  /\ visible' = visible \ {r}
  /\ steady' = steady \ {r}
  /\ UNCHANGED <<cursor, returned, twice, pages, ended>>

Init ==
  /\ visible \in SUBSET Ids /\ steady = visible
  /\ cursor = 0 /\ returned = {} /\ twice = {}
  /\ pages = 0 /\ ended = FALSE

Next ==
  \/ \E n \in Asked : NextPage(n)
  \/ \E r \in Ids : Appear(r) \/ Disappear(r)

Spec == Init /\ [][Next]_vars

-----------------------------------------------------------------------------
(* Properties *)

\* Every variable keeps its type; a token is of a row that was returned.
TypeOK ==
  /\ visible \subseteq Ids /\ steady \subseteq visible
  /\ cursor \in returned \cup {0}
  /\ returned \subseteq Ids /\ twice \subseteq Ids
  /\ pages \in Nat /\ ended \in BOOLEAN

\* A walk returns no row twice, whatever happens to the table meanwhile.
NoRowTwice == twice = {}

\* A walk that has ended has returned every row that matched all the time.
NoneSkipped == ended => steady \subseteq returned

\* A client that follows the tokens comes to an end, whatever sizes it asks for
\* and however rows come and go: there is a page per id at most, and the last.
WalkIsShort == pages <= Cardinality(Ids) + 1
=============================================================================
