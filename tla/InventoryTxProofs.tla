-------------------------- MODULE InventoryTxProofs --------------------------
(***************************************************************************)
(* Proofs about the stock transactions, statement by statement, for any    *)
(* products, orders, items and calls: a reservation is settled once; as    *)
(* long as no call reserves for an order that another call settles, the    *)
(* transactions implement Inventory, and with it the two tables agree.     *)
(***************************************************************************)
EXTENDS InventoryTx, FiniteSetTheorems, TLAPS

Answers == {"none", "OK", "NotFound", "FailedPrecondition", "Internal"}

\* A call asks something of an order.
LEMMA CallFacts ==
  ASSUME NEW c \in Calls
  PROVE  Kind(c) \in Kinds /\ Order(c) \in Orders
  BY TxAssumption DEF Kind, Order

\* The items of an order are a sequence of products and quantities.
LEMMA ItemFacts ==
  ASSUME NEW o \in Orders
  PROVE  /\ Len(Items[o]) \in Nat /\ DOMAIN Items[o] = 1 .. Len(Items[o])
         /\ \A i \in DOMAIN Items[o] :
              Items[o][i].product \in Products /\ Items[o][i].quantity \in Nat \ {0}
<1> DEFINE Item == [product : Products, quantity : Nat \ {0}]
<1>1. Items[o] \in Seq(Item)
  BY TxAssumption
<1>2. \A i \in DOMAIN Items[o] : Items[o][i] \in Item
  <2> HIDE DEF Item
  <2> QED BY <1>1
<1>3. Len(Items[o]) \in Nat /\ DOMAIN Items[o] = 1 .. Len(Items[o])
  <2> HIDE DEF Item
  <2> QED BY <1>1
<1> QED BY <1>2, <1>3

\* A row is of an item of the call that inserts it.
LEMMA RowFacts ==
  ASSUME NEW r \in Rows
  PROVE  /\ r[1] \in Calls /\ Kind(r[1]) = "reserve"
         /\ RowOrder(r) = Order(r[1]) /\ RowOrder(r) \in Orders
         /\ RowItem(r).product \in Products /\ RowItem(r).quantity \in Nat
<1>1. PICK c \in Calls : Kind(c) = "reserve" /\ \E i \in DOMAIN ItemsOf(c) : r = <<c, i>>
  BY DEF Rows
<1>2. PICK i \in DOMAIN ItemsOf(c) : r = <<c, i>>
  BY <1>1
<1>3. Order(c) \in Orders /\ Items[Order(c)][i].product \in Products
      /\ Items[Order(c)][i].quantity \in Nat
  BY <1>2, CallFacts, ItemFacts DEF ItemsOf
<1> QED BY <1>1, <1>2, <1>3 DEF RowOrder, RowItem, ItemsOf

\* A scan visits one of the rows it has to.
LEMMA NextRowFacts ==
  ASSUME NEW c, todo[c] # {}
  PROVE  NextRow(c) \in todo[c]
  BY DEF NextRow

-----------------------------------------------------------------------------
(* Types *)

LEMMA FinishTyped ==
  ASSUME TypeOK, NEW c \in Calls, NEW code \in Answers, Finish(c, code),
         available' \in [Products -> Int], reserved' \in [Products -> Int],
         row' \in [Rows -> {"none", "RESERVED", "RELEASED", "DECREMENTED"}]
  PROVE  TypeOK'
  BY DEF TypeOK, Finish, Statements, Answers

LEMMA RollbackTyped ==
  ASSUME TypeOK, NEW c \in Calls, NEW code \in Answers, Rollback(c, code)
  PROVE  TypeOK'
  BY FinishTyped DEF TypeOK, Rollback

LEMMA ReservedTyped == ASSUME NEW o PROVE Reserved(o) \subseteq Rows
  BY DEF Reserved

LEMMA ReserveTyped ==
  ASSUME TypeOK, NEW c \in Calls, ReserveItem(c) \/ CommitReserve(c)
  PROVE  TypeOK'
<1>1. CASE ReserveItem(c)
  <2> DEFINE p == ItemsOf(c)[item[c]].product
             n == ItemsOf(c)[item[c]].quantity
  <2>1. p \in Products /\ n \in Nat
    BY <1>1, CallFacts, ItemFacts DEF ReserveItem, ItemsOf
  <2>2. CASE Rollback(c, "NotFound") \/ Rollback(c, "FailedPrecondition")
    BY <2>2, RollbackTyped DEF Answers
  <2>3. CASE /\ owner' = [owner EXCEPT ![p] = c]
             /\ change' = [change EXCEPT ![c][p] = @ + n]
             /\ item' = [item EXCEPT ![c] = @ + 1]
             /\ UNCHANGED <<available, reserved, row, at, todo, found, moved, answer>>
    <3> HIDE DEF p, n
    <3>1. change[c][p] + n \in Nat
      BY <2>1 DEF TypeOK
    <3>2. change' \in [Calls -> [Products -> Nat]] /\ owner' \in [Products -> Calls \cup {NoCall}]
          /\ item' \in [Calls -> Nat]
      BY <2>1, <2>3, <3>1 DEF TypeOK
    <3> QED BY <2>3, <3>2 DEF TypeOK
  <2> QED BY <1>1, <2>2, <2>3 DEF ReserveItem
<1>2. CASE CommitReserve(c)
  <2>1. reserved' \in [Products -> Int]
    <3>1. \A p \in Products : reserved[p] + change[c][p] \in Int
      BY DEF TypeOK
    <3> QED BY <1>2, <3>1 DEF CommitReserve
  <2>2. row' \in [Rows -> {"none", "RESERVED", "RELEASED", "DECREMENTED"}]
    BY <1>2 DEF CommitReserve, TypeOK
  <2>3. available' \in [Products -> Int]
    BY <1>2 DEF CommitReserve, TypeOK
  <2> QED BY <1>2, <2>1, <2>2, <2>3, FinishTyped DEF CommitReserve, Answers
<1> QED BY <1>1, <1>2

LEMMA SettleTyped ==
  ASSUME TypeOK, NEW c \in Calls,
         VisitRow(c) \/ Selected(c) \/ SettleRow(c) \/ Settled(c) \/ CommitSettle(c)
  PROVE  TypeOK'
<1>1. CASE VisitRow(c)
  <2>1. NextRow(c) \in Rows
    BY <1>1, NextRowFacts DEF VisitRow, TypeOK
  <2> DEFINE hit == IF StillReserved(NextRow(c)) THEN {NextRow(c)} ELSE {}
  <2>2. hit \subseteq Rows
    BY <2>1
  <2>3. /\ todo' = [todo EXCEPT ![c] = @ \ {NextRow(c)}]
        /\ \/ found' = [found EXCEPT ![c] = @ \cup hit] /\ UNCHANGED moved
           \/ moved' = [moved EXCEPT ![c] = @ \cup hit] /\ UNCHANGED found
        /\ UNCHANGED <<available, reserved, row, at, item, change, owner, answer>>
    BY <1>1 DEF VisitRow
  <2> HIDE DEF hit
  <2> QED BY <2>2, <2>3 DEF TypeOK
<1>2. CASE Selected(c)
  <2>1. CASE Rollback(c, "NotFound")
    BY <2>1, RollbackTyped DEF Answers
  <2>2. CASE ~ Rollback(c, "NotFound")
    BY <1>2, <2>2 DEF Selected, TypeOK, Statements
  <2> QED BY <2>1, <2>2
<1>3. CASE SettleRow(c)
  <2> DEFINE r == NextRow(c)
             p == RowItem(r).product
             n == Taken(c, r)
  <2>1. r \in Rows
    BY <1>3, NextRowFacts DEF SettleRow, TypeOK
  <2>2. p \in Products /\ n \in Nat
    <3>1. p \in Products /\ RowItem(r).quantity \in Nat
      BY <2>1, RowFacts
    <3>2. change[c][p] \in Nat
      BY <3>1 DEF TypeOK
    <3> QED BY <3>1, <3>2 DEF Taken
  <2>3. CASE Rollback(c, "Internal")
    BY <2>3, RollbackTyped DEF Answers
  <2>4. CASE /\ owner' = [owner EXCEPT ![p] = c]
             /\ change' = [change EXCEPT ![c][p] = n]
             /\ todo' = [todo EXCEPT ![c] = @ \ {r}]
             /\ UNCHANGED <<available, reserved, row, at, item, found, moved, answer>>
    <3> HIDE DEF p, n, r
    <3>1. /\ change' \in [Calls -> [Products -> Nat]] /\ owner' \in [Products -> Calls \cup {NoCall}]
          /\ todo' \in [Calls -> SUBSET Rows]
      BY <2>2, <2>4 DEF TypeOK
    <3> QED BY <2>4, <3>1 DEF TypeOK
  <2> QED BY <1>3, <2>3, <2>4 DEF SettleRow
<1>4. CASE Settled(c)
  BY <1>4, ReservedTyped DEF Settled, TypeOK, Statements
<1>5. CASE CommitSettle(c)
  <2>1. \A p \in Products : /\ reserved[p] - change[c][p] \in Int
                            /\ available[p] - change[c][p] \in Int
    BY DEF TypeOK
  <2>2. reserved' \in [Products -> Int] /\ available' \in [Products -> Int]
    BY <1>5, <2>1 DEF CommitSettle, TypeOK
  <2>3. row' \in [Rows -> {"none", "RESERVED", "RELEASED", "DECREMENTED"}]
    BY <1>5 DEF CommitSettle, TypeOK
  <2> QED BY <1>5, <2>2, <2>3, FinishTyped DEF CommitSettle, Answers
<1> QED BY <1>1, <1>2, <1>3, <1>4, <1>5

LEMMA InitTyped == Init => TypeOK
<1> SUFFICES ASSUME Init PROVE TypeOK
  OBVIOUS
<1>1. available \in [Products -> Int]
  BY TxAssumption DEF Init
<1> QED BY <1>1 DEF Init, TypeOK, Statements

LEMMA NextTyped ==
  ASSUME TypeOK, [Next]_vars
  PROVE  TypeOK'
<1>1. CASE UNCHANGED vars
  BY <1>1 DEF vars, TypeOK
<1>2. ASSUME NEW c \in Calls, Begin(c) PROVE TypeOK'
  BY <1>2, ReservedTyped DEF Begin, TypeOK, Statements
<1>3. ASSUME NEW c \in Calls, AbortDeadlocked(c) PROVE TypeOK'
  BY <1>3, RollbackTyped DEF AbortDeadlocked, Answers
<1>4. ASSUME NEW c \in Calls, Step(c) PROVE TypeOK'
  BY <1>3, <1>4, ReserveTyped, SettleTyped DEF Step
<1> QED BY <1>1, <1>2, <1>4 DEF Next

\* Every variable of the transactions keeps its type.
THEOREM TxTyped == Spec => []TypeOK
<1>1. TypeOK /\ [Next]_vars => TypeOK'
  BY NextTyped
<1> QED BY InitTyped, <1>1, PTL DEF Spec

-----------------------------------------------------------------------------
(* Locks of the reservation rows *)

\* A row that a call has found or moved is RESERVED, and no other call has
\* found or moved it.
RowLocks ==
  \A c \in Calls : \A r \in found[c] \cup moved[c] :
     /\ row[r] = "RESERVED"
     /\ \A d \in Calls : r \in found[d] \cup moved[d] => d = c

\* Where a call is tells what it does; one that is not running has no locks
\* and no answer yet, or has them no more.
Places ==
  \A c \in Calls :
     /\ at[c] = "item" => Kind(c) = "reserve"
     /\ at[c] \in {"select", "settle", "update"} => Kind(c) \in {"release", "decrement"}
     /\ at[c] \notin {"select", "settle", "update"} => found[c] = {}
     /\ at[c] # "update" => moved[c] = {}
     /\ at[c] # "done" => answer[c] = "none"

\* Rows are those of reservations that answered OK.
RowsAnswered == \A r \in Rows : row[r] # "none" => answer[r[1]] = "OK"

\* With a row, a set of rows has every RESERVED row of the same reservation.
Whole(S) == \A r, q \in Rows : r \in S /\ r[1] = q[1] /\ row[q] = "RESERVED" => q \in S

\* A call that settles has found rows of its order.  What its last UPDATE has
\* moved and has still to visit includes them, and reservations as a whole.
Sight(c) ==
  /\ at[c] \in {"settle", "update"} => found[c] # {}
  /\ found[c] \subseteq {r \in Rows : RowOrder(r) = Order(c)}
  /\ at[c] = "select" => todo[c] \subseteq {r \in Rows : RowOrder(r) = Order(c)}
  /\ at[c] = "update" => /\ found[c] \subseteq moved[c] \cup todo[c]
                         /\ Whole(moved[c] \cup todo[c])
                         /\ \A r \in todo[c] : row[r] # "none"

Sighted == \A c \in Calls : Sight(c)

LockInv == RowLocks /\ Places /\ RowsAnswered /\ Sighted

\* A row a call may visit is no other call's.
LEMMA MayVisit ==
  ASSUME TypeOK, NEW c \in Calls, at[c] \in {"select", "update"}, todo[c] # {}, May(c),
         NEW d \in Calls, NextRow(c) \in found[d] \cup moved[d], RowLocks
  PROVE  d = c
<1> DEFINE r == NextRow(c)
           holders == {e \in Calls : r \in found[e] \cup moved[e]}
<1>1. RowOwner(r) \in {NoCall, c}
  <2>1. Holder(c) = RowOwner(r)
    BY DEF Holder
  <2> QED BY <2>1 DEF May
<1>2. d \in holders /\ holders = {d}
  BY DEF RowLocks
<1>3. RowOwner(r) = d
  BY <1>2 DEF RowOwner
<1> QED BY <1>1, <1>3, TxAssumption

\* The end of a transaction frees its locks and concerns no other call.
LEMMA FinishFrees ==
  ASSUME TypeOK, NEW c \in Calls, NEW code, Finish(c, code)
  PROVE  /\ at'[c] = "done" /\ answer'[c] = code /\ todo'[c] = {} /\ found'[c] = {} /\ moved'[c] = {}
         /\ \A d \in Calls \ {c} : /\ at'[d] = at[d] /\ answer'[d] = answer[d]
                                   /\ todo'[d] = todo[d] /\ found'[d] = found[d] /\ moved'[d] = moved[d]
  BY DEF Finish, TypeOK

\* A transaction that is rolled back leaves the rest as it is.
LEMMA RollbackLocks ==
  ASSUME TypeOK, LockInv, NEW c \in Calls, NEW code, Rollback(c, code), at[c] # "done"
  PROVE  LockInv'
<1>1. /\ at'[c] = "done" /\ todo'[c] = {} /\ found'[c] = {} /\ moved'[c] = {}
      /\ \A d \in Calls \ {c} : /\ at'[d] = at[d] /\ answer'[d] = answer[d]
                                /\ todo'[d] = todo[d] /\ found'[d] = found[d] /\ moved'[d] = moved[d]
      /\ row' = row
  BY FinishFrees DEF Rollback
<1>2. RowLocks'
  BY <1>1 DEF LockInv, RowLocks
<1>3. Places'
  BY <1>1 DEF LockInv, Places
<1>4. RowsAnswered'
  <2>1. answer[c] = "none"
    BY DEF LockInv, Places
  <2> QED BY <1>1, <2>1, RowFacts DEF LockInv, RowsAnswered
<1>5. Sighted'
  BY <1>1 DEF LockInv, Sighted, Sight, Whole
<1> QED BY <1>2, <1>3, <1>4, <1>5 DEF LockInv

\* A step that leaves the rows, their locks and the places alone.
SameLocks == UNCHANGED <<row, at, todo, found, moved, answer>>

LEMMA SameLocksKept == ASSUME LockInv, SameLocks PROVE LockInv'
  BY DEF LockInv, RowLocks, Places, RowsAnswered, Sighted, Sight, Whole, SameLocks

LEMMA BeginLocks ==
  ASSUME TypeOK, LockInv, NEW c \in Calls, Begin(c)
  PROVE  LockInv'
<1>1. /\ at[c] = "idle" /\ UNCHANGED <<row, found, moved, answer>>
      /\ at'[c] = IF Kind(c) = "reserve" THEN "item" ELSE "select"
      /\ todo'[c] = IF Kind(c) = "reserve" THEN {} ELSE Reserved(Order(c))
      /\ \A d \in Calls \ {c} : at'[d] = at[d] /\ todo'[d] = todo[d]
  BY DEF Begin, TypeOK
<1>2. Kind(c) \in Kinds
  BY CallFacts
<1>3. RowLocks'
  BY <1>1 DEF LockInv, RowLocks
<1>4. Places'
  BY <1>1, <1>2 DEF LockInv, Places, Kinds
<1>5. RowsAnswered'
  BY <1>1 DEF LockInv, RowsAnswered
<1>6. Sighted'
  <2>1. Reserved(Order(c)) \subseteq {r \in Rows : RowOrder(r) = Order(c)}
    BY DEF Reserved
  <2> QED BY <1>1, <2>1 DEF LockInv, Sighted, Sight, Whole
<1> QED BY <1>3, <1>4, <1>5, <1>6 DEF LockInv

LEMMA VisitLocks ==
  ASSUME TypeOK, LockInv, NEW c \in Calls, VisitRow(c)
  PROVE  LockInv'
<1> DEFINE r == NextRow(c)
           hit == IF StillReserved(r) THEN {r} ELSE {}
<1>1. /\ at[c] \in {"select", "update"} /\ todo[c] # {} /\ May(c)
      /\ UNCHANGED <<row, at, answer>>
  BY DEF VisitRow
<1>2. /\ todo'[c] = todo[c] \ {r}
      /\ \/ at[c] = "select" /\ found'[c] = found[c] \cup hit /\ moved' = moved
         \/ at[c] = "update" /\ moved'[c] = moved[c] \cup hit /\ found' = found
      /\ \A d \in Calls \ {c} : todo'[d] = todo[d] /\ found'[d] = found[d] /\ moved'[d] = moved[d]
  BY DEF VisitRow, TypeOK
<1>3. r \in todo[c] /\ r \in Rows
  BY <1>1, NextRowFacts DEF TypeOK
<1>4. \A d \in Calls : r \in found[d] \cup moved[d] => d = c
  BY <1>1, MayVisit DEF LockInv
<1>5. /\ hit \subseteq {r} /\ (hit # {} => row[r] = "RESERVED")
      /\ (row[r] = "RESERVED" => r \in hit)
  BY DEF StillReserved
<1> HIDE DEF r, hit
<1>6. RowLocks'
  <2>1. \A d \in Calls : found'[d] \cup moved'[d] \subseteq
                            found[d] \cup moved[d] \cup (IF d = c THEN hit ELSE {})
    BY <1>2
  <2>2. ASSUME NEW d \in Calls, NEW q \in found'[d] \cup moved'[d]
        PROVE  row'[q] = "RESERVED" /\ \A e \in Calls : q \in found'[e] \cup moved'[e] => e = d
    <3>1. CASE q \in found[d] \cup moved[d] /\ q # r
      BY <1>1, <1>5, <2>1, <3>1 DEF LockInv, RowLocks
    <3>2. CASE q = r
      <4>1. \A e \in Calls : q \in found'[e] \cup moved'[e] => e = c
        BY <1>4, <2>1, <3>2
      <4>2. d = c
        BY <2>2, <4>1
      <4>3. q \in found[c] \cup moved[c] \/ q \in hit
        BY <2>1, <2>2, <4>2
      <4>4. row[q] = "RESERVED"
        BY <1>5, <3>2, <4>3 DEF LockInv, RowLocks
      <4> QED BY <1>1, <4>1, <4>2, <4>4
    <3> QED BY <1>5, <2>1, <2>2, <3>1, <3>2
  <2> QED BY <2>2 DEF RowLocks
<1>7. Places'
  BY <1>1, <1>2 DEF LockInv, Places
<1>8. RowsAnswered'
  BY <1>1 DEF LockInv, RowsAnswered
<1>9. ASSUME at[c] = "select"
      PROVE  /\ todo'[c] \subseteq {q \in Rows : RowOrder(q) = Order(c)}
             /\ found'[c] \subseteq {q \in Rows : RowOrder(q) = Order(c)}
  <2>1. /\ found[c] \subseteq {q \in Rows : RowOrder(q) = Order(c)}
        /\ todo[c] \subseteq {q \in Rows : RowOrder(q) = Order(c)}
    BY <1>9 DEF LockInv, Sighted, Sight
  <2>2. found'[c] = found[c] \cup hit
    BY <1>2, <1>9
  <2> QED BY <1>2, <1>3, <1>5, <2>1, <2>2
<1>10. ASSUME at[c] = "update"
       PROVE  /\ found' = found
              /\ found[c] \subseteq moved'[c] \cup todo'[c]
              /\ Whole(moved'[c] \cup todo'[c])
  <2>1. /\ found[c] \subseteq moved[c] \cup todo[c]
        /\ Whole(moved[c] \cup todo[c])
    BY <1>10 DEF LockInv, Sighted, Sight
  <2>2. /\ moved'[c] \cup todo'[c] \subseteq moved[c] \cup todo[c]
        /\ \A q \in moved[c] \cup todo[c] : row[q] = "RESERVED" => q \in moved'[c] \cup todo'[c]
    BY <1>2, <1>3, <1>5, <1>10
  <2>3. \A q \in found[c] : row[q] = "RESERVED"
    BY DEF LockInv, RowLocks
  <2> QED BY <1>2, <1>10, <2>1, <2>2, <2>3 DEF Whole
<1>11. Sighted'
  <2>1. \A S : Whole(S) => Whole(S)'
    BY <1>1 DEF Whole
  <2>2. todo'[c] \subseteq todo[c] /\ at' = at /\ row' = row
    BY <1>1, <1>2
  <2> QED BY <1>1, <1>2, <1>9, <1>10, <2>1, <2>2 DEF LockInv, Sighted, Sight
<1> QED BY <1>6, <1>7, <1>8, <1>11 DEF LockInv

\* The statements between the SELECT and the UPDATE of the rows.
LEMMA MoveOnLocks ==
  ASSUME TypeOK, LockInv, NEW c \in Calls, Selected(c) \/ SettleRow(c) \/ Settled(c)
  PROVE  LockInv'
<1>1. ASSUME at[c] \in {"select", "settle"}, at'[c] \in {"settle", "update"}, found[c] # {},
             \A d \in Calls \ {c} : at'[d] = at[d] /\ todo'[d] = todo[d],
             at'[c] = "update" => at[c] = "settle" /\ todo'[c] = Reserved(Order(c)),
             UNCHANGED <<row, found, moved, answer>>
      PROVE  LockInv'
  <2>1. RowLocks'
    BY <1>1 DEF LockInv, RowLocks
  <2>2. Places'
    BY <1>1 DEF LockInv, Places
  <2>3. RowsAnswered'
    BY <1>1 DEF LockInv, RowsAnswered
  <2>4. /\ found[c] \subseteq Reserved(Order(c))
        /\ \A r \in Reserved(Order(c)) : row[r] # "none"
        /\ Whole(Reserved(Order(c)))
    <3>1. \A r \in found[c] : r \in Rows /\ RowOrder(r) = Order(c) /\ row[r] = "RESERVED"
      BY DEF LockInv, RowLocks, Sighted, Sight
    <3>2. \A r, q \in Rows : r[1] = q[1] => RowOrder(r) = RowOrder(q)
      BY RowFacts
    <3> QED BY <3>1, <3>2 DEF Reserved, Whole
  <2>5. moved[c] = {}
    BY <1>1 DEF LockInv, Places
  <2>6. Sighted'
    <3>1. \A S : Whole(S) => Whole(S)'
      BY <1>1 DEF Whole
    <3> QED BY <1>1, <2>4, <2>5, <3>1 DEF LockInv, Sighted, Sight
  <2> QED BY <2>1, <2>2, <2>3, <2>6 DEF LockInv
<1>2. CASE Selected(c)
  <2>1. CASE Rollback(c, "NotFound")
    BY <1>2, <2>1, RollbackLocks DEF Selected
  <2>2. CASE ~ Rollback(c, "NotFound")
    <3>1. /\ at[c] = "select" /\ todo[c] = {} /\ found[c] # {} /\ at'[c] = "settle"
          /\ \A d \in Calls \ {c} : at'[d] = at[d] /\ todo'[d] = todo[d]
          /\ UNCHANGED <<row, found, moved, answer>>
      BY <1>2, <2>2 DEF Selected, TypeOK
    <3> QED BY <1>1, <3>1
  <2> QED BY <2>1, <2>2
<1>3. CASE SettleRow(c)
  <2>1. CASE Rollback(c, "Internal")
    BY <1>3, <2>1, RollbackLocks DEF SettleRow
  <2>2. CASE ~ Rollback(c, "Internal")
    <3>1. /\ at[c] = "settle" /\ UNCHANGED <<row, at, found, moved, answer>>
          /\ \A d \in Calls \ {c} : todo'[d] = todo[d]
      BY <1>3, <2>2 DEF SettleRow, TypeOK
    <3>2. found[c] # {}
      BY <3>1 DEF LockInv, Sighted, Sight
    <3> QED BY <1>1, <3>1, <3>2
  <2> QED BY <2>1, <2>2
<1>4. CASE Settled(c)
  <2>1. /\ at[c] = "settle" /\ at'[c] = "update" /\ todo'[c] = Reserved(Order(c))
        /\ \A d \in Calls \ {c} : at'[d] = at[d] /\ todo'[d] = todo[d]
        /\ UNCHANGED <<row, found, moved, answer>>
    BY <1>4 DEF Settled, TypeOK
  <2>2. found[c] # {}
    BY <2>1 DEF LockInv, Sighted, Sight
  <2> QED BY <1>1, <2>1, <2>2
<1> QED BY <1>2, <1>3, <1>4

LEMMA CommitReserveLocks ==
  ASSUME TypeOK, LockInv, NEW c \in Calls, CommitReserve(c)
  PROVE  LockInv'
<1>1. /\ at[c] = "item" /\ Kind(c) = "reserve"
      /\ at'[c] = "done" /\ todo'[c] = {} /\ found'[c] = {} /\ moved'[c] = {}
      /\ \A d \in Calls \ {c} : /\ at'[d] = at[d] /\ answer'[d] = answer[d]
                                /\ todo'[d] = todo[d] /\ found'[d] = found[d] /\ moved'[d] = moved[d]
      /\ \A r \in Rows : row'[r] = IF r[1] = c THEN "RESERVED" ELSE row[r]
  BY FinishFrees DEF CommitReserve, LockInv, Places
<1>2. \A d \in Calls : found[d] \subseteq Rows /\ moved[d] \subseteq Rows
  BY DEF TypeOK
<1>3. RowLocks'
  BY <1>1, <1>2 DEF LockInv, RowLocks
<1>4. Places'
  BY <1>1 DEF LockInv, Places
<1>5. RowsAnswered'
  <2>1. answer'[c] = "OK"
    BY FinishFrees DEF CommitReserve
  <2> QED BY <1>1, <2>1, RowFacts DEF LockInv, RowsAnswered
<1>6. ASSUME NEW d \in Calls, at[d] = "update", NEW r \in Rows, r \in moved[d] \cup todo[d]
      PROVE  r[1] # c
  <2>1. row[r] # "none"
    BY <1>6 DEF LockInv, RowLocks, Sighted, Sight
  <2>2. answer[c] = "none"
    BY <1>1 DEF LockInv, Places
  <2> QED BY <2>1, <2>2 DEF LockInv, RowsAnswered
<1>7. \A d \in Calls : at[d] = "update" => Whole(moved[d] \cup todo[d])'
  <2> SUFFICES ASSUME NEW d \in Calls, at[d] = "update", NEW r \in Rows, NEW q \in Rows,
                      r \in moved'[d] \cup todo'[d], r[1] = q[1], row'[q] = "RESERVED"
               PROVE  q \in moved'[d] \cup todo'[d]
    BY DEF Whole
  <2>1. d # c /\ r \in moved[d] \cup todo[d]
    BY <1>1
  <2>2. row[q] = "RESERVED"
    BY <1>1, <1>6, <2>1
  <2> QED BY <1>1, <2>1, <2>2 DEF LockInv, Sighted, Sight, Whole
<1>8. Sighted'
  <2>1. \A r \in Rows : row[r] # "none" => row'[r] # "none"
    BY <1>1
  <2>2. ASSUME NEW d \in Calls, d # c PROVE Sight(d)'
    <3>1. /\ Sight(d) /\ at'[d] = at[d] /\ todo'[d] = todo[d] /\ found'[d] = found[d] /\ todo[d] \subseteq Rows
      BY <1>1, <2>2 DEF LockInv, Sighted, TypeOK
    <3> QED BY <1>1, <1>7, <2>1, <2>2, <3>1 DEF Sight
  <2>3. Sight(c)'
    BY <1>1 DEF Sight
  <2> QED BY <2>2, <2>3 DEF Sighted
<1> QED BY <1>3, <1>4, <1>5, <1>8 DEF LockInv

\* What the commit of a Release or a Decrement does to the rows.
LEMMA RowsSettled ==
  ASSUME TypeOK, LockInv, NEW c \in Calls, CommitSettle(c)
  PROVE  /\ at[c] = "update" /\ Kind(c) \in {"release", "decrement"} /\ answer'[c] = "OK"
         /\ \A r \in Rows : row'[r] = IF r \in moved[c]
                                       THEN IF Kind(c) = "release" THEN "RELEASED" ELSE "DECREMENTED"
                                       ELSE row[r]
         /\ Whole(moved[c]) /\ found[c] \subseteq moved[c] /\ found[c] # {}
<1>1. at[c] = "update" /\ todo[c] = {} /\ answer'[c] = "OK"
  BY FinishFrees DEF CommitSettle
<1>2. moved[c] \cup todo[c] = moved[c]
  BY <1>1
<1>3. Whole(moved[c]) /\ found[c] \subseteq moved[c] /\ found[c] # {}
  BY <1>1, <1>2 DEF LockInv, Sighted, Sight
<1> QED BY <1>1, <1>3 DEF CommitSettle

LEMMA CommitSettleLocks ==
  ASSUME TypeOK, LockInv, NEW c \in Calls, CommitSettle(c)
  PROVE  LockInv'
<1>1. /\ at'[c] = "done" /\ todo'[c] = {} /\ found'[c] = {} /\ moved'[c] = {}
      /\ \A d \in Calls \ {c} : /\ at'[d] = at[d] /\ answer'[d] = answer[d]
                                /\ todo'[d] = todo[d] /\ found'[d] = found[d] /\ moved'[d] = moved[d]
  BY FinishFrees DEF CommitSettle
<1>2. \A r \in Rows : r \notin moved[c] => row'[r] = row[r]
  BY RowsSettled
<1>3. \A r \in Rows : row'[r] = "RESERVED" => row[r] = "RESERVED"
  BY RowsSettled
<1>4. \A d \in Calls : found[d] \subseteq Rows /\ moved[d] \subseteq Rows
  BY DEF TypeOK
<1>5. RowLocks'
  <2>1. ASSUME NEW d \in Calls, NEW r \in found'[d] \cup moved'[d]
        PROVE  row'[r] = "RESERVED" /\ \A e \in Calls : r \in found'[e] \cup moved'[e] => e = d
    <3>1. d # c /\ r \in found[d] \cup moved[d] /\ r \in Rows
      BY <1>1, <1>4, <2>1
    <3>2. row[r] = "RESERVED" /\ \A e \in Calls : r \in found[e] \cup moved[e] => e = d
      BY <3>1 DEF LockInv, RowLocks
    <3>3. r \notin moved[c]
      BY <3>1, <3>2
    <3> QED BY <1>1, <1>2, <3>1, <3>2, <3>3
  <2> QED BY <2>1 DEF RowLocks
<1>6. Places'
  BY <1>1 DEF LockInv, Places
<1>7. \A r \in Rows : row[r] = "none" <=> row'[r] = "none"
  <2>1. \A r \in moved[c] : row[r] = "RESERVED"
    BY DEF LockInv, RowLocks
  <2> QED BY <2>1, RowsSettled
<1>8. RowsAnswered'
  <2>1. answer'[c] = "OK"
    BY RowsSettled
  <2> QED BY <1>1, <1>7, <2>1, RowFacts DEF LockInv, RowsAnswered
<1>9. Sighted'
  <2>1. \A S : Whole(S) => Whole(S)'
    BY <1>3 DEF Whole
  <2>2. ASSUME NEW d \in Calls, d # c PROVE Sight(d)'
    <3>1. Sight(d) /\ todo[d] \subseteq Rows
      BY DEF LockInv, Sighted, TypeOK
    <3>2. /\ at'[d] = at[d] /\ todo'[d] = todo[d] /\ found'[d] = found[d] /\ moved'[d] = moved[d]
      BY <1>1, <2>2
    <3> QED BY <1>7, <2>1, <3>1, <3>2 DEF Sight
  <2>3. Sight(c)'
    BY <1>1 DEF Sight
  <2> QED BY <2>2, <2>3 DEF Sighted
<1> QED BY <1>5, <1>6, <1>8, <1>9 DEF LockInv

LEMMA InitLocks == Init => LockInv
<1> SUFFICES ASSUME Init PROVE LockInv
  OBVIOUS
<1>1. /\ \A c \in Calls : /\ at[c] = "idle" /\ found[c] = {} /\ moved[c] = {}
                          /\ answer[c] = "none"
      /\ \A r \in Rows : row[r] = "none"
  BY DEF Init
<1> QED BY <1>1 DEF LockInv, RowLocks, Places, RowsAnswered, Sighted, Sight

LEMMA NextLocks ==
  ASSUME TypeOK, LockInv, [Next]_vars
  PROVE  LockInv'
<1>1. CASE UNCHANGED vars
  BY <1>1, SameLocksKept DEF vars, SameLocks
<1>2. ASSUME NEW c \in Calls, ReserveItem(c) PROVE LockInv'
  <2>1. CASE SameLocks
    BY <2>1, SameLocksKept
  <2>2. CASE ~ SameLocks
    <3>1. Rollback(c, "NotFound") \/ Rollback(c, "FailedPrecondition")
      BY <1>2, <2>2 DEF ReserveItem, SameLocks
    <3> QED BY <1>2, <3>1, RollbackLocks DEF ReserveItem, MayReserve
  <2> QED BY <2>1, <2>2
<1>3. ASSUME NEW c \in Calls, AbortDeadlocked(c) PROVE LockInv'
  <2>1. ~ May(c)
    BY <1>3 DEF AbortDeadlocked, Deadlocked
  <2>2. at[c] # "done"
    BY <2>1 DEF May, Holder
  <2> QED BY <1>3, <2>2, RollbackLocks DEF AbortDeadlocked
<1>4. ASSUME NEW c \in Calls, Begin(c) \/ Step(c) PROVE LockInv'
  BY <1>2, <1>3, <1>4, BeginLocks, VisitLocks, MoveOnLocks, CommitReserveLocks, CommitSettleLocks DEF Step
<1> QED BY <1>1, <1>4 DEF Next

-----------------------------------------------------------------------------
(* Settling once *)

\* The reservations of an order that were made and have been settled.
Gone(o) ==
  {d \in Calls : /\ Kind(d) = "reserve" /\ Order(d) = o /\ answer[d] = "OK"
                 /\ \A r \in Rows : r[1] = d => row[r] # "RESERVED"}

Settlers(o) == Answered(o, {"release", "decrement"})

\* Every call that settled something settled another reservation.
OneEach == \A o \in Orders : Cardinality(Settlers(o)) <= Cardinality(Gone(o))

LEMMA CountsTyped ==
  ASSUME IsFiniteSet(Calls), NEW o
  PROVE  /\ IsFiniteSet(Settlers(o)) /\ Cardinality(Settlers(o)) \in Nat
         /\ IsFiniteSet(Gone(o)) /\ Cardinality(Gone(o)) \in Nat
<1>1. Settlers(o) \subseteq Calls /\ Gone(o) \subseteq Calls
  BY DEF Settlers, Answered, Gone
<1> QED BY <1>1, FS_Subset, FS_CardinalityType

\* Of two sets that grow the one that counts more gains as many.
LEMMA CountsGrow ==
  ASSUME IsFiniteSet(Calls), NEW S, NEW T, NEW G, NEW H,
         IsFiniteSet(S), G \subseteq H, H \subseteq Calls, Cardinality(S) <= Cardinality(G),
         \/ T = S
         \/ \E c, d : T = S \cup {c} /\ d \in H \ G
  PROVE  Cardinality(T) <= Cardinality(H)
<1>1. /\ IsFiniteSet(H) /\ IsFiniteSet(G)
      /\ Cardinality(G) <= Cardinality(H)
      /\ Cardinality(G) \in Nat /\ Cardinality(H) \in Nat /\ Cardinality(S) \in Nat
  BY FS_Subset, FS_CardinalityType
<1>2. CASE T = S
  BY <1>1, <1>2
<1>3. ASSUME NEW c, NEW d, T = S \cup {c}, d \in H \ G PROVE Cardinality(T) <= Cardinality(H)
  <2>1. Cardinality(T) <= Cardinality(S) + 1 /\ Cardinality(T) \in Nat
    <3>1. CASE c \in S
      <4>1. T = S
        BY <1>3, <3>1
      <4> QED BY <1>1, <4>1
    <3>2. CASE c \notin S
      <4>1. Cardinality(S \cup {c}) = Cardinality(S) + 1
        BY <3>2, FS_AddElement
      <4> QED BY <1>1, <1>3, <4>1
    <3> QED BY <3>1, <3>2
  <2>2. Cardinality(G \cup {d}) = Cardinality(G) + 1
    BY <1>1, <1>3, FS_AddElement
  <2>3. G \cup {d} \subseteq H
    BY <1>3
  <2>4. Cardinality(G \cup {d}) <= Cardinality(H)
    BY <1>1, <2>3, FS_Subset
  <2> QED BY <1>1, <2>1, <2>2, <2>4
<1> QED BY <1>2, <1>3

\* What was answered stays answered.
LEMMA AnswersStay ==
  ASSUME TypeOK, LockInv, NEW c \in Calls, Begin(c) \/ Step(c),
         NEW d \in Calls, answer[d] = "OK"
  PROVE  answer'[d] = "OK"
<1>1. CASE UNCHANGED answer
  BY <1>1
<1>2. ASSUME NEW code, Finish(c, code), at[c] # "done" PROVE answer'[d] = "OK"
  BY <1>2, FinishFrees DEF LockInv, Places
<1>3. CASE AbortDeadlocked(c)
  <2>1. ~ May(c)
    BY <1>3 DEF AbortDeadlocked, Deadlocked
  <2>2. at[c] # "done"
    BY <2>1 DEF May, Holder
  <2> QED BY <1>2, <1>3, <2>2 DEF AbortDeadlocked, Rollback
<1> QED BY <1>1, <1>2, <1>3
        DEF Begin, Step, ReserveItem, MayReserve, CommitReserve, VisitRow, Selected, SettleRow,
            Settled, CommitSettle, Rollback

LEMMA OneEachKept ==
  ASSUME IsFiniteSet(Calls), TypeOK, LockInv, OneEach,
         NEW c \in Calls, Begin(c) \/ Step(c)
  PROVE  OneEach'
<1> SUFFICES ASSUME NEW o \in Orders
             PROVE  Cardinality(Settlers(o)') <= Cardinality(Gone(o)')
  BY DEF OneEach
<1>1. \A d \in Calls : answer[d] = "OK" => answer'[d] = "OK"
  BY AnswersStay
<1>2. Gone(o)' \subseteq Calls /\ IsFiniteSet(Settlers(o)) /\ Cardinality(Settlers(o)) <= Cardinality(Gone(o))
  BY CountsTyped DEF Gone, OneEach
<1>3. CASE CommitReserve(c)
  <2>1. /\ \A d \in Calls \ {c} : answer'[d] = answer[d]
        /\ \A r \in Rows : row'[r] = IF r[1] = c THEN "RESERVED" ELSE row[r]
        /\ Kind(c) = "reserve" /\ answer[c] = "none"
    BY <1>3, FinishFrees DEF CommitReserve, LockInv, Places
  <2>2. Settlers(o)' = Settlers(o)
    BY <2>1 DEF Settlers, Answered
  <2>3. Gone(o) \subseteq Gone(o)'
    BY <1>1, <2>1 DEF Gone
  <2> QED BY <1>2, <2>2, <2>3, CountsGrow
<1>4. CASE CommitSettle(c)
  <2>1. /\ \A d \in Calls \ {c} : answer'[d] = answer[d]
        /\ Kind(c) \in {"release", "decrement"}
        /\ \A r \in Rows : row'[r] = "RESERVED" => row[r] = "RESERVED"
    BY <1>4, FinishFrees, RowsSettled DEF CommitSettle
  <2>2. Gone(o) \subseteq Gone(o)'
    BY <1>1, <2>1 DEF Gone
  <2>3. CASE o # Order(c)
    <3>1. Settlers(o)' = Settlers(o)
      BY <2>1, <2>3 DEF Settlers, Answered
    <3> QED BY <1>2, <2>2, <3>1, CountsGrow
  <2>4. CASE o = Order(c)
    <3>1. Settlers(o)' = Settlers(o) \cup {c}
      BY <1>4, <2>1, <2>4, RowsSettled DEF Settlers, Answered
    <3>2. PICK r \in found[c] : r \in Rows /\ RowOrder(r) = o /\ row[r] = "RESERVED"
      <4>1. found[c] # {}
        BY <1>4, RowsSettled
      <4>2. \A r \in found[c] : r \in Rows /\ RowOrder(r) = o /\ row[r] = "RESERVED"
        BY <2>4 DEF LockInv, Sighted, Sight, RowLocks
      <4> QED BY <4>1, <4>2
    <3>3. /\ r[1] \in Calls /\ Kind(r[1]) = "reserve" /\ Order(r[1]) = o
          /\ answer[r[1]] = "OK"
      BY <3>2, RowFacts DEF LockInv, RowsAnswered
    <3>4. \A q \in Rows : q[1] = r[1] => row'[q] # "RESERVED"
      <4>1. r \in moved[c] /\ Whole(moved[c])
        BY <1>4, <3>2, RowsSettled
      <4>2. \A q \in Rows : q[1] = r[1] /\ row[q] = "RESERVED" => q \in moved[c]
        BY <3>2, <4>1 DEF Whole
      <4> QED BY <1>4, <4>2, RowsSettled
    <3>5. r[1] \in Gone(o)' \ Gone(o)
      BY <1>1, <3>2, <3>3, <3>4 DEF Gone
    <3> QED BY <1>2, <2>2, <3>1, <3>5, CountsGrow
  <2> QED BY <2>3, <2>4
<1>5. CASE row' = row /\ \A d \in Calls : answer'[d] = "OK" => answer[d] = "OK"
  <2>1. Settlers(o)' = Settlers(o)
    BY <1>1, <1>5 DEF Settlers, Answered
  <2>2. Gone(o) \subseteq Gone(o)'
    BY <1>1, <1>5 DEF Gone
  <2> QED BY <1>2, <2>1, <2>2, CountsGrow
<1>6. ASSUME NEW code \in Answers \ {"OK"}, Rollback(c, code)
      PROVE  row' = row /\ \A d \in Calls : answer'[d] = "OK" => answer[d] = "OK"
  BY <1>6, FinishFrees DEF Rollback
<1>7. ASSUME ~ CommitReserve(c), ~ CommitSettle(c)
      PROVE  row' = row /\ \A d \in Calls : answer'[d] = "OK" => answer[d] = "OK"
  <2>1. CASE UNCHANGED <<row, answer>>
    BY <2>1
  <2>2. CASE ~ UNCHANGED <<row, answer>>
    <3>1. Rollback(c, "NotFound") \/ Rollback(c, "FailedPrecondition") \/ Rollback(c, "Internal")
      BY <1>7, <2>2 DEF Begin, Step, ReserveItem, VisitRow, Selected, SettleRow, Settled, AbortDeadlocked
    <3> QED BY <1>6, <3>1 DEF Answers
  <2> QED BY <2>1, <2>2
<1> QED BY <1>3, <1>4, <1>5, <1>7

\* A reservation is settled once, whatever the interleaving of the statements
\* of Release and Decrement calls: every call that answers OK has found a
\* reservation that no other settled, also when a retried ReserveStock adds
\* rows meanwhile.
THEOREM SettlesOnce ==
  ASSUME IsFiniteSet(Calls)
  PROVE  Spec => []SettledOnce
<1>1. Init => OneEach
  <2> SUFFICES ASSUME Init PROVE OneEach
    OBVIOUS
  <2>1. \A c \in Calls : answer[c] = "none"
    BY DEF Init
  <2>2. \A o \in Orders : Settlers(o) = {} /\ Gone(o) = {}
    BY <2>1 DEF Settlers, Answered, Gone
  <2> QED BY <2>2, FS_EmptySet DEF OneEach
<1>2. TypeOK /\ LockInv /\ OneEach /\ [Next]_vars
        => LockInv' /\ OneEach'
  <2> SUFFICES ASSUME TypeOK, LockInv, OneEach, [Next]_vars
               PROVE  OneEach'
    BY NextLocks
  <2>1. CASE UNCHANGED vars
    BY <2>1 DEF vars, OneEach, Settlers, Answered, Gone
  <2>2. ASSUME NEW c \in Calls, Begin(c) \/ Step(c) PROVE OneEach'
    BY <2>2, OneEachKept
  <2> QED BY <2>1, <2>2 DEF Next
<1>3. OneEach => SettledOnce
  <2> SUFFICES ASSUME OneEach, NEW o \in Orders
               PROVE  Cardinality(Settlers(o)) <= Cardinality(Answered(o, {"reserve"}))
    BY DEF SettledOnce, Settlers
  <2>1. Gone(o) \subseteq Answered(o, {"reserve"}) /\ Answered(o, {"reserve"}) \subseteq Calls
    BY DEF Gone, Answered
  <2>2. /\ Cardinality(Gone(o)) <= Cardinality(Answered(o, {"reserve"}))
        /\ Cardinality(Answered(o, {"reserve"})) \in Nat
    <3>1. IsFiniteSet(Answered(o, {"reserve"}))
      BY <2>1, FS_Subset
    <3> QED BY <2>1, <3>1, FS_Subset, FS_CardinalityType
  <2> QED BY <2>2, CountsTyped DEF OneEach
<1> QED BY <1>1, <1>2, <1>3, InitLocks, TxTyped, PTL DEF Spec

-----------------------------------------------------------------------------
(* Sums *)

\* The lemmas about sums of InventoryProofs are about no stock in particular:
\* this is the stock without products and orders.
Sums == INSTANCE InventoryProofs WITH
  Products <- {}, Orders <- {}, Demand <- <<>>, InitialStock <- [p \in {} |-> 0],
  MaxBatches <- 0, listed <- {}, active <- {}, available <- <<>>, reserved <- <<>>,
  rows <- <<>>

LEMMA SumsApply ==
  /\ Sums!StockConstants
  /\ \A f, S : Sums!SumFunctionOnSet(f, S) = SumFunctionOnSet(f, S)
  /\ \A S : Sums!IsFiniteSet(S) <=> IsFiniteSet(S)
<1>1. Sums!StockConstants
  BY DEF Sums!StockConstants
<1>2. ASSUME NEW f, NEW S PROVE Sums!SumFunctionOnSet(f, S) = SumFunctionOnSet(f, S)
  BY DEF Sums!SumFunctionOnSet, SumFunctionOnSet, Sums!FoldFunctionOnSet, FoldFunctionOnSet,
         Sums!MapThenFoldSet, MapThenFoldSet
<1>3. ASSUME NEW S PROVE Sums!IsFiniteSet(S) <=> IsFiniteSet(S)
  BY DEF Sums!IsFiniteSet, IsFiniteSet
<1> QED BY <1>1, <1>2, <1>3

\* A sum of natural numbers is one, and that of an empty set is zero.
LEMMA SumType ==
  ASSUME NEW S, IsFiniteSet(S), NEW f, \A x \in S : f[x] \in Nat
  PROVE  /\ SumFunctionOnSet(f, S) \in Nat
         /\ S = {} => SumFunctionOnSet(f, S) = 0
  BY SumsApply, Sums!SumOfNats

\* An element adds its value.
LEMMA SumRemove ==
  ASSUME NEW S, IsFiniteSet(S), NEW f, \A x \in S : f[x] \in Nat, NEW x \in S
  PROVE  SumFunctionOnSet(f, S) = f[x] + SumFunctionOnSet(f, S \ {x})
  BY SumsApply, Sums!SumRemove

LEMMA SumUnion ==
  ASSUME NEW S, IsFiniteSet(S), NEW f, \A x \in S : f[x] \in Nat, NEW T \in SUBSET S
  PROVE  SumFunctionOnSet(f, S) = SumFunctionOnSet(f, T) + SumFunctionOnSet(f, S \ T)
  BY SumsApply, Sums!SumUnion

LEMMA SumRenamed ==
  ASSUME NEW S, IsFiniteSet(S), NEW f, \A x \in S : f[x] \in Nat,
         NEW T, IsFiniteSet(T), NEW g, \A y \in T : g[y] \in Nat,
         NEW name, \A x \in S : name[x] \in T /\ g[name[x]] = f[x],
         \A x, y \in S : name[x] = name[y] => x = y,
         \A z \in T : \E x \in S : z = name[x]
  PROVE  SumFunctionOnSet(g, T) = SumFunctionOnSet(f, S)
  BY SumsApply, Sums!SumRenamed

\* Induction over the subsets of a finite set.
LEMMA SmallestSubset ==
  ASSUME NEW S, IsFiniteSet(S), NEW B, B \subseteq SUBSET S, B # {}
  PROVE  \E T \in B : \A U \in B : U \subseteq T => U = T
  BY SumsApply, Sums!SmallestSubset

-----------------------------------------------------------------------------
(* What the items of an order and the rows of a reservation add up to *)

RowQuantities == [r \in Rows |-> RowItem(r).quantity]

\* The quantity of p in a set of rows.
RowSum(U, p) == SumFunctionOnSet(RowQuantities, {r \in U : RowItem(r).product = p})

\* The quantity of p in the items of o.
Asks(o, p) == SumFunctionOnSet(Quantities(o), ItemsFor(o, p))

RowsOfCalls(B) == {r \in Rows : r[1] \in B}

\* A row and its item.
LEMMA RowShape ==
  /\ \A r \in Rows : r = <<r[1], r[2]>> /\ r[2] \in DOMAIN ItemsOf(r[1]) /\ RowQuantities[r] \in Nat
  /\ \A c \in Calls : Kind(c) = "reserve" =>
       \A i \in DOMAIN ItemsOf(c) : /\ <<c, i>> \in Rows
                                    /\ RowItem(<<c, i>>) = ItemsOf(c)[i]
<1>1. ASSUME NEW r \in Rows PROVE r = <<r[1], r[2]>> /\ r[2] \in DOMAIN ItemsOf(r[1])
  <2>1. PICK c \in Calls : Kind(c) = "reserve" /\ \E i \in DOMAIN ItemsOf(c) : r = <<c, i>>
    BY DEF Rows
  <2> QED BY <2>1
<1>2. ASSUME NEW r \in Rows PROVE RowQuantities[r] \in Nat
  BY RowFacts DEF RowQuantities
<1>3. ASSUME NEW c \in Calls, Kind(c) = "reserve", NEW i \in DOMAIN ItemsOf(c)
      PROVE  <<c, i>> \in Rows
  BY <1>3 DEF Rows
<1> QED BY <1>1, <1>2, <1>3 DEF RowItem

LEMMA RowsFinite == ASSUME IsFiniteSet(Calls) PROVE IsFiniteSet(Rows)
<1> DEFINE Bad == {B \in SUBSET Calls : ~ IsFiniteSet(RowsOfCalls(B))}
<1>1. ASSUME NEW c \in Calls PROVE IsFiniteSet(RowsOfCalls({c}))
  <2>1. CASE Kind(c) = "reserve"
    <3> DEFINE name == [i \in DOMAIN ItemsOf(c) |-> <<c, i>>]
    <3>1. IsFiniteSet(DOMAIN ItemsOf(c))
      BY CallFacts, ItemFacts, FS_Interval DEF ItemsOf
    <3>2. \A i \in DOMAIN ItemsOf(c) : <<c, i>> \in RowsOfCalls({c})
      BY <2>1, RowShape DEF RowsOfCalls
    <3>3. \A r \in RowsOfCalls({c}) : \E i \in DOMAIN ItemsOf(c) : name[i] = r
      BY RowShape DEF RowsOfCalls
    <3>4. name \in Surjection(DOMAIN ItemsOf(c), RowsOfCalls({c}))
      BY <3>2, <3>3 DEF Surjection
    <3> QED BY <3>1, <3>4, FS_Surjection
  <2>2. CASE Kind(c) # "reserve"
    <3>1. RowsOfCalls({c}) = {}
      BY <2>2, RowFacts DEF RowsOfCalls
    <3> QED BY <3>1, FS_EmptySet
  <2> QED BY <2>1, <2>2
<1>2. ASSUME NEW B \in Bad, \A U \in Bad : U \subseteq B => U = B PROVE FALSE
  <2>1. CASE B = {}
    <3>1. RowsOfCalls({}) = {}
      BY DEF RowsOfCalls
    <3> QED BY <1>2, <2>1, <3>1, FS_EmptySet
  <2>2. CASE B # {}
    <3>1. PICK c \in B : TRUE
      BY <2>2
    <3>2. IsFiniteSet(RowsOfCalls(B \ {c}))
      BY <1>2, <3>1
    <3>3. RowsOfCalls(B) = RowsOfCalls(B \ {c}) \cup RowsOfCalls({c})
      BY <3>1 DEF RowsOfCalls
    <3>4. IsFiniteSet(RowsOfCalls({c}))
      BY <1>1, <1>2, <3>1
    <3>5. IsFiniteSet(RowsOfCalls(B \ {c}) \cup RowsOfCalls({c}))
      BY <3>2, <3>4, FS_Union
    <3> QED BY <1>2, <3>3, <3>5
  <2> QED BY <2>1, <2>2
<1>3. Bad = {}
  <2>1. Bad \subseteq SUBSET Calls
    OBVIOUS
  <2> HIDE DEF Bad
  <2> QED BY <1>2, <2>1, SmallestSubset
<1>4. IsFiniteSet(RowsOfCalls(Calls))
  BY <1>3
<1>5. RowsOfCalls(Calls) = Rows
  BY RowFacts DEF RowsOfCalls
<1> QED BY <1>4, <1>5

LEMMA RowSumType ==
  ASSUME IsFiniteSet(Calls), NEW U, U \subseteq Rows, NEW p
  PROVE  /\ RowSum(U, p) \in Nat
         /\ U = {} => RowSum(U, p) = 0
         /\ \A T \in SUBSET U : RowSum(U, p) = RowSum(T, p) + RowSum(U \ T, p)
         /\ \A r \in Rows : RowSum({r}, p) = IF RowItem(r).product = p THEN RowItem(r).quantity ELSE 0
<1> DEFINE of(S) == {r \in S : RowItem(r).product = p}
<1>1. ASSUME NEW S, S \subseteq Rows
      PROVE  IsFiniteSet(of(S)) /\ \A r \in of(S) : RowQuantities[r] \in Nat
  BY <1>1, RowsFinite, RowShape, FS_Subset
<1>2. ASSUME NEW T \in SUBSET U PROVE RowSum(U, p) = RowSum(T, p) + RowSum(U \ T, p)
  <2>1. of(T) \in SUBSET of(U) /\ of(U) \ of(T) = of(U \ T)
    OBVIOUS
  <2>2. IsFiniteSet(of(U)) /\ \A r \in of(U) : RowQuantities[r] \in Nat
    BY <1>1
  <2> HIDE DEF of
  <2>3. SumFunctionOnSet(RowQuantities, of(U))
          = SumFunctionOnSet(RowQuantities, of(T)) + SumFunctionOnSet(RowQuantities, of(U) \ of(T))
    BY <2>1, <2>2, SumUnion
  <2> QED BY <2>1, <2>3 DEF RowSum, of
<1>3. ASSUME NEW r \in Rows
      PROVE  RowSum({r}, p) = IF RowItem(r).product = p THEN RowItem(r).quantity ELSE 0
  <2>1. of({r}) = IF RowItem(r).product = p THEN {r} ELSE {}
    OBVIOUS
  <2>2. SumFunctionOnSet(RowQuantities, {}) = 0
    BY SumType, FS_EmptySet
  <2>3. SumFunctionOnSet(RowQuantities, {r}) = RowQuantities[r] + SumFunctionOnSet(RowQuantities, {r} \ {r})
    BY RowShape, SumRemove, FS_Singleton
  <2>4. {r} \ {r} = {} /\ RowQuantities[r] = RowItem(r).quantity /\ RowItem(r).quantity \in Nat
    BY RowFacts DEF RowQuantities
  <2>5. SumFunctionOnSet(RowQuantities, {r}) = RowItem(r).quantity
    BY <2>2, <2>3, <2>4
  <2> HIDE DEF of
  <2> QED BY <2>1, <2>2, <2>5 DEF RowSum, of
<1>4. RowSum(U, p) \in Nat /\ (U = {} => RowSum(U, p) = 0)
  <2>1. IsFiniteSet(of(U)) /\ (\A r \in of(U) : RowQuantities[r] \in Nat) /\ (U = {} => of(U) = {})
    BY <1>1
  <2> HIDE DEF of
  <2> QED BY <2>1, SumType DEF RowSum, of
<1> QED BY <1>2, <1>3, <1>4

LEMMA AsksType ==
  ASSUME NEW o \in Orders, NEW p
  PROVE  /\ IsFiniteSet(ItemsFor(o, p)) /\ \A i \in ItemsFor(o, p) : Quantities(o)[i] \in Nat
         /\ Asks(o, p) \in Nat
         /\ p \notin Asked(o) => Asks(o, p) = 0
<1>1. ItemsFor(o, p) \subseteq 1 .. Len(Items[o]) /\ Len(Items[o]) \in Nat
      /\ \A i \in ItemsFor(o, p) : Quantities(o)[i] \in Nat
  BY ItemFacts DEF ItemsFor, Quantities
<1>2. IsFiniteSet(ItemsFor(o, p))
  <2>1. IsFiniteSet(1 .. Len(Items[o]))
    BY <1>1, FS_Interval
  <2> QED BY <1>1, <2>1, FS_Subset
<1>3. p \notin Asked(o) => ItemsFor(o, p) = {}
  BY DEF Asked, ItemsFor
<1> QED BY <1>1, <1>2, <1>3, SumType DEF Asks

\* The rows of one reservation hold what the order asks.
LEMMA OneBatch ==
  ASSUME IsFiniteSet(Calls), NEW c \in Calls, Kind(c) = "reserve", NEW p
  PROVE  RowSum(RowsOfCalls({c}), p) = Asks(Order(c), p)
<1> DEFINE S == ItemsFor(Order(c), p)
           f == Quantities(Order(c))
           T == {r \in RowsOfCalls({c}) : RowItem(r).product = p}
           name == [i \in S |-> <<c, i>>]
<1>1. IsFiniteSet(S) /\ \A i \in S : f[i] \in Nat
  BY CallFacts, AsksType
<1>2. IsFiniteSet(T) /\ \A r \in T : RowQuantities[r] \in Nat
  BY RowsFinite, RowShape, FS_Subset DEF RowsOfCalls
<1>3. \A i \in S : name[i] \in T /\ RowQuantities[name[i]] = f[i]
  <2> SUFFICES ASSUME NEW i \in S PROVE <<c, i>> \in T /\ RowQuantities[<<c, i>>] = f[i]
    OBVIOUS
  <2>1. i \in DOMAIN ItemsOf(c) /\ ItemsOf(c)[i].product = p /\ f[i] = ItemsOf(c)[i].quantity
    BY DEF ItemsFor, ItemsOf, Quantities
  <2>2. <<c, i>> \in Rows /\ RowItem(<<c, i>>) = ItemsOf(c)[i]
    BY <2>1, RowShape
  <2> QED BY <2>1, <2>2 DEF RowsOfCalls, RowQuantities
<1>4. \A i, j \in S : name[i] = name[j] => i = j
  OBVIOUS
<1>5. \A r \in T : \E i \in S : r = name[i]
  <2> SUFFICES ASSUME NEW r \in T PROVE r[2] \in S /\ r = <<c, r[2]>>
    OBVIOUS
  <2>1. r \in Rows /\ r[1] = c /\ RowItem(r).product = p
    BY DEF RowsOfCalls
  <2> QED BY <2>1, RowShape DEF ItemsFor, ItemsOf, RowItem
<1> HIDE DEF S, f, T, name
<1>6. SumFunctionOnSet(RowQuantities, T) = SumFunctionOnSet(f, S)
  BY <1>1, <1>2, <1>3, <1>4, <1>5, SumRenamed
<1> QED BY <1>6 DEF RowSum, Asks, S, f, T

LEMMA ManyBatches ==
  ASSUME IsFiniteSet(Calls), NEW o \in Orders, NEW p,
         NEW B, B \subseteq {c \in Calls : Kind(c) = "reserve" /\ Order(c) = o}
  PROVE  RowSum(RowsOfCalls(B), p) = Cardinality(B) * Asks(o, p)
<1> DEFINE Good(T) == RowSum(RowsOfCalls(T), p) = Cardinality(T) * Asks(o, p)
           Bad == {T \in SUBSET B : ~ Good(T)}
<1>1. IsFiniteSet(B)
  BY FS_Subset
<1>2. ASSUME NEW T \in Bad, \A U \in Bad : U \subseteq T => U = T PROVE FALSE
  <2>1. IsFiniteSet(T) /\ T \subseteq B
    BY <1>1, <1>2, FS_Subset
  <2>2. Asks(o, p) \in Nat
    BY AsksType
  <2>3. CASE T = {}
    <3>1. RowsOfCalls({}) = {} /\ {} \subseteq Rows
      BY DEF RowsOfCalls
    <3>2. RowSum({}, p) = 0
      BY <3>1, RowSumType
    <3>3. 0 = 0 * Asks(o, p)
      BY <2>2
    <3> QED BY <1>2, <2>3, <3>1, <3>2, <3>3, FS_EmptySet
  <2>4. CASE T # {}
    <3>1. PICK c \in T : TRUE
      BY <2>4
    <3>2. Good(T \ {c})
      BY <1>2, <2>1, <3>1
    <3>3. /\ RowsOfCalls({c}) \in SUBSET RowsOfCalls(T) /\ RowsOfCalls(T) \subseteq Rows
          /\ RowsOfCalls(T) \ RowsOfCalls({c}) = RowsOfCalls(T \ {c})
      BY <3>1 DEF RowsOfCalls
    <3>4. RowSum(RowsOfCalls(T), p)
            = RowSum(RowsOfCalls({c}), p) + RowSum(RowsOfCalls(T) \ RowsOfCalls({c}), p)
      BY <3>3, RowSumType
    <3>5. RowSum(RowsOfCalls({c}), p) = Asks(o, p)
      BY <2>1, <3>1, OneBatch
    <3>6. /\ Cardinality(T \ {c}) = Cardinality(T) - 1
          /\ Cardinality(T) \in Nat /\ Cardinality(T \ {c}) \in Nat
      BY <2>1, <3>1, FS_RemoveElement, FS_CardinalityType
    <3>7. RowSum(RowsOfCalls(T), p) = Asks(o, p) + Cardinality(T \ {c}) * Asks(o, p)
      BY <3>2, <3>3, <3>4, <3>5
    <3>8. \A m, n \in Nat : n + m * n = (m + 1) * n
      OBVIOUS
    <3>9. Asks(o, p) + Cardinality(T \ {c}) * Asks(o, p) = Cardinality(T) * Asks(o, p)
      <4>1. Cardinality(T) = Cardinality(T \ {c}) + 1
        BY <3>6
      <4> QED BY <2>2, <3>6, <3>8, <4>1
    <3> QED BY <1>2, <3>7, <3>9
  <2> QED BY <2>3, <2>4
<1>3. Bad = {}
  <2>1. Bad \subseteq SUBSET B
    OBVIOUS
  <2> HIDE DEF Bad
  <2> QED BY <1>1, <1>2, <2>1, SmallestSubset
<1> QED BY <1>3


-----------------------------------------------------------------------------
(* What the locks protect: the counts and the rows of the transactions that *)
(* run.  The client does not reserve for an order while it settles it.      *)

Running(c) == at[c] \notin {"idle", "done"}

\* A running ReserveStock is the only running call of its order.
Apart ==
  \A c, d \in Calls :
     Running(c) /\ Running(d) /\ Order(c) = Order(d) /\ Kind(c) = "reserve" => d = c

\* The rows of a reservation have one status.
Uniform == \A r, q \in Rows : r[1] = q[1] => row[r] = row[q]

\* A call that settles sees every RESERVED row of its order.
Sees(c) ==
  /\ at[c] = "select" => Reserved(Order(c)) \subseteq found[c] \cup todo[c]
  /\ at[c] \in {"settle", "update"} => Reserved(Order(c)) \subseteq found[c]
  /\ at[c] = "settle" => todo[c] \subseteq found[c]
  /\ at[c] = "update" => moved[c] \cup todo[c] \subseteq {r \in Rows : RowOrder(r) = Order(c)}

\* The quantity of p in the items before position n of order o.
AsksBefore(o, p, n) == SumFunctionOnSet(Quantities(o), {i \in ItemsFor(o, p) : i < n})

\* What a call will change is what it has visited.
Counts(c) ==
  /\ at[c] = "idle" => item[c] = 1
  /\ at[c] \in {"idle", "select", "done"} => \A p \in Products : change[c][p] = 0
  /\ at[c] = "item" =>
       /\ item[c] \in 1 .. Len(ItemsOf(c)) + 1
       /\ \A i \in DOMAIN ItemsOf(c) : i < item[c] => ItemsOf(c)[i].product \in Listed
       /\ \A p \in Products : change[c][p] = AsksBefore(Order(c), p, item[c])
  /\ at[c] = "settle" => \A p \in Products : change[c][p] = RowSum(found[c] \ todo[c], p)
  /\ at[c] = "update" => \A p \in Products : change[c][p] = RowSum(found[c], p)

\* A call holds the lock of every product it changes.
Owns == \A c \in Calls, p \in Products : change[c][p] # 0 => owner[p] = c

\* What a call will add is free, and what it will take is reserved.
Covers(c) ==
  \A p \in Products :
     /\ at[c] = "item" => reserved[p] + change[c][p] <= available[p]
     /\ at[c] \in {"settle", "update"} => change[c][p] <= reserved[p]

InStock == \A p \in Products : 0 <= reserved[p] /\ reserved[p] <= available[p]

AtomicInv ==
  /\ Apart /\ Uniform /\ Owns /\ InStock
  /\ \A c \in Calls : Sees(c) /\ Counts(c) /\ Covers(c)

\* Nothing of d changes.
Same(d) ==
  /\ at'[d] = at[d] /\ item'[d] = item[d] /\ change'[d] = change[d]
  /\ todo'[d] = todo[d] /\ found'[d] = found[d] /\ moved'[d] = moved[d]

\* The end of a transaction, for the counts and the locks of products.
LEMMA FinishClears ==
  ASSUME TypeOK, NEW c \in Calls, NEW code, Finish(c, code)
  PROVE  /\ at'[c] = "done" /\ \A p \in Products : change'[c][p] = 0
         /\ \A d \in Calls : d # c => Same(d)
         /\ \A p \in Products : owner'[p] = IF owner[p] = c THEN NoCall ELSE owner[p]
  BY DEF Finish, TypeOK, Same

\* A step of a call concerns no other call.
LEMMA StepIsLocal ==
  ASSUME TypeOK, NEW c \in Calls, Begin(c) \/ Step(c), NEW d \in Calls, d # c
  PROVE  Same(d)
<1>1. ASSUME NEW code, Finish(c, code) PROVE Same(d)
  BY <1>1, FinishClears
<1>2. CASE Begin(c)
  BY <1>2 DEF Begin, Same, TypeOK
<1>3. CASE ReserveItem(c)
  BY <1>1, <1>3 DEF ReserveItem, Rollback, Same, TypeOK
<1>4. CASE CommitReserve(c) \/ CommitSettle(c) \/ AbortDeadlocked(c)
  BY <1>1, <1>4 DEF CommitReserve, CommitSettle, AbortDeadlocked, Rollback
<1>5. CASE VisitRow(c)
  BY <1>5 DEF VisitRow, Same, TypeOK
<1>6. CASE Selected(c) \/ Settled(c)
  BY <1>1, <1>6 DEF Selected, Settled, Rollback, Same, TypeOK
<1>7. CASE SettleRow(c)
  BY <1>1, <1>7 DEF SettleRow, Rollback, Same, TypeOK
<1> QED BY <1>2, <1>3, <1>4, <1>5, <1>6, <1>7 DEF Step

\* A call runs from its beginning to its answer.
LEMMA RunningSteps ==
  ASSUME TypeOK, LockInv, NEW c \in Calls, Step(c)
  PROVE  Running(c)
<1>1. CASE AbortDeadlocked(c)
  <2>1. ~ May(c)
    BY <1>1 DEF AbortDeadlocked, Deadlocked
  <2> QED BY <2>1 DEF May, Holder, Running
<1>2. CASE ~ AbortDeadlocked(c)
  BY <1>2 DEF Step, ReserveItem, MayReserve, CommitReserve, VisitRow, Selected, SettleRow, Settled,
              CommitSettle, Running
<1> QED BY <1>1, <1>2

LEMMA ApartKept ==
  ASSUME TypeOK, LockInv, Apart, ~ LateReserve, NEW c \in Calls, Begin(c) \/ Step(c)
  PROVE  Apart'
<1>1. \A d \in Calls : d # c => (Running(d)' <=> Running(d))
  BY StepIsLocal DEF Same, Running
<1>2. CASE Begin(c)
  <2>1. \A d \in Calls : Order(d) = Order(c) /\ "reserve" \in {Kind(c), Kind(d)} => d = c \/ ~ Running(d)
    BY <1>2 DEF Begin, Running
  <2> QED BY <1>1, <2>1 DEF Apart
<1>3. CASE Step(c)
  BY <1>1, <1>3, RunningSteps DEF Apart
<1> QED BY <1>2, <1>3

\* The rows of a call that settles are its order's.
LEMMA FoundReserved ==
  ASSUME TypeOK, LockInv, NEW c \in Calls, Sees(c), at[c] \in {"settle", "update"}
  PROVE  found[c] = Reserved(Order(c))
<1>1. \A r \in found[c] : r \in Rows /\ RowOrder(r) = Order(c) /\ row[r] = "RESERVED"
  BY DEF LockInv, RowLocks, Sighted, Sight
<1> QED BY <1>1 DEF Sees, Reserved

\* The UPDATE of the rows moves those the SELECT has found.
LEMMA MovedReserved ==
  ASSUME TypeOK, LockInv, NEW c \in Calls, Sees(c), at[c] = "update", todo[c] = {}
  PROVE  moved[c] = Reserved(Order(c)) /\ found[c] = moved[c]
<1>1. found[c] = Reserved(Order(c))
  BY FoundReserved
<1>2. found[c] \subseteq moved[c] \cup todo[c]
  BY DEF LockInv, Sighted, Sight
<1>3. \A r \in moved[c] : r \in Rows /\ RowOrder(r) = Order(c) /\ row[r] = "RESERVED"
  BY DEF LockInv, RowLocks, Sees
<1> QED BY <1>1, <1>2, <1>3 DEF Reserved

LEMMA UniformKept ==
  ASSUME TypeOK, LockInv, Uniform, NEW c \in Calls, Sees(c), Begin(c) \/ Step(c)
  PROVE  Uniform'
<1>1. CASE row' = row
  BY <1>1 DEF Uniform
<1>2. CASE CommitReserve(c)
  BY <1>2 DEF CommitReserve, Uniform
<1>3. CASE CommitSettle(c)
  <2>1. moved[c] = Reserved(Order(c))
    BY <1>3, MovedReserved DEF CommitSettle
  <2>2. \A r, q \in Rows : r[1] = q[1] => (r \in moved[c] <=> q \in moved[c])
    BY <2>1 DEF Reserved, RowOrder, Uniform
  <2> QED BY <1>3, <2>2, RowsSettled DEF Uniform
<1> QED BY <1>1, <1>2, <1>3
        DEF Begin, Step, ReserveItem, VisitRow, Selected, SettleRow, Settled, AbortDeadlocked, Rollback

\* No row becomes RESERVED that is of an order a call settles.
LEMMA ReservedShrinks ==
  ASSUME TypeOK, LockInv, Apart, NEW c \in Calls, Begin(c) \/ Step(c),
         NEW d \in Calls, at[d] \in {"select", "settle", "update"}
  PROVE  Reserved(Order(d))' \subseteq Reserved(Order(d))
<1>1. CASE row' = row
  BY <1>1 DEF Reserved
<1>2. CASE CommitReserve(c)
  <2>1. Kind(c) = "reserve" /\ Running(c) /\ Running(d) /\ Kind(d) # "reserve"
    BY <1>2 DEF CommitReserve, LockInv, Places, Running
  <2>2. Order(c) # Order(d)
    BY <2>1 DEF Apart
  <2> QED BY <1>2, <2>2 DEF CommitReserve, Reserved, RowOrder
<1>3. CASE CommitSettle(c)
  BY <1>3, RowsSettled DEF Reserved
<1> QED BY <1>1, <1>2, <1>3
        DEF Begin, Step, ReserveItem, VisitRow, Selected, SettleRow, Settled, AbortDeadlocked, Rollback

LEMMA SeesKept ==
  ASSUME TypeOK, LockInv, Apart, NEW c \in Calls, Begin(c) \/ Step(c), NEW d \in Calls, Sees(d)
  PROVE  Sees(d)'
<1>1. CASE d # c
  <2>1. Same(d)
    BY <1>1, StepIsLocal
  <2>2. at[d] \in {"select", "settle", "update"} => Reserved(Order(d))' \subseteq Reserved(Order(d))
    BY ReservedShrinks
  <2> QED BY <2>1, <2>2 DEF Same, Sees
<1>2. CASE d = c
  <2>1. CASE at'[c] \notin {"select", "settle", "update"}
    BY <1>2, <2>1 DEF Sees
  <2>2. CASE Begin(c)
    <3>1. row' = row /\ (at'[c] = "select" => todo'[c] = Reserved(Order(c))) /\ at'[c] \in {"item", "select"}
      BY <2>2 DEF Begin, TypeOK
    <3> QED BY <1>2, <3>1 DEF Sees, Reserved
  <2>3. CASE VisitRow(c)
    <3> DEFINE r == NextRow(c)
               hit == IF StillReserved(r) THEN {r} ELSE {}
    <3>1. /\ at[c] \in {"select", "update"} /\ UNCHANGED <<row, at>> /\ todo'[c] = todo[c] \ {r}
          /\ \/ at[c] = "select" /\ found'[c] = found[c] \cup hit /\ moved' = moved
             \/ at[c] = "update" /\ moved'[c] = moved[c] \cup hit /\ found' = found
      BY <2>3 DEF VisitRow, TypeOK
    <3>2. r \in todo[c] /\ (row[r] = "RESERVED" => r \in hit) /\ hit \subseteq {r}
      BY <2>3, NextRowFacts DEF VisitRow, StillReserved
    <3> HIDE DEF r, hit
    <3>3. Reserved(Order(c))' = Reserved(Order(c)) /\ \A q \in Reserved(Order(c)) : row[q] = "RESERVED"
      BY <3>1 DEF Reserved
    <3> QED BY <1>2, <3>1, <3>2, <3>3 DEF Sees
  <2>4. ASSUME NEW code, Finish(c, code) PROVE Sees(d)'
    BY <2>1, <2>4, FinishClears
  <2>5. CASE Selected(c)
    <3>1. CASE at[c] = "select" /\ todo[c] = {} /\ at'[c] = "settle" /\ todo'[c] = found[c]
               /\ UNCHANGED <<row, found, moved>>
      BY <1>2, <3>1 DEF Sees, Reserved
    <3> QED BY <2>4, <2>5, <3>1 DEF Selected, Rollback, TypeOK
  <2>6. CASE SettleRow(c)
    <3>1. CASE at[c] = "settle" /\ at' = at /\ todo'[c] \subseteq todo[c]
               /\ UNCHANGED <<row, found, moved>>
      BY <1>2, <3>1 DEF Sees, Reserved
    <3> QED BY <2>4, <2>6, <3>1 DEF SettleRow, Rollback, TypeOK
  <2>7. CASE Settled(c)
    <3>1. at[c] = "settle" /\ at'[c] = "update" /\ todo'[c] = Reserved(Order(c))
          /\ UNCHANGED <<row, found, moved>>
      BY <2>7 DEF Settled, TypeOK
    <3>2. moved[c] = {}
      BY <3>1 DEF LockInv, Places
    <3> QED BY <1>2, <3>1, <3>2 DEF Sees, Reserved
  <2>8. CASE ReserveItem(c)
    <3>1. CASE at[c] = "item" /\ at' = at
      BY <2>1, <3>1
    <3> QED BY <2>4, <2>8, <3>1 DEF ReserveItem, MayReserve, Rollback
  <2> QED BY <2>2, <2>3, <2>4, <2>5, <2>6, <2>7, <2>8
          DEF Step, CommitReserve, CommitSettle, AbortDeadlocked, Rollback
<1> QED BY <1>1, <1>2

-----------------------------------------------------------------------------
(* The counts of a transaction *)

LEMMA AsksBeforeFacts ==
  ASSUME NEW o \in Orders, NEW p
  PROVE  /\ AsksBefore(o, p, 1) = 0
         /\ AsksBefore(o, p, Len(Items[o]) + 1) = Asks(o, p)
         /\ \A n \in DOMAIN Items[o] :
              AsksBefore(o, p, n + 1)
                = AsksBefore(o, p, n) + (IF Items[o][n].product = p THEN Items[o][n].quantity ELSE 0)
<1> DEFINE before(n) == {i \in ItemsFor(o, p) : i < n}
           f == Quantities(o)
<1>1. /\ Len(Items[o]) \in Nat /\ DOMAIN Items[o] = 1 .. Len(Items[o])
      /\ ItemsFor(o, p) \subseteq DOMAIN Items[o]
      /\ \A i \in DOMAIN Items[o] : f[i] = Items[o][i].quantity /\ f[i] \in Nat
  BY ItemFacts DEF ItemsFor, Quantities
<1>2. ASSUME NEW n PROVE IsFiniteSet(before(n)) /\ \A i \in before(n) : f[i] \in Nat
  BY <1>1, AsksType, FS_Subset
<1>3. before(1) = {} /\ before(Len(Items[o]) + 1) = ItemsFor(o, p)
  BY <1>1
<1>4. ASSUME NEW n \in DOMAIN Items[o]
      PROVE  AsksBefore(o, p, n + 1)
               = AsksBefore(o, p, n) + (IF Items[o][n].product = p THEN Items[o][n].quantity ELSE 0)
  <2>1. CASE Items[o][n].product = p
    <3>1. n \in before(n + 1) /\ before(n + 1) \ {n} = before(n)
      BY <1>1, <2>1 DEF ItemsFor
    <3>2. IsFiniteSet(before(n + 1)) /\ \A i \in before(n + 1) : f[i] \in Nat
      BY <1>2
    <3>3. SumFunctionOnSet(f, before(n)) \in Nat
      BY <1>2, SumType
    <3> HIDE DEF before, f
    <3>4. SumFunctionOnSet(f, before(n + 1)) = f[n] + SumFunctionOnSet(f, before(n + 1) \ {n})
      BY <3>1, <3>2, SumRemove
    <3>5. SumFunctionOnSet(f, before(n + 1)) = f[n] + SumFunctionOnSet(f, before(n)) /\ f[n] \in Nat
      BY <1>1, <3>1, <3>4
    <3>6. SumFunctionOnSet(f, before(n + 1)) = SumFunctionOnSet(f, before(n)) + Items[o][n].quantity
      BY <1>1, <3>3, <3>5
    <3> QED BY <2>1, <3>6 DEF AsksBefore, before, f
  <2>2. CASE Items[o][n].product # p
    <3>1. before(n + 1) = before(n)
      BY <1>1, <2>2 DEF ItemsFor
    <3>2. SumFunctionOnSet(f, before(n)) \in Nat
      BY <1>2, SumType
    <3>3. AsksBefore(o, p, n + 1) = AsksBefore(o, p, n) /\ AsksBefore(o, p, n) \in Nat
      BY <3>1, <3>2 DEF AsksBefore
    <3> QED BY <2>2, <3>3
  <2> QED BY <2>1, <2>2
<1>5. SumFunctionOnSet(f, {}) = 0
  BY SumType, FS_EmptySet
<1> QED BY <1>3, <1>4, <1>5 DEF AsksBefore, Asks

\* A call locks product p, if another does not hold it, and counts n more.
Locks(c, p, n) ==
  /\ owner[p] \in {NoCall, c} /\ owner'[p] = c
  /\ change'[c][p] = change[c][p] + n
  /\ \A q \in Products : q # p => owner'[q] = owner[q] /\ change'[c][q] = change[c][q]

LEMMA ReserveItemDoes ==
  ASSUME TypeOK, NEW c \in Calls, ReserveItem(c)
  PROVE  \/ \E code : Rollback(c, code)
         \/ /\ at[c] = "item" /\ item[c] \in DOMAIN ItemsOf(c) /\ item'[c] = item[c] + 1
            /\ UNCHANGED <<available, reserved, row, at, todo, found, moved, answer>>
            /\ LET p == ItemsOf(c)[item[c]].product
                   n == ItemsOf(c)[item[c]].quantity
               IN  /\ p \in Listed /\ p \in Products /\ n \in Nat
                   /\ Locks(c, p, n) /\ reserved[p] + change[c][p] + n <= available[p]
<1> DEFINE p == ItemsOf(c)[item[c]].product
           n == ItemsOf(c)[item[c]].quantity
<1>1. at[c] = "item" /\ item[c] \in DOMAIN ItemsOf(c) /\ May(c)
  BY DEF ReserveItem, MayReserve
<1>2. p \in Products /\ n \in Nat
  BY <1>1, CallFacts, ItemFacts DEF ItemsOf
<1>3. owner[p] \in {NoCall, c}
  BY <1>1 DEF May, Holder
<1>4. CASE \E code : Rollback(c, code)
  BY <1>4
<1>5. CASE ~ \E code : Rollback(c, code)
  <2>1. /\ p \in Listed /\ ~ (available[p] - (reserved[p] + change[c][p]) < n)
        /\ owner' = [owner EXCEPT ![p] = c]
        /\ change' = [change EXCEPT ![c][p] = @ + n]
        /\ item' = [item EXCEPT ![c] = @ + 1]
        /\ UNCHANGED <<available, reserved, row, at, todo, found, moved, answer>>
    BY <1>5 DEF ReserveItem
  <2>2. available[p] \in Int /\ reserved[p] \in Int /\ change[c][p] \in Nat
    BY <1>2 DEF TypeOK
  <2> HIDE DEF p, n
  <2>3. reserved[p] + change[c][p] + n <= available[p]
    BY <1>2, <2>1, <2>2
  <2>4. Locks(c, p, n) /\ item'[c] = item[c] + 1
    BY <1>2, <1>3, <2>1 DEF Locks, TypeOK
  <2> QED BY <1>1, <1>2, <2>1, <2>3, <2>4 DEF p, n
<1> QED BY <1>4, <1>5

LEMMA SettleRowDoes ==
  ASSUME TypeOK, NEW c \in Calls, SettleRow(c)
  PROVE  \/ \E code : Rollback(c, code)
         \/ /\ at[c] = "settle" /\ todo[c] # {} /\ todo'[c] = todo[c] \ {NextRow(c)}
            /\ UNCHANGED <<available, reserved, row, at, item, found, moved, answer>>
            /\ LET r == NextRow(c)
                   p == RowItem(r).product
                   n == RowItem(r).quantity
               IN  /\ p \in Products /\ n \in Nat
                   /\ Locks(c, p, n) /\ change[c][p] + n <= reserved[p]
<1> DEFINE r == NextRow(c)
           p == RowItem(r).product
           n == RowItem(r).quantity
<1>1. at[c] = "settle" /\ todo[c] # {} /\ May(c)
  BY DEF SettleRow
<1>2. p \in Products /\ n \in Nat
  BY <1>1, NextRowFacts, RowFacts DEF TypeOK
<1>3. owner[p] \in {NoCall, c}
  BY <1>1 DEF May, Holder
<1>4. CASE \E code : Rollback(c, code)
  BY <1>4
<1>5. CASE ~ \E code : Rollback(c, code)
  <2>1. /\ Covered(c, p, Taken(c, r))
        /\ owner' = [owner EXCEPT ![p] = c]
        /\ change' = [change EXCEPT ![c][p] = Taken(c, r)]
        /\ todo' = [todo EXCEPT ![c] = @ \ {r}]
        /\ UNCHANGED <<available, reserved, row, at, item, found, moved, answer>>
    BY <1>5 DEF SettleRow
  <2>2. Taken(c, r) = change[c][p] + n
    BY DEF Taken
  <2> HIDE DEF p, n, r
  <2>3. Locks(c, p, n) /\ todo'[c] = todo[c] \ {r}
    BY <1>2, <1>3, <2>1, <2>2 DEF Locks, TypeOK
  <2>4. change[c][p] + n <= reserved[p]
    BY <2>1, <2>2 DEF Covered
  <2> QED BY <1>1, <1>2, <2>1, <2>3, <2>4 DEF r, p, n
<1> QED BY <1>4, <1>5

LEMMA CountsKept ==
  ASSUME IsFiniteSet(Calls), TypeOK, LockInv, NEW c \in Calls, Begin(c) \/ Step(c),
         NEW d \in Calls, Sees(d), Counts(d)
  PROVE  Counts(d)'
<1>1. CASE d # c
  <2>1. Same(d)
    BY <1>1, StepIsLocal
  <2> QED BY <2>1 DEF Same, Counts
<1>2. CASE d = c
  <2>1. ASSUME NEW code, Finish(c, code) PROVE Counts(c)'
    BY <2>1, FinishClears DEF Counts
  <2>2. CASE Begin(c)
    <3>1. /\ at[c] = "idle" /\ at'[c] \in {"item", "select"} /\ (at'[c] = "item" => Kind(c) = "reserve")
          /\ UNCHANGED <<item, change>>
      BY <2>2 DEF Begin, TypeOK
    <3>2. 1 \in 1 .. Len(ItemsOf(c)) + 1 /\ \A i \in DOMAIN ItemsOf(c) : ~ (i < 1)
      BY CallFacts, ItemFacts DEF ItemsOf
    <3>3. \A p \in Products : AsksBefore(Order(c), p, 1) = 0
      BY CallFacts, AsksBeforeFacts
    <3> QED BY <1>2, <3>1, <3>2, <3>3 DEF Counts
  <2>3. CASE ReserveItem(c)
    <3> DEFINE m == item[c]
               p == ItemsOf(c)[m].product
               n == ItemsOf(c)[m].quantity
    <3>1. CASE /\ at[c] = "item" /\ m \in DOMAIN ItemsOf(c) /\ item'[c] = m + 1
               /\ UNCHANGED <<available, reserved, row, at, todo, found, moved, answer>>
               /\ p \in Listed /\ p \in Products /\ n \in Nat /\ Locks(c, p, n)
      <4>1. m \in 1 .. Len(ItemsOf(c)) /\ DOMAIN ItemsOf(c) = 1 .. Len(ItemsOf(c)) /\ Len(ItemsOf(c)) \in Nat
        BY <3>1, CallFacts, ItemFacts DEF ItemsOf
      <4>2. item'[c] \in 1 .. Len(ItemsOf(c)) + 1
        BY <3>1, <4>1
      <4>3. \A i \in DOMAIN ItemsOf(c) : i < m + 1 => ItemsOf(c)[i].product \in Listed
        <5>1. \A i \in DOMAIN ItemsOf(c) : i < m + 1 => i < m \/ i = m
          BY <4>1
        <5> QED BY <1>2, <3>1, <5>1 DEF Counts
      <4>4. ASSUME NEW q \in Products PROVE change'[c][q] = AsksBefore(Order(c), q, m + 1)
        <5>1. change[c][q] = AsksBefore(Order(c), q, m) /\ change[c][q] \in Nat
          BY <1>2, <3>1 DEF Counts, TypeOK
        <5>2. AsksBefore(Order(c), q, m + 1)
                = AsksBefore(Order(c), q, m) + (IF p = q THEN n ELSE 0)
          <6>1. \A x \in DOMAIN Items[Order(c)] :
                  AsksBefore(Order(c), q, x + 1)
                    = AsksBefore(Order(c), q, x) + (IF Items[Order(c)][x].product = q
                                                    THEN Items[Order(c)][x].quantity ELSE 0)
            BY CallFacts, AsksBeforeFacts
          <6> QED BY <3>1, <6>1 DEF ItemsOf
        <5>3. change'[c][q] = change[c][q] + (IF p = q THEN n ELSE 0)
          <6> HIDE DEF p, n
          <6> QED BY <3>1, <5>1 DEF Locks
        <5> QED BY <5>1, <5>2, <5>3
      <4> QED BY <1>2, <3>1, <4>2, <4>3, <4>4 DEF Counts
    <3> QED BY <1>2, <2>1, <2>3, <3>1, ReserveItemDoes DEF Rollback
  <2>4. CASE VisitRow(c)
    <3>1. at[c] \in {"select", "update"} /\ UNCHANGED <<at, change>> /\ (at[c] = "update" => found' = found)
      BY <2>4 DEF VisitRow
    <3> QED BY <1>2, <3>1 DEF Counts
  <2>5. CASE Selected(c)
    <3>1. CASE at[c] = "select" /\ at'[c] = "settle" /\ todo'[c] = found'[c] /\ change' = change
      <4>1. \A p \in Products : RowSum({}, p) = 0
        BY RowSumType
      <4>2. found'[c] \ todo'[c] = {}
        BY <3>1
      <4> QED BY <1>2, <3>1, <4>1, <4>2 DEF Counts
    <3> QED BY <1>2, <2>1, <2>5, <3>1 DEF Selected, Rollback, TypeOK
  <2>6. CASE SettleRow(c)
    <3> DEFINE r == NextRow(c)
               p == RowItem(r).product
               n == RowItem(r).quantity
    <3>1. CASE /\ at[c] = "settle" /\ todo[c] # {} /\ todo'[c] = todo[c] \ {r}
               /\ UNCHANGED <<available, reserved, row, at, item, found, moved, answer>>
               /\ p \in Products /\ n \in Nat /\ Locks(c, p, n)
      <4>1. r \in todo[c] /\ r \in Rows /\ todo[c] \subseteq found[c] /\ found[c] \subseteq Rows
        BY <1>2, <3>1, NextRowFacts DEF Sees, TypeOK
      <4> DEFINE S == found[c] \ todo[c]
      <4>2. found'[c] \ todo'[c] = S \cup {r} /\ (S \cup {r}) \ {r} = S /\ S \cup {r} \subseteq Rows
        BY <3>1, <4>1
      <4>3. ASSUME NEW q \in Products PROVE change'[c][q] = RowSum(S \cup {r}, q)
        <5>1. change[c][q] = RowSum(S, q) /\ change[c][q] \in Nat
          BY <1>2, <3>1 DEF Counts, TypeOK
        <5> HIDE DEF S
        <5>2. RowSum(S \cup {r}, q) = RowSum({r}, q) + RowSum((S \cup {r}) \ {r}, q)
          BY <4>2, RowSumType
        <5>3. RowSum({r}, q) = IF p = q THEN n ELSE 0
          <6>1. {r} \subseteq Rows
            BY <4>1
          <6> QED BY <4>1, <6>1, RowSumType
        <5>4. change'[c][q] = change[c][q] + (IF p = q THEN n ELSE 0)
          <6> HIDE DEF p, n, r
          <6> QED BY <3>1, <5>1 DEF Locks
        <5>5. RowSum((S \cup {r}) \ {r}, q) = RowSum(S, q)
          BY <4>2
        <5>6. n \in Nat
          BY <3>1
        <5> HIDE DEF p, n, r
        <5> QED BY <5>1, <5>2, <5>3, <5>4, <5>5, <5>6
      <4> QED BY <1>2, <3>1, <4>2, <4>3 DEF Counts
    <3> QED BY <1>2, <2>1, <2>6, <3>1, SettleRowDoes DEF Rollback
  <2>7. CASE Settled(c)
    <3>1. at[c] = "settle" /\ at'[c] = "update" /\ todo[c] = {} /\ UNCHANGED <<found, change>>
      BY <2>7 DEF Settled, TypeOK
    <3>2. found[c] \ todo[c] = found[c]
      BY <3>1
    <3> QED BY <1>2, <3>1, <3>2 DEF Counts
  <2> QED BY <1>2, <2>1, <2>2, <2>3, <2>4, <2>5, <2>6, <2>7
          DEF Step, CommitReserve, CommitSettle, AbortDeadlocked, Rollback
<1> QED BY <1>1, <1>2

\* The four ways a step of a call treats the products: it ends, it locks
\* one, or it leaves them alone.
LEMMA ProductSteps ==
  ASSUME TypeOK, NEW c \in Calls, Begin(c) \/ Step(c)
  PROVE  \/ \E code : Finish(c, code)
         \/ \E p \in Products : \E n \in Nat : Locks(c, p, n)
         \/ UNCHANGED <<change, owner>>
<1>1. CASE ReserveItem(c)
  BY <1>1, ReserveItemDoes DEF Rollback
<1>2. CASE SettleRow(c)
  BY <1>2, SettleRowDoes DEF Rollback
<1>3. CASE ~ ReserveItem(c) /\ ~ SettleRow(c)
  BY <1>3 DEF Begin, Step, CommitReserve, VisitRow, Selected, Settled, CommitSettle,
              AbortDeadlocked, Rollback
<1> QED BY <1>1, <1>2, <1>3

LEMMA OwnsKept ==
  ASSUME TypeOK, Owns, NEW c \in Calls, Begin(c) \/ Step(c)
  PROVE  Owns'
<1>1. \A d \in Calls : d # c => change'[d] = change[d]
  BY StepIsLocal DEF Same
<1>2. ASSUME NEW code, Finish(c, code) PROVE Owns'
  BY <1>1, <1>2, FinishClears DEF Owns
<1>3. ASSUME NEW p \in Products, NEW n \in Nat, Locks(c, p, n) PROVE Owns'
  <2> SUFFICES ASSUME NEW d \in Calls, NEW q \in Products, change'[d][q] # 0 PROVE owner'[q] = d
    BY DEF Owns
  <2>1. CASE q # p
    <3>1. change[d][q] # 0 /\ owner'[q] = owner[q]
      BY <1>1, <1>3, <2>1 DEF Locks
    <3> QED BY <3>1 DEF Owns
  <2>2. CASE q = p /\ d # c
    <3>1. change[d][q] # 0 /\ owner[q] \in {NoCall, c}
      BY <1>1, <1>3, <2>2 DEF Locks
    <3>2. owner[q] = d
      BY <3>1 DEF Owns
    <3> QED BY <2>2, <3>1, <3>2, TxAssumption
  <2>3. CASE q = p /\ d = c
    BY <1>3, <2>3 DEF Locks
  <2> QED BY <2>1, <2>2, <2>3
<1>4. CASE UNCHANGED <<change, owner>>
  BY <1>4 DEF Owns
<1> QED BY <1>2, <1>3, <1>4, ProductSteps

\* No two calls count the same product.
LEMMA OneCounts ==
  ASSUME Owns, NEW c \in Calls, NEW d \in Calls, d # c, NEW p \in Products
  PROVE  change[c][p] = 0 \/ change[d][p] = 0
  BY DEF Owns

\* The commits of a call, product by product.
LEMMA CommitsDo ==
  ASSUME TypeOK, LockInv, Owns, InStock, NEW c \in Calls, Covers(c),
         CommitReserve(c) \/ CommitSettle(c), NEW p \in Products
  PROVE  /\ 0 <= reserved'[p] /\ reserved'[p] <= available'[p]
         /\ \A d \in Calls : d # c /\ change[d][p] # 0 =>
              reserved'[p] = reserved[p] /\ available'[p] = available[p]
         /\ reserved'[p] \in Int /\ available'[p] \in Int
<1>1. /\ reserved[p] \in Int /\ available[p] \in Int /\ change[c][p] \in Nat
      /\ 0 <= reserved[p] /\ reserved[p] <= available[p]
  BY DEF TypeOK, InStock
<1>2. \A d \in Calls : d # c /\ change[d][p] # 0 => change[c][p] = 0
  BY OneCounts
<1>3. CASE CommitReserve(c)
  <2>1. /\ reserved'[p] = reserved[p] + change[c][p] /\ available' = available
        /\ reserved[p] + change[c][p] <= available[p]
    BY <1>3 DEF CommitReserve, Covers
  <2> QED BY <1>1, <1>2, <2>1
<1>4. CASE CommitSettle(c)
  <2>1. /\ reserved'[p] = reserved[p] - change[c][p]
        /\ available'[p] = available[p] \/ available'[p] = available[p] - change[c][p]
        /\ change[c][p] <= reserved[p]
    BY <1>4 DEF CommitSettle, Covers
  <2> QED BY <1>1, <1>2, <2>1
<1> QED BY <1>3, <1>4

LEMMA InStockKept ==
  ASSUME TypeOK, LockInv, Owns, InStock, NEW c \in Calls, Covers(c), Begin(c) \/ Step(c)
  PROVE  InStock'
<1>1. CASE UNCHANGED <<available, reserved>>
  BY <1>1 DEF InStock
<1>2. CASE CommitReserve(c) \/ CommitSettle(c)
  BY <1>2, CommitsDo DEF InStock
<1> QED BY <1>1, <1>2
        DEF Begin, Step, ReserveItem, VisitRow, Selected, SettleRow, Settled, AbortDeadlocked, Rollback

LEMMA CoversKept ==
  ASSUME TypeOK, LockInv, Owns, InStock, NEW c \in Calls, Covers(c), Begin(c) \/ Step(c),
         NEW d \in Calls, Covers(d), Counts(d)
  PROVE  Covers(d)'
<1>1. CASE d # c
  <2>1. Same(d)
    BY <1>1, StepIsLocal
  <2>2. CASE UNCHANGED <<available, reserved>>
    BY <2>1, <2>2 DEF Same, Covers
  <2>3. CASE CommitReserve(c) \/ CommitSettle(c)
    <3> SUFFICES ASSUME NEW p \in Products
                 PROVE  /\ at[d] = "item" => reserved'[p] + change[d][p] <= available'[p]
                        /\ at[d] \in {"settle", "update"} => change[d][p] <= reserved'[p]
      BY <2>1 DEF Same, Covers
    <3>1. CASE change[d][p] = 0
      <4>1. 0 <= reserved'[p] /\ reserved'[p] <= available'[p] /\ reserved'[p] \in Int
        BY <2>3, CommitsDo
      <4> QED BY <3>1, <4>1
    <3>2. CASE change[d][p] # 0
      <4>1. reserved'[p] = reserved[p] /\ available'[p] = available[p]
        BY <1>1, <2>3, <3>2, CommitsDo
      <4> QED BY <4>1 DEF Covers
    <3> QED BY <3>1, <3>2
  <2> QED BY <2>2, <2>3
          DEF Begin, Step, ReserveItem, VisitRow, Selected, SettleRow, Settled, AbortDeadlocked, Rollback
<1>2. CASE d = c
  <2>1. ASSUME NEW code, Finish(c, code) PROVE Covers(c)'
    BY <2>1, FinishClears DEF Covers
  <2>2. CASE \/ Begin(c)
             \/ Selected(c) /\ at'[c] = "settle" /\ UNCHANGED <<available, reserved, change>>
    <3>1. /\ \A p \in Products : change[c][p] = 0 /\ 0 <= reserved[p] /\ reserved[p] + 0 <= available[p]
          /\ UNCHANGED <<available, reserved, change>>
      <4>1. at[c] \in {"idle", "select"} /\ UNCHANGED <<available, reserved, change>>
        BY <2>2 DEF Begin, Selected
      <4>2. \A p \in Products : reserved[p] \in Int /\ available[p] \in Int
        BY DEF TypeOK
      <4>3. \A p \in Products : change[c][p] = 0
        BY <1>2, <4>1 DEF Counts
      <4> QED BY <4>1, <4>2, <4>3 DEF InStock
    <3> QED BY <1>2, <3>1 DEF Covers
  <2>3. CASE ReserveItem(c)
    <3>1. ASSUME at[c] = "item", UNCHANGED <<available, reserved, at>>,
                 NEW p \in Products, NEW n \in Nat,
                 Locks(c, p, n), reserved[p] + change[c][p] + n <= available[p]
          PROVE  Covers(c)'
      <4>1. \A q \in Products : reserved[q] + change'[c][q] <= available[q]
        <5> SUFFICES ASSUME NEW q \in Products PROVE reserved[q] + change'[c][q] <= available[q]
          OBVIOUS
        <5>1. CASE q = p
          <6>1. reserved[p] \in Int /\ change[c][p] \in Nat
            BY DEF TypeOK
          <6>2. reserved[p] + (change[c][p] + n) <= available[p]
            BY <3>1, <6>1
          <6> QED BY <3>1, <5>1, <6>2 DEF Locks
        <5>2. CASE q # p
          BY <3>1, <5>2 DEF Locks, Covers
        <5> QED BY <5>1, <5>2
      <4> QED BY <3>1, <4>1 DEF Covers
    <3> QED BY <1>2, <2>1, <2>3, <3>1, ReserveItemDoes DEF Rollback
  <2>4. CASE SettleRow(c)
    <3>1. ASSUME at[c] = "settle", UNCHANGED <<available, reserved, at>>,
                 NEW p \in Products, NEW n \in Nat,
                 Locks(c, p, n), change[c][p] + n <= reserved[p]
          PROVE  Covers(c)'
      <4>1. \A q \in Products : change'[c][q] <= reserved[q]
        BY <3>1 DEF Locks, Covers
      <4> QED BY <3>1, <4>1 DEF Covers
    <3> QED BY <1>2, <2>1, <2>4, <3>1, SettleRowDoes DEF Rollback
  <2>5. CASE VisitRow(c) \/ Settled(c)
    <3>1. /\ at[c] \in {"select", "settle", "update"} /\ UNCHANGED <<available, reserved, change>>
          /\ at[c] = "select" => at'[c] = "select"
          /\ at'[c] # "item"
      BY <2>5 DEF VisitRow, Settled, TypeOK
    <3> QED BY <1>2, <3>1 DEF Covers
  <2>6. CASE Selected(c)
    <3>1. \/ \E code : Finish(c, code)
          \/ at'[c] = "settle" /\ UNCHANGED <<available, reserved, change>>
      BY <2>6 DEF Selected, Rollback, TypeOK
    <3> QED BY <1>2, <2>1, <2>2, <2>6, <3>1
  <2> QED BY <1>2, <2>1, <2>2, <2>3, <2>4, <2>5, <2>6
          DEF Step, CommitReserve, CommitSettle, AbortDeadlocked, Rollback
<1> QED BY <1>1, <1>2

LEMMA AtomicInvKept ==
  ASSUME IsFiniteSet(Calls), ~ LateReserve, TypeOK, LockInv, AtomicInv, [Next]_vars
  PROVE  AtomicInv'
<1>1. CASE UNCHANGED vars
  BY <1>1 DEF vars, AtomicInv, Apart, Running, Uniform, Owns, InStock, Sees, Reserved, Counts, Covers
<1>2. ASSUME NEW c \in Calls, Begin(c) \/ Step(c) PROVE AtomicInv'
  <2> USE DEF AtomicInv
  <2>1. Apart' /\ Uniform' /\ Owns' /\ InStock'
    BY <1>2, ApartKept, UniformKept, OwnsKept, InStockKept
  <2>2. \A d \in Calls : Sees(d)' /\ Counts(d)' /\ Covers(d)'
    BY <1>2, SeesKept, CountsKept, CoversKept
  <2> QED BY <2>1, <2>2
<1> QED BY <1>1, <1>2 DEF Next

LEMMA InitAtomic == Init => AtomicInv
<1> SUFFICES ASSUME Init PROVE AtomicInv
  OBVIOUS
<1>1. /\ \A c \in Calls : at[c] = "idle" /\ item[c] = 1 /\ \A p \in Products : change[c][p] = 0
      /\ \A p \in Products : reserved[p] = 0 /\ 0 <= available[p]
      /\ \A r \in Rows : row[r] = "none"
  BY TxAssumption DEF Init
<1>2. Apart /\ Uniform /\ Owns /\ InStock
  BY <1>1 DEF Apart, Running, Uniform, Owns, InStock
<1>3. \A c \in Calls : Sees(c) /\ Counts(c) /\ Covers(c)
  BY <1>1 DEF Sees, Counts, Covers
<1> QED BY <1>2, <1>3 DEF AtomicInv

-----------------------------------------------------------------------------
(* Transactions are the steps of Inventory *)

RowsOfStock ==
  [o \in Orders |-> [s \in {"RESERVED", "RELEASED", "DECREMENTED"} |-> Cardinality(Batches(o, s))]]

LEMMA BatchesType ==
  ASSUME IsFiniteSet(Calls), NEW o, NEW s
  PROVE  /\ Batches(o, s) \subseteq {c \in Calls : Kind(c) = "reserve" /\ Order(c) = o}
         /\ IsFiniteSet(Batches(o, s)) /\ Cardinality(Batches(o, s)) \in Nat
<1>1. Batches(o, s) \subseteq {c \in Calls : Kind(c) = "reserve" /\ Order(c) = o}
  BY DEF Batches
<1>2. Batches(o, s) \in SUBSET Calls
  BY <1>1
<1> QED BY <1>1, <1>2, FS_Subset, FS_CardinalityType

\* What an order demands is what its items ask.
LEMMA StockQuantity ==
  ASSUME NEW o \in Orders, NEW p
  PROVE  Stock!Quantity(o, p) = Asks(o, p)
  BY AsksType DEF Stock!Quantity, Asks

\* The rows of a reservation are in one batch.
LEMMA OneStatus ==
  ASSUME Uniform, NEW o, NEW s, NEW t, s # t
  PROVE  Batches(o, s) \cap Batches(o, t) = {}
  BY DEF Batches, Uniform

LEMMA CommitReserveRows ==
  ASSUME IsFiniteSet(Calls), TypeOK, LockInv, AtomicInv, NEW c \in Calls, CommitReserve(c)
  PROVE  LET o == Order(c)
         IN  /\ UNCHANGED available
             /\ reserved' = [p \in Products |-> reserved[p] + Asks(o, p)]
             /\ \A p \in Asked(o) : p \in Listed
             /\ \A p \in Products : Asks(o, p) <= available[p] - reserved[p]
             /\ \A r \in Rows : /\ row'[r] = IF r[1] = c THEN "RESERVED" ELSE row[r]
                                /\ r[1] = c => row[r] = "none"
<1> DEFINE o == Order(c)
<1>1. /\ at[c] = "item" /\ item[c] \notin DOMAIN ItemsOf(c) /\ UNCHANGED available
      /\ reserved' = [p \in Products |-> reserved[p] + change[c][p]]
      /\ \A r \in Rows : row'[r] = IF r[1] = c THEN "RESERVED" ELSE row[r]
  BY DEF CommitReserve
<1>2. /\ item[c] \in 1 .. Len(ItemsOf(c)) + 1
      /\ \A i \in DOMAIN ItemsOf(c) : i < item[c] => ItemsOf(c)[i].product \in Listed
      /\ \A p \in Products : change[c][p] = AsksBefore(o, p, item[c])
      /\ \A p \in Products : reserved[p] + change[c][p] <= available[p]
  BY <1>1 DEF AtomicInv, Counts, Covers
<1>3. /\ item[c] = Len(Items[o]) + 1 /\ ItemsOf(c) = Items[o]
      /\ \A i \in DOMAIN Items[o] : i < item[c]
  BY <1>1, <1>2, CallFacts, ItemFacts DEF ItemsOf
<1>4. \A p \in Products : change[c][p] = Asks(o, p)
  <2>1. \A p : AsksBefore(o, p, Len(Items[o]) + 1) = Asks(o, p)
    BY CallFacts, AsksBeforeFacts
  <2> QED BY <1>2, <1>3, <2>1
<1>5. \A p \in Asked(o) : p \in Listed
  BY <1>2, <1>3 DEF Asked
<1>6. \A p \in Products : Asks(o, p) <= available[p] - reserved[p]
  <2> SUFFICES ASSUME NEW p \in Products PROVE change[c][p] <= available[p] - reserved[p]
    BY <1>4
  <2>1. reserved[p] \in Int /\ available[p] \in Int /\ change[c][p] \in Nat
    BY DEF TypeOK
  <2> QED BY <1>2, <2>1
<1>7. \A r \in Rows : r[1] = c => row[r] = "none"
  BY <1>1 DEF LockInv, Places, RowsAnswered
<1> QED BY <1>1, <1>4, <1>5, <1>6, <1>7

\* The commit of a ReserveStock is the ReserveStock of Inventory; nothing
\* happens when the order asks for nothing.
LEMMA CommitReserveMaps ==
  ASSUME IsFiniteSet(Calls), TypeOK, LockInv, AtomicInv, NEW c \in Calls, CommitReserve(c)
  PROVE  Stock!ReserveStock(Order(c), "OK") \/ UNCHANGED <<available, reserved, RowsOfStock>>
<1> DEFINE o == Order(c)
<1>1. /\ UNCHANGED available
      /\ reserved' = [p \in Products |-> reserved[p] + Asks(o, p)]
      /\ \A p \in Asked(o) : p \in Listed
      /\ \A p \in Products : Asks(o, p) <= available[p] - reserved[p]
      /\ \A r \in Rows : /\ row'[r] = IF r[1] = c THEN "RESERVED" ELSE row[r]
                         /\ r[1] = c => row[r] = "none"
  BY CommitReserveRows
<1>2. o \in Orders /\ Kind(c) = "reserve"
  BY CallFacts DEF LockInv, Places, CommitReserve
<1>3. CASE DOMAIN Items[o] = {}
  <2>1. \A r \in Rows : r[1] # c
    BY <1>3, RowShape DEF ItemsOf
  <2>2. \A x, s : Batches(x, s)' = Batches(x, s)
    BY <1>1, <2>1 DEF Batches
  <2>3. RowsOfStock' = RowsOfStock
    BY <2>2 DEF RowsOfStock
  <2>4. \A p \in Products : Asks(o, p) = 0
    BY <1>2, <1>3, AsksType DEF Asked
  <2>5. reserved' = reserved
    <3>1. \A p \in Products : reserved[p] + Asks(o, p) = reserved[p]
      BY <2>4 DEF TypeOK
    <3> QED BY <1>1, <3>1 DEF TypeOK
  <2> QED BY <1>1, <2>3, <2>5
<1>4. CASE DOMAIN Items[o] # {}
  <2> DEFINE R == Batches(o, "RESERVED")
             L == Batches(o, "RELEASED")
             D == Batches(o, "DECREMENTED")
  <2>1. PICK i \in DOMAIN Items[o] : TRUE
    BY <1>4
  <2>2. <<c, i>> \in Rows /\ <<c, i>>[1] = c
    BY <1>2, <2>1, RowShape DEF ItemsOf
  <2>3. R' = R \cup {c} /\ L' = L /\ D' = D
    <3>1. R' = R \cup {c}
      BY <1>1, <1>2, <2>2 DEF Batches
    <3>2. L' = L /\ D' = D
      BY <1>1 DEF Batches
    <3> QED BY <3>1, <3>2
  <2>4. c \notin R /\ c \notin L /\ c \notin D
    BY <1>1 DEF Batches
  <2>5. \A x \in Orders : x # o => \A s : Batches(x, s)' = Batches(x, s)
    BY <1>1 DEF Batches
  <2>6. /\ IsFiniteSet(R) /\ IsFiniteSet(L) /\ IsFiniteSet(D)
        /\ Cardinality(R) \in Nat /\ Cardinality(L) \in Nat /\ Cardinality(D) \in Nat
        /\ R \subseteq Calls /\ L \subseteq Calls /\ D \subseteq Calls
    <3>1. \A s : /\ Batches(o, s) \subseteq {d \in Calls : Kind(d) = "reserve" /\ Order(d) = o}
                 /\ IsFiniteSet(Batches(o, s)) /\ Cardinality(Batches(o, s)) \in Nat
      BY BatchesType
    <3> QED BY <3>1
  <2>7. Cardinality(R) + Cardinality(L) + Cardinality(D) < Cardinality(Calls)
    <3>1. R \cap L = {} /\ (R \cup L) \cap D = {}
      BY OneStatus DEF AtomicInv
    <3> HIDE DEF R, L, D
    <3>2. IsFiniteSet(R \cup L) /\ Cardinality(R \cup L) = Cardinality(R) + Cardinality(L)
      BY <2>6, <3>1, FS_Union, FS_EmptySet
    <3>3. Cardinality(R \cup L) \in Nat /\ Cardinality({}) = 0
      BY <3>2, FS_CardinalityType, FS_EmptySet
    <3>4. /\ IsFiniteSet((R \cup L) \cup D)
          /\ Cardinality((R \cup L) \cup D) = Cardinality(R \cup L) + Cardinality(D)
      <4>1. Cardinality((R \cup L) \cup D)
              = Cardinality(R \cup L) + Cardinality(D) - Cardinality((R \cup L) \cap D)
            /\ IsFiniteSet((R \cup L) \cup D)
        BY <2>6, <3>2, FS_Union
      <4>2. Cardinality((R \cup L) \cap D) = 0
        BY <3>1, <3>3
      <4> QED BY <2>6, <3>3, <4>1, <4>2
    <3>5. (R \cup L) \cup D \in SUBSET (Calls \ {c})
      BY <2>4, <2>6
    <3>6. IsFiniteSet(Calls \ {c}) /\ Cardinality(Calls \ {c}) = Cardinality(Calls) - 1
          /\ Cardinality(Calls) \in Nat
      BY FS_RemoveElement, FS_CardinalityType
    <3>7. Cardinality((R \cup L) \cup D) <= Cardinality(Calls \ {c})
      BY <3>5, <3>6, FS_Subset
    <3> QED BY <2>6, <3>2, <3>4, <3>6, <3>7
  <2>8. Cardinality(R \cup {c}) = Cardinality(R) + 1
    <3> HIDE DEF R
    <3> QED BY <2>4, <2>6, FS_AddElement
  <2>9. RowsOfStock' = [RowsOfStock EXCEPT ![o]["RESERVED"] = @ + 1]
    <3> DEFINE statuses == {"RESERVED", "RELEASED", "DECREMENTED"}
               new == [RowsOfStock EXCEPT ![o]["RESERVED"] = @ + 1]
    <3>1. \A x \in Orders : \A s \in statuses : RowsOfStock[x][s] = Cardinality(Batches(x, s))
      BY DEF RowsOfStock
    <3>2. \A x \in Orders : \A s \in statuses : RowsOfStock'[x][s] = Cardinality(Batches(x, s)')
      BY DEF RowsOfStock
    <3>3. \A s \in statuses : Cardinality(Batches(o, s)')
              = IF s = "RESERVED" THEN Cardinality(Batches(o, s)) + 1 ELSE Cardinality(Batches(o, s))
      BY <2>3, <2>8
    <3>4. \A x \in Orders : x # o => \A s \in statuses : Cardinality(Batches(x, s)') = Cardinality(Batches(x, s))
      BY <2>5
    <3>5. new = [x \in Orders |-> [s \in statuses |->
                   IF x = o /\ s = "RESERVED" THEN RowsOfStock[x][s] + 1 ELSE RowsOfStock[x][s]]]
      BY <1>2 DEF RowsOfStock
    <3>6. RowsOfStock' = [x \in Orders |-> [s \in statuses |-> Cardinality(Batches(x, s)')]]
      BY DEF RowsOfStock
    <3> HIDE DEF new, statuses
    <3>7. ASSUME NEW x \in Orders, NEW s \in statuses
          PROVE  Cardinality(Batches(x, s)')
                   = IF x = o /\ s = "RESERVED" THEN RowsOfStock[x][s] + 1 ELSE RowsOfStock[x][s]
      BY <3>1, <3>3, <3>4
    <3>8. RowsOfStock' = new
      BY <3>5, <3>6, <3>7
    <3> QED BY <3>8 DEF new
  <2>10. \A s \in {"RESERVED", "RELEASED", "DECREMENTED"} : RowsOfStock[o][s] = Cardinality(Batches(o, s))
    BY <1>2 DEF RowsOfStock
  <2>11. Stock!Reserve(o)
    <3>1. \A p \in Products : Stock!Quantity(o, p) = Asks(o, p)
      BY <1>2, StockQuantity
    <3>2. RowsOfStock[o]["RESERVED"] + RowsOfStock[o]["RELEASED"] + RowsOfStock[o]["DECREMENTED"]
            < Cardinality(Calls)
      BY <2>7, <2>10
    <3>3. reserved' = [p \in Products |-> reserved[p] + Stock!Quantity(o, p)]
      BY <1>1, <3>1
    <3> HIDE DEF o
    <3> QED BY <2>9, <3>2, <3>3 DEF Stock!Reserve, RowsOfStock
  <2>12. Stock!Enough(o)
    BY <1>1, <1>2, StockQuantity DEF Stock!Enough, Stock!Free
  <2>13. Stock!ReserveStock(o, "OK")
    BY <1>1, <1>2, <2>11, <2>12 DEF Stock!ReserveStock
  <2> QED BY <2>13
<1> QED BY <1>3, <1>4

\* What the RESERVED rows of an order hold, in the words of Inventory.
LEMMA StockHeld ==
  ASSUME IsFiniteSet(Calls), Uniform, NEW o \in Orders, NEW p
  PROVE  Stock!Held(o, p) = RowSum(Reserved(o), p)
<1>1. Reserved(o) = RowsOfCalls(Batches(o, "RESERVED"))
  <2>1. ASSUME NEW r \in Reserved(o) PROVE r \in RowsOfCalls(Batches(o, "RESERVED"))
    BY RowFacts DEF Reserved, RowsOfCalls, Batches
  <2>2. ASSUME NEW r \in RowsOfCalls(Batches(o, "RESERVED")) PROVE r \in Reserved(o)
    BY DEF Reserved, RowsOfCalls, Batches, RowOrder, Uniform
  <2> QED BY <2>1, <2>2
<1>2. RowSum(RowsOfCalls(Batches(o, "RESERVED")), p) = Cardinality(Batches(o, "RESERVED")) * Asks(o, p)
  BY BatchesType, ManyBatches
<1>3. Stock!Held(o, p) = Cardinality(Batches(o, "RESERVED")) * Stock!Quantity(o, p)
  BY DEF Stock!Held
<1> QED BY <1>1, <1>2, <1>3, StockQuantity

\* A commit of a Release or a Decrement moves every RESERVED row of its order.
LEMMA CommitSettleRows ==
  ASSUME IsFiniteSet(Calls), TypeOK, LockInv, AtomicInv, NEW c \in Calls, CommitSettle(c)
  PROVE  LET o == Order(c)
             status == IF Kind(c) = "release" THEN "RELEASED" ELSE "DECREMENTED"
         IN  /\ Batches(o, "RESERVED") # {}
             /\ Batches(o, "RESERVED")' = {}
             /\ Batches(o, status)' = Batches(o, status) \cup Batches(o, "RESERVED")
             /\ \A s : s \notin {status, "RESERVED"} => Batches(o, s)' = Batches(o, s)
             /\ \A x \in Orders : x # o => \A s : Batches(x, s)' = Batches(x, s)
<1> DEFINE o == Order(c)
           status == IF Kind(c) = "release" THEN "RELEASED" ELSE "DECREMENTED"
<1>1. /\ moved[c] = Reserved(o) /\ Reserved(o) # {}
      /\ \A r \in Rows : row'[r] = IF r \in moved[c] THEN status ELSE row[r]
  <2>1. moved[c] = Reserved(o) /\ found[c] = moved[c] /\ found[c] # {}
    BY MovedReserved, RowsSettled DEF AtomicInv, CommitSettle
  <2> QED BY <2>1, RowsSettled
<1> DEFINE ofOrder(r) == RowOrder(r) = o
<1>2. \A r \in Rows : row'[r] = IF ofOrder(r) /\ row[r] = "RESERVED" THEN status ELSE row[r]
  BY <1>1 DEF Reserved
<1>3. \A r \in Rows : /\ r[1] \in Calls /\ Kind(r[1]) = "reserve"
                      /\ (ofOrder(r) <=> Order(r[1]) = o)
  BY RowFacts DEF RowOrder
<1>4. status \in {"RELEASED", "DECREMENTED"}
  OBVIOUS
<1> HIDE DEF o, status, ofOrder
<1>5. Batches(o, "RESERVED") # {}
  <2>1. PICK r \in Reserved(o) : TRUE
    BY <1>1
  <2>2. r \in Rows /\ RowOrder(r) = o /\ row[r] = "RESERVED"
    BY <2>1 DEF Reserved
  <2>3. r[1] \in Batches(o, "RESERVED")
    BY <1>3, <2>2 DEF Batches, ofOrder
  <2> QED BY <2>3
<1>6. Batches(o, "RESERVED")' = {}
  <2> SUFFICES ASSUME NEW d \in Calls, Order(d) = o, NEW r \in Rows, r[1] = d, row'[r] = "RESERVED"
               PROVE  FALSE
    BY DEF Batches, o
  <2> QED BY <1>2, <1>3, <1>4
<1>7. Batches(o, status)' = Batches(o, status) \cup Batches(o, "RESERVED")
  <2>1. \A d \in Calls : Order(d) = o =>
          ((\E r \in Rows : r[1] = d /\ row'[r] = status)
             <=> \E r \in Rows : r[1] = d /\ row[r] \in {status, "RESERVED"})
    BY <1>2, <1>3
  <2> QED BY <2>1 DEF Batches, o, status
<1>8. \A s : s \notin {status, "RESERVED"} => Batches(o, s)' = Batches(o, s)
  <2> SUFFICES ASSUME NEW s, s \notin {status, "RESERVED"} PROVE Batches(o, s)' = Batches(o, s)
    OBVIOUS
  <2>1. \A r \in Rows : row'[r] = s <=> row[r] = s
    BY <1>2
  <2> QED BY <2>1 DEF Batches, o
<1>9. \A x \in Orders : x # o => \A s : Batches(x, s)' = Batches(x, s)
  <2> SUFFICES ASSUME NEW x \in Orders, x # o, NEW s PROVE Batches(x, s)' = Batches(x, s)
    OBVIOUS
  <2>1. \A r \in Rows : Order(r[1]) = x => row'[r] = row[r]
    BY <1>2, <1>3
  <2> QED BY <2>1 DEF Batches
<1> QED BY <1>5, <1>6, <1>7, <1>8, <1>9 DEF o, status

\* The counts of rows in the words of Inventory.
LEMMA CommitSettleMoves ==
  ASSUME IsFiniteSet(Calls), TypeOK, LockInv, AtomicInv, NEW c \in Calls, CommitSettle(c)
  PROVE  LET o == Order(c)
             status == IF Kind(c) = "release" THEN "RELEASED" ELSE "DECREMENTED"
         IN  /\ RowsOfStock[o]["RESERVED"] > 0
             /\ RowsOfStock' = [RowsOfStock EXCEPT ![o]["RESERVED"] = 0,
                                                   ![o][status] = @ + RowsOfStock[o]["RESERVED"]]
<1> DEFINE o == Order(c)
           status == IF Kind(c) = "release" THEN "RELEASED" ELSE "DECREMENTED"
           statuses == {"RESERVED", "RELEASED", "DECREMENTED"}
           R == Batches(o, "RESERVED")
           T == Batches(o, status)
           count(x, s) == Cardinality(Batches(x, s))
           new == [RowsOfStock EXCEPT ![o]["RESERVED"] = 0,
                                      ![o][status] = @ + RowsOfStock[o]["RESERVED"]]
<1>1. /\ R # {} /\ R' = {} /\ T' = T \cup R
      /\ \A s : s \notin {status, "RESERVED"} => Batches(o, s)' = Batches(o, s)
      /\ \A x \in Orders : x # o => \A s : Batches(x, s)' = Batches(x, s)
  BY CommitSettleRows
<1>2. o \in Orders /\ status \in {"RELEASED", "DECREMENTED"}
  BY CallFacts
<1>3. /\ IsFiniteSet(R) /\ IsFiniteSet(T) /\ R \cap T = {}
      /\ Cardinality(R) \in Nat /\ Cardinality(T) \in Nat
  <2>1. \A s : IsFiniteSet(Batches(o, s)) /\ Cardinality(Batches(o, s)) \in Nat
    BY BatchesType
  <2>2. R \cap T = {}
    BY <1>2, OneStatus DEF AtomicInv
  <2> QED BY <2>1, <2>2
<1>4. Cardinality(R) > 0 /\ Cardinality(T \cup R) = Cardinality(T) + Cardinality(R)
  <2> HIDE DEF R, T
  <2>1. Cardinality(R) # 0
    BY <1>1, <1>3, FS_EmptySet
  <2>2. Cardinality(T \cup R) = Cardinality(T) + Cardinality(R) - Cardinality(T \cap R)
    BY <1>3, FS_Union
  <2>3. Cardinality(T \cap R) = 0
    <3>1. T \cap R = {}
      BY <1>3
    <3> QED BY <3>1, FS_EmptySet
  <2> QED BY <1>3, <2>1, <2>2, <2>3
<1>5. \A x \in Orders : \A s \in statuses : RowsOfStock[x][s] = count(x, s)
  BY DEF RowsOfStock
<1>6. RowsOfStock' = [x \in Orders |-> [s \in statuses |-> count(x, s)']]
  BY DEF RowsOfStock
<1>7. new = [x \in Orders |-> [s \in statuses |->
               IF x = o /\ s = "RESERVED" THEN 0
               ELSE IF x = o /\ s = status THEN RowsOfStock[x][s] + RowsOfStock[o]["RESERVED"]
               ELSE RowsOfStock[x][s]]]
  <2>1. RowsOfStock = [x \in Orders |-> [s \in statuses |-> RowsOfStock[x][s]]]
    BY DEF RowsOfStock
  <2> HIDE DEF o, status
  <2> QED BY <1>2, <2>1
<1>8. ASSUME NEW x \in Orders, NEW s \in statuses
      PROVE  count(x, s)' = IF x = o /\ s = "RESERVED" THEN 0
                            ELSE IF x = o /\ s = status THEN RowsOfStock[x][s] + RowsOfStock[o]["RESERVED"]
                            ELSE RowsOfStock[x][s]
  <2>1. RowsOfStock[x][s] = count(x, s) /\ RowsOfStock[o]["RESERVED"] = Cardinality(R)
    BY <1>2, <1>5
  <2>2. CASE x # o
    BY <1>1, <2>1, <2>2
  <2>3. CASE x = o /\ s = "RESERVED"
    BY <1>1, <1>2, <2>3, FS_EmptySet
  <2>4. CASE x = o /\ s = status
    BY <1>1, <1>2, <1>4, <2>1, <2>4
  <2>5. CASE x = o /\ s \notin {status, "RESERVED"}
    BY <1>1, <2>1, <2>5
  <2> QED BY <2>2, <2>3, <2>4, <2>5
<1>9. RowsOfStock' = new
  <2> HIDE DEF new, count, o, status, statuses
  <2> QED BY <1>6, <1>7, <1>8
<1>10. RowsOfStock[o]["RESERVED"] > 0
  BY <1>2, <1>4, <1>5
<1> QED BY <1>9, <1>10

\* The commit of a ReleaseStock or a DecrementStock is that of Inventory.
LEMMA CommitSettleMaps ==
  ASSUME IsFiniteSet(Calls), TypeOK, LockInv, AtomicInv, NEW c \in Calls, CommitSettle(c)
  PROVE  Stock!ReleaseStock(Order(c), "OK") \/ Stock!DecrementStock(Order(c), "OK")
<1> DEFINE o == Order(c)
<1>1. o \in Orders
  BY CallFacts
<1>2. \A p \in Products : change[c][p] = Stock!Held(o, p)
  <2>1. at[c] = "update" /\ found[c] = Reserved(o)
    BY FoundReserved DEF CommitSettle, AtomicInv
  <2>2. \A p \in Products : Stock!Held(o, p) = RowSum(Reserved(o), p)
    BY <1>1, StockHeld DEF AtomicInv
  <2> QED BY <2>1, <2>2 DEF AtomicInv, Counts
<1>3. reserved' = [p \in Products |-> reserved[p] - Stock!Held(o, p)]
  BY <1>2 DEF CommitSettle
<1>4. \A p \in Products : /\ 0 <= reserved'[p] /\ reserved'[p] <= available'[p]
                          /\ reserved'[p] \in Int /\ available'[p] \in Int
  BY CommitsDo DEF AtomicInv
<1>5. \A p \in Products : reserved'[p] >= 0 /\ available'[p] >= 0
  BY <1>4
<1>6. RowsOfStock[o]["RESERVED"] > 0
  BY CommitSettleMoves
<1>7. CASE Kind(c) = "release"
  <2>1. UNCHANGED available
    BY <1>7 DEF CommitSettle
  <2>2. RowsOfStock' = [RowsOfStock EXCEPT ![o]["RESERVED"] = 0,
                                           ![o]["RELEASED"] = @ + RowsOfStock[o]["RESERVED"]]
    BY <1>7, CommitSettleMoves
  <2> HIDE DEF o
  <2>3. Stock!MoveRows(o, "RELEASED")
    BY <2>2 DEF Stock!MoveRows, RowsOfStock
  <2>4. Stock!ReleaseStock(o, "OK")
    BY <1>3, <1>5, <1>6, <2>1, <2>3 DEF Stock!ReleaseStock, RowsOfStock
  <2> QED BY <2>4 DEF o
<1>8. CASE Kind(c) = "decrement"
  <2>1. available' = [p \in Products |-> available[p] - Stock!Held(o, p)]
    BY <1>2, <1>8 DEF CommitSettle
  <2>2. RowsOfStock' = [RowsOfStock EXCEPT ![o]["RESERVED"] = 0,
                                           ![o]["DECREMENTED"] = @ + RowsOfStock[o]["RESERVED"]]
    BY <1>8, CommitSettleMoves
  <2> HIDE DEF o
  <2>3. Stock!MoveRows(o, "DECREMENTED")
    BY <2>2 DEF Stock!MoveRows, RowsOfStock
  <2>4. Stock!DecrementStock(o, "OK")
    BY <1>3, <1>5, <1>6, <2>1, <2>3 DEF Stock!DecrementStock, RowsOfStock
  <2> QED BY <2>4 DEF o
<1> QED BY <1>7, <1>8, RowsSettled

\* The initial tables are those of Inventory.
LEMMA InitMaps == Init => Stock!Init
<1> SUFFICES ASSUME Init PROVE Stock!Init
  OBVIOUS
<1>1. \A o, s : s # "none" => Batches(o, s) = {}
  BY DEF Init, Batches
<1>2. RowsOfStock = [o \in Orders |-> [s \in {"RESERVED", "RELEASED", "DECREMENTED"} |-> 0]]
  BY <1>1, FS_EmptySet DEF RowsOfStock
<1> QED BY <1>2, TxAssumption DEF Init, Stock!Init, Stock!RowStatus, RowsOfStock

\* Whatever the interleaving of statements, the tables move as if every
\* transaction were one step, while no call reserves for an order that
\* another call settles.
THEOREM AtomicTransactions ==
  ASSUME IsFiniteSet(Calls), ~ LateReserve
  PROVE  Spec => TransactionsAreAtomic
<1>1. Init => TypeOK /\ LockInv /\ AtomicInv /\ Stock!Init
  BY InitAtomic, InitMaps, InitTyped, InitLocks
<1>2. TypeOK /\ LockInv /\ AtomicInv /\ [Next]_vars
        => TypeOK' /\ LockInv' /\ AtomicInv' /\ [Stock!Next]_(Stock!vars)
  <2> SUFFICES ASSUME TypeOK, LockInv, AtomicInv, [Next]_vars
               PROVE  [Stock!Next]_(Stock!vars)
    BY NextTyped, NextLocks, AtomicInvKept
  <2>1. CASE UNCHANGED <<available, reserved, RowsOfStock>>
    BY <2>1 DEF Stock!vars, RowsOfStock
  <2>2. CASE UNCHANGED <<available, reserved, row>>
    <3>1. RowsOfStock' = RowsOfStock
      BY <2>2 DEF RowsOfStock, Batches
    <3> QED BY <2>1, <2>2, <3>1
  <2>3. ASSUME NEW c \in Calls, CommitReserve(c) PROVE [Stock!Next]_(Stock!vars)
    <3>1. Order(c) \in Orders
      BY CallFacts
    <3>2. Stock!ReserveStock(Order(c), "OK") => Stock!Next
      BY <3>1 DEF Stock!Next, Stock!Codes
    <3> QED BY <2>1, <2>3, <3>2, CommitReserveMaps
  <2>4. ASSUME NEW c \in Calls, CommitSettle(c) PROVE [Stock!Next]_(Stock!vars)
    <3>1. Order(c) \in Orders
      BY CallFacts
    <3>2. Stock!ReleaseStock(Order(c), "OK") \/ Stock!DecrementStock(Order(c), "OK") => Stock!Next
      BY <3>1 DEF Stock!Next, Stock!Codes
    <3> QED BY <2>4, <3>2, CommitSettleMaps
  <2>5. ASSUME NEW c \in Calls, Begin(c) \/ Step(c), ~ CommitReserve(c), ~ CommitSettle(c)
        PROVE  UNCHANGED <<available, reserved, row>>
    BY <2>5 DEF Begin, Step, ReserveItem, VisitRow, Selected, SettleRow, Settled, AbortDeadlocked, Rollback
  <2>6. CASE UNCHANGED vars
    BY <2>2, <2>6 DEF vars
  <2> QED BY <2>2, <2>3, <2>4, <2>5, <2>6 DEF Next
<1> QED BY <1>1, <1>2, PTL DEF Spec, TransactionsAreAtomic, Stock!Spec

-----------------------------------------------------------------------------
(* What is proved of Inventory holds of the transactions *)

Proved == INSTANCE InventoryProofs WITH
  Demand     <- [o \in Orders |-> [p \in Asked(o) |-> SumFunctionOnSet(Quantities(o), ItemsFor(o, p))]],
  MaxBatches <- Cardinality(Calls),
  listed     <- Listed,
  active     <- Listed,
  rows       <- [o \in Orders |-> [s \in {"RESERVED", "RELEASED", "DECREMENTED"} |->
                  Cardinality(Batches(o, s))]]

\* An order asks for at least one unit of every product it names.
LEMMA DemandPositive ==
  ASSUME NEW o \in Orders, NEW p \in Asked(o)
  PROVE  SumFunctionOnSet(Quantities(o), ItemsFor(o, p)) \in Nat \ {0}
<1>1. PICK i \in DOMAIN Items[o] : Items[o][i].product = p
  BY DEF Asked
<1> DEFINE S == ItemsFor(o, p)
           f == Quantities(o)
<1>2. i \in S /\ f[i] \in Nat \ {0}
  BY <1>1, ItemFacts DEF ItemsFor, Quantities
<1>3. IsFiniteSet(S) /\ \A x \in S : f[x] \in Nat
  BY AsksType
<1>4. IsFiniteSet(S \ {i}) /\ \A x \in S \ {i} : f[x] \in Nat
  BY <1>3, FS_RemoveElement
<1> HIDE DEF S, f
<1>5. SumFunctionOnSet(f, S \ {i}) \in Nat
  BY <1>4, SumType
<1>6. SumFunctionOnSet(f, S) = f[i] + SumFunctionOnSet(f, S \ {i})
  BY <1>2, <1>3, SumRemove
<1> QED BY <1>2, <1>5, <1>6 DEF S, f

\* The two tables agree however statements interleave, while no call reserves
\* for an order that another call settles; when one does they need not.
THEOREM TablesAgree ==
  ASSUME IsFiniteSet(Calls), IsFiniteSet(Orders), ~ LateReserve
  PROVE  Spec => []ReservedTracksRows
<1>1. Proved!StockConstants
  <2>1. Cardinality(Calls) \in Nat
    BY FS_CardinalityType
  <2> QED BY <2>1, TxAssumption, DemandPositive DEF Proved!StockConstants
<1>2. Proved!IsFiniteSet(Orders)
  BY DEF Proved!IsFiniteSet, IsFiniteSet
<1>3. Stock!Spec => Proved!Spec
  <2>1. Stock!Init => Proved!Init
    BY DEF Stock!Init, Proved!Init, Stock!RowStatus, Proved!RowStatus
  <2>2. [Stock!Next]_(Stock!vars) => [Proved!Next]_(Proved!vars)
    BY DEF Stock!Next, Stock!vars, Stock!CreateProduct, Stock!UpdateProduct, Stock!ReserveStock,
           Stock!Enough, Stock!Free, Stock!Reserve, Stock!Quantity, Stock!ReleaseStock,
           Stock!DecrementStock, Stock!NothingReserved, Stock!MoveRows, Stock!Held, Stock!Codes,
           Stock!RowStatus,
           Proved!Next, Proved!vars, Proved!CreateProduct, Proved!UpdateProduct, Proved!ReserveStock,
           Proved!Enough, Proved!Free, Proved!Reserve, Proved!Quantity, Proved!ReleaseStock,
           Proved!DecrementStock, Proved!NothingReserved, Proved!MoveRows, Proved!Held, Proved!Codes,
           Proved!RowStatus
  <2> QED BY <2>1, <2>2, PTL DEF Stock!Spec, Proved!Spec
<1>4. Proved!Spec => []Proved!StockLedger
  BY <1>1, <1>2, Proved!LedgerAgrees
<1>5. Proved!StockLedger => ReservedTracksRows
  BY DEF ReservedTracksRows, Stock!StockLedger, Stock!Bought, Stock!Held, Stock!Quantity,
         Proved!StockLedger, Proved!Bought, Proved!Held, Proved!Quantity,
         Stock!SumFunction, Stock!SumFunctionOnSet, Stock!FoldFunctionOnSet, Stock!MapThenFoldSet,
         Proved!SumFunction, Proved!SumFunctionOnSet, Proved!FoldFunctionOnSet, Proved!MapThenFoldSet
<1>6. Spec => Stock!Spec
  BY AtomicTransactions DEF TransactionsAreAtomic
<1> QED BY <1>3, <1>4, <1>5, <1>6, PTL
=============================================================================
