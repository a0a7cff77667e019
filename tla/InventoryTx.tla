----------------------------- MODULE InventoryTx -----------------------------
(***************************************************************************)
(* The transactions of ReserveStock, ReleaseStock and DecrementStock,      *)
(* statement by statement, under PostgreSQL's READ COMMITTED isolation.    *)
(*                                                                         *)
(* A call is one RPC with a transaction of its own.  A statement that      *)
(* locks a row waits while another call holds it; locks are held until the *)
(* transaction ends; a row that was waited for is looked at again before   *)
(* it is used; a statement does not see rows inserted after it began.  One *)
(* call of every cycle of waiting calls is aborted.  Nothing a transaction *)
(* wrote is visible to others before it commits, so the tables change only *)
(* in the two commit actions.                                              *)
(***************************************************************************)
EXTENDS Integers, Sequences, FiniteSets, Functions

CONSTANTS
  Products, Listed,  \* all products, and those the table holds
  Orders, InitialStock,
  Items,             \* Items[o]: the items of order o in request order
  Calls, Request,    \* Request[c]: the kind of call c and its order
  LateReserve,       \* may a ReserveStock overlap other calls of its order?
  NoCall             \* no call

Kinds == {"reserve", "release", "decrement"}

ASSUME TxAssumption ==
  /\ Listed \subseteq Products
  /\ InitialStock \in [Products -> Nat]
  /\ \A o \in Orders : Items[o] \in Seq([product : Products, quantity : Nat \ {0}])
  /\ Request \in [Calls -> [kind : Kinds, order : Orders]]
  /\ LateReserve \in BOOLEAN
  /\ NoCall \notin Calls

VARIABLES
  available, reserved,  \* the stock columns, as committed
  row,        \* the status of every reservation row, "none" before its INSERT
  at,         \* the statement a call is at
  item,       \* ReserveStock: the item it is at
  change,     \* what a call will add to, or take from, the columns
  todo,       \* rows the statement at hand has still to visit
  found,      \* the rows the SELECT ... FOR UPDATE returned
  moved,      \* the rows the last UPDATE has changed
  owner,      \* the call that holds the lock of a product row
  answer      \* the answer of a call, "none" while it runs

vars == <<available, reserved, row, at, item, change, todo, found, moved, owner, answer>>

Kind(c) == Request[c].kind
Order(c) == Request[c].order
ItemsOf(c) == Items[Order(c)]

\* A row is named by the call that inserts it and the position of its item.
Rows == UNION {{<<c, i>> : i \in DOMAIN ItemsOf(c)} : c \in {d \in Calls : Kind(d) = "reserve"}}
RowOrder(r) == Order(r[1])
RowItem(r) == ItemsOf(r[1])[r[2]]

Reserved(o) == {r \in Rows : RowOrder(r) = o /\ row[r] = "RESERVED"}

-----------------------------------------------------------------------------
(* Locks *)

RowOwner(r) ==
  LET holders == {c \in Calls : r \in found[c] \cup moved[c]}
  IN  IF holders = {} THEN NoCall ELSE CHOOSE c \in holders : TRUE

\* A scan visits the rows in some order.
NextRow(c) == CHOOSE r \in todo[c] : TRUE

\* The call that holds the lock the statement of c needs next.
Holder(c) ==
  CASE at[c] = "item" /\ item[c] \in DOMAIN ItemsOf(c) -> owner[ItemsOf(c)[item[c]].product]
    [] at[c] \in {"select", "update"} /\ todo[c] # {} -> RowOwner(NextRow(c))
    [] at[c] = "settle" /\ todo[c] # {} -> owner[RowItem(NextRow(c)).product]
    [] OTHER -> NoCall

May(c) == Holder(c) \in {NoCall, c}

\* c is one of a circle of calls that wait for each other.
Deadlocked(c) ==
  \E circle \in SUBSET Calls :
     /\ c \in circle
     /\ \A d \in circle : ~ May(d)
     /\ {Holder(d) : d \in circle} = circle

\* The transaction ends: every lock of c is free.
Finish(c, code) ==
  /\ at' = [at EXCEPT ![c] = "done"]
  /\ answer' = [answer EXCEPT ![c] = code]
  /\ owner' = [p \in Products |-> IF owner[p] = c THEN NoCall ELSE owner[p]]
  /\ todo' = [todo EXCEPT ![c] = {}]
  /\ found' = [found EXCEPT ![c] = {}]
  /\ moved' = [moved EXCEPT ![c] = {}]
  /\ change' = [change EXCEPT ![c] = [p \in Products |-> 0]]
  /\ UNCHANGED item

\* Mutant of Rollback: the deferred Rollback is missing.
RollbackForgotten(c, code) ==
  /\ at' = [at EXCEPT ![c] = "done"]
  /\ answer' = [answer EXCEPT ![c] = code]
  /\ UNCHANGED <<available, reserved, row, item, change, todo, found, moved, owner>>

Rollback(c, code) == Finish(c, code) /\ UNCHANGED <<available, reserved, row>>

-----------------------------------------------------------------------------

\* The client sends the call.  Unless LateReserve, a client waits for the
\* answer of ReserveStock before it settles the order, and does not reserve
\* for an order it is settling.
Begin(c) ==
  /\ at[c] = "idle"
  /\ LateReserve \/ \A d \in Calls :
       Order(d) = Order(c) /\ "reserve" \in {Kind(c), Kind(d)} => d = c \/ at[d] \in {"idle", "done"}
  /\ at' = [at EXCEPT ![c] = IF Kind(c) = "reserve" THEN "item" ELSE "select"]
  /\ todo' = [todo EXCEPT ![c] = IF Kind(c) = "reserve" THEN {} ELSE Reserved(Order(c))]
  /\ UNCHANGED <<available, reserved, row, item, change, found, moved, owner, answer>>

\* Mutant of MayReserve: the SELECT without FOR UPDATE.
MayReserveUnlocked(c) == at[c] = "item"

MayReserve(c) == at[c] = "item" /\ May(c)

\* One item: lock the product, check what is free, raise stock_reserved and
\* insert the row.  The lock is held, so the three statements are one step.
ReserveItem(c) ==
  /\ MayReserve(c)
  /\ item[c] \in DOMAIN ItemsOf(c)
  /\ LET p == ItemsOf(c)[item[c]].product
         n == ItemsOf(c)[item[c]].quantity
     IN  IF p \notin Listed THEN Rollback(c, "NotFound")
         ELSE IF available[p] - (reserved[p] + change[c][p]) < n
         THEN Rollback(c, "FailedPrecondition")
         ELSE /\ owner' = [owner EXCEPT ![p] = c]
              /\ change' = [change EXCEPT ![c][p] = @ + n]
              /\ item' = [item EXCEPT ![c] = @ + 1]
              /\ UNCHANGED <<available, reserved, row, at, todo, found, moved, answer>>

CommitReserve(c) ==
  /\ at[c] = "item" /\ item[c] \notin DOMAIN ItemsOf(c)
  /\ reserved' = [p \in Products |-> reserved[p] + change[c][p]]
  /\ row' = [r \in Rows |-> IF r[1] = c THEN "RESERVED" ELSE row[r]]
  /\ Finish(c, "OK")
  /\ UNCHANGED available

-----------------------------------------------------------------------------
(* ReleaseStock and DecrementStock *)

\* Mutant of StillReserved: a row that was waited for is not looked at again.
Unchecked(r) == TRUE

\* A row another call settled while c waited no longer matches.
StillReserved(r) == row[r] = "RESERVED"

\* A statement on the RESERVED rows of the order visits one of them.
VisitRow(c) ==
  /\ at[c] \in {"select", "update"} /\ todo[c] # {} /\ May(c)
  /\ LET r == NextRow(c)
         hit == IF StillReserved(r) THEN {r} ELSE {}
     IN  /\ todo' = [todo EXCEPT ![c] = @ \ {r}]
         /\ \/ /\ at[c] = "select"
               /\ found' = [found EXCEPT ![c] = @ \cup hit]
               /\ UNCHANGED moved
            \/ /\ at[c] = "update"
               /\ moved' = [moved EXCEPT ![c] = @ \cup hit]
               /\ UNCHANGED found
  /\ UNCHANGED <<available, reserved, row, at, item, change, owner, answer>>

Selected(c) ==
  /\ at[c] = "select" /\ todo[c] = {}
  /\ \/ found[c] = {} /\ Rollback(c, "NotFound")
     \/ /\ found[c] # {}
        /\ at' = [at EXCEPT ![c] = "settle"]
        /\ todo' = [todo EXCEPT ![c] = found[c]]
        /\ UNCHANGED <<available, reserved, row, item, change, found, moved, owner, answer>>

\* The CHECK constraints of the columns reject a negative count.
Covered(c, p, n) ==
  /\ n <= reserved[p]
  /\ Kind(c) = "decrement" => n <= available[p]

\* What c takes of a product once it has settled row r too.
Taken(c, r) == change[c][RowItem(r).product] + RowItem(r).quantity

\* UPDATE products for one row found.
SettleRow(c) ==
  /\ at[c] = "settle" /\ todo[c] # {} /\ May(c)
  /\ LET r == NextRow(c)
         p == RowItem(r).product
         n == Taken(c, r)
     IN  IF ~ Covered(c, p, n) THEN Rollback(c, "Internal")
         ELSE /\ owner' = [owner EXCEPT ![p] = c]
              /\ change' = [change EXCEPT ![c][p] = n]
              /\ todo' = [todo EXCEPT ![c] = @ \ {r}]
              /\ UNCHANGED <<available, reserved, row, at, item, found, moved, answer>>

\* The UPDATE of the reservation rows begins; it selects by order and status.
Settled(c) ==
  /\ at[c] = "settle" /\ todo[c] = {}
  /\ at' = [at EXCEPT ![c] = "update"]
  /\ todo' = [todo EXCEPT ![c] = Reserved(Order(c))]
  /\ UNCHANGED <<available, reserved, row, item, change, found, moved, owner, answer>>

CommitSettle(c) ==
  /\ at[c] = "update" /\ todo[c] = {}
  /\ reserved' = [p \in Products |-> reserved[p] - change[c][p]]
  /\ \/ /\ Kind(c) = "release"
        /\ UNCHANGED available
        /\ row' = [r \in Rows |-> IF r \in moved[c] THEN "RELEASED" ELSE row[r]]
     \/ /\ Kind(c) = "decrement"
        /\ available' = [p \in Products |-> available[p] - change[c][p]]
        /\ row' = [r \in Rows |-> IF r \in moved[c] THEN "DECREMENTED" ELSE row[r]]
  /\ Finish(c, "OK")

\* PostgreSQL aborts one of the transactions that wait in a circle.
AbortDeadlocked(c) == Deadlocked(c) /\ Rollback(c, "Internal")

-----------------------------------------------------------------------------

Init ==
  /\ available = [p \in Products |-> IF p \in Listed THEN InitialStock[p] ELSE 0]
  /\ reserved = [p \in Products |-> 0]
  /\ row = [r \in Rows |-> "none"]
  /\ at = [c \in Calls |-> "idle"]
  /\ item = [c \in Calls |-> 1]
  /\ change = [c \in Calls |-> [p \in Products |-> 0]]
  /\ todo = [c \in Calls |-> {}]
  /\ found = [c \in Calls |-> {}]
  /\ moved = [c \in Calls |-> {}]
  /\ owner = [p \in Products |-> NoCall]
  /\ answer = [c \in Calls |-> "none"]

Step(c) ==
  \/ ReserveItem(c) \/ CommitReserve(c)
  \/ VisitRow(c) \/ Selected(c) \/ SettleRow(c) \/ Settled(c) \/ CommitSettle(c)
  \/ AbortDeadlocked(c)

Next == \E c \in Calls : Begin(c) \/ Step(c)

\* A call that was sent goes on whenever it is not waiting for a lock.
Fairness == \A c \in Calls : WF_vars(Step(c))

Spec == Init /\ [][Next]_vars
FairSpec == Spec /\ Fairness

-----------------------------------------------------------------------------
(* The one-step transactions of Inventory *)

Batches(o, status) ==
  {c \in Calls : Kind(c) = "reserve" /\ Order(c) = o
                   /\ \E r \in Rows : r[1] = c /\ row[r] = status}

Asked(o) == {Items[o][i].product : i \in DOMAIN Items[o]}

\* The positions of product p, and the quantities of all positions.
ItemsFor(o, p) == {i \in DOMAIN Items[o] : Items[o][i].product = p}
Quantities(o) == [i \in DOMAIN Items[o] |-> Items[o][i].quantity]

Stock == INSTANCE Inventory WITH
  Demand     <- [o \in Orders |-> [p \in Asked(o) |-> SumFunctionOnSet(Quantities(o), ItemsFor(o, p))]],
  MaxBatches <- Cardinality(Calls),
  listed     <- Listed,
  active     <- Listed,
  rows       <- [o \in Orders |-> [s \in {"RESERVED", "RELEASED", "DECREMENTED"} |->
                  Cardinality(Batches(o, s))]]

-----------------------------------------------------------------------------
(* Properties *)

Statements == {"idle", "item", "select", "settle", "update", "done"}

\* Every variable keeps its type.
TypeOK ==
  /\ available \in [Products -> Int]
  /\ reserved \in [Products -> Int]
  /\ row \in [Rows -> {"none", "RESERVED", "RELEASED", "DECREMENTED"}]
  /\ at \in [Calls -> Statements]
  /\ item \in [Calls -> Nat]
  /\ change \in [Calls -> [Products -> Nat]]
  /\ todo \in [Calls -> SUBSET Rows]
  /\ found \in [Calls -> SUBSET Rows]
  /\ moved \in [Calls -> SUBSET Rows]
  /\ owner \in [Products -> Calls \cup {NoCall}]
  /\ answer \in [Calls -> {"none", "OK", "NotFound", "FailedPrecondition", "Internal"}]

\* The row locks make every transaction one step: under any interleaving of
\* statements the tables move as in Inventory.
TransactionsAreAtomic == Stock!Spec

\* A reservation is settled once: however many Release and Decrement calls of
\* an order overlap, no more of them answer OK than reservations did.
Answered(o, kinds) == {c \in Calls : Order(c) = o /\ Kind(c) \in kinds /\ answer[c] = "OK"}

SettledOnce ==
  \A o \in Orders : Cardinality(Answered(o, {"release", "decrement"}))
                      <= Cardinality(Answered(o, {"reserve"}))

\* Every call is answered, although calls lock rows in different orders.
EveryCallEnds == \A c \in Calls : at[c] # "idle" ~> at[c] = "done"

-----------------------------------------------------------------------------
(* Promises of documents and comments that the code does not keep *)

\* stock_reserved tracks what is reserved, the quantities of the RESERVED rows,
\* also when a retried ReserveStock is executed while its order is settled.
ReservedTracksRows == Stock!StockLedger
=============================================================================
