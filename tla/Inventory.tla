------------------------------ MODULE Inventory ------------------------------
(***************************************************************************)
(* The stock tables of the inventory service and the three RPCs that move  *)
(* stock: ReserveStock, ReleaseStock and DecrementStock, with the product  *)
(* RPCs that create a product and change its active flag.                  *)
(*                                                                         *)
(* Each RPC runs one PostgreSQL transaction.  ReserveStock locks the       *)
(* product rows it reads, Release and Decrement lock the reservation rows  *)
(* they move, so a transaction is one step here.                           *)
(*                                                                         *)
(* An order reserves the same items every time, and Release and Decrement  *)
(* move all RESERVED rows of an order together.  The rows of one           *)
(* ReserveStock call therefore travel as a batch, and rows[o][s] counts    *)
(* the batches of order o that are in status s.                            *)
(***************************************************************************)
EXTENDS Integers, Functions

CONSTANTS
  Products,      \* the products the catalogue may hold
  Orders,        \* the orders that may ask for stock
  Demand,        \* Demand[o][id]: total quantity order o asks of product id
  InitialStock,  \* the initial_stock a product is created with
  MaxBatches     \* bound: reservation batches one order may make

StockConstants ==
  /\ InitialStock \in [Products -> Nat]
  /\ \A o \in Orders : \A id \in DOMAIN Demand[o] : Demand[o][id] \in Nat \ {0}
  /\ MaxBatches \in Nat

ASSUME StockAssumption == StockConstants

VARIABLES
  listed,     \* the rows of table products
  active,     \* ... those with active = TRUE
  available,  \* column stock_available
  reserved,   \* column stock_reserved
  rows        \* table stock_reservations, see above

vars == <<listed, active, available, reserved, rows>>

RowStatus == {"RESERVED", "RELEASED", "DECREMENTED"}

\* The gRPC status codes a stock RPC answers with.
Codes == {"OK", "NotFound", "FailedPrecondition"}

Init ==
  /\ listed \in SUBSET Products
  /\ active = listed
  /\ available = [p \in Products |-> IF p \in listed THEN InitialStock[p] ELSE 0]
  /\ reserved = [p \in Products |-> 0]
  /\ rows = [o \in Orders |-> [s \in RowStatus |-> 0]]

-----------------------------------------------------------------------------
(* The catalogue *)

CreateProduct(p) ==
  /\ p \notin listed
  /\ listed' = listed \cup {p}
  /\ active' = active \cup {p}
  /\ available' = [available EXCEPT ![p] = InitialStock[p]]
  /\ UNCHANGED <<reserved, rows>>

\* Mutant of UpdateProduct: does not look whether the product exists.
UpsertProduct(p) ==
  /\ active' \in {active \cup {p}, active \ {p}}
  /\ UNCHANGED <<listed, available, reserved, rows>>

\* UpdateProduct never writes the stock columns, only (here) the active flag.
UpdateProduct(p) ==
  /\ p \in listed
  /\ active' \in {active \cup {p}, active \ {p}}
  /\ UNCHANGED <<listed, available, reserved, rows>>

-----------------------------------------------------------------------------
(* Reserving *)

Quantity(o, p) == IF p \in DOMAIN Demand[o] THEN Demand[o][p] ELSE 0

\* Mutant of Free: the check forgets what other orders hold.
FreeOfAll(p) == available[p]

Free(p) == available[p] - reserved[p]

Enough(o) == \A p \in Products : Quantity(o, p) <= Free(p)

\* A new batch of RESERVED rows for o.
Reserve(o) ==
  /\ rows[o]["RESERVED"] + rows[o]["RELEASED"] + rows[o]["DECREMENTED"] < MaxBatches
  /\ reserved' = [p \in Products |-> reserved[p] + Quantity(o, p)]
  /\ rows' = [rows EXCEPT ![o]["RESERVED"] = @ + 1]

\* The items are visited in request order, so an order with an unknown
\* product and a short one may get either error; any error rolls back all.
ReserveStock(o, code) ==
  /\ \/ /\ code = "OK"
        /\ DOMAIN Demand[o] \subseteq listed
        /\ Enough(o)
        /\ Reserve(o)
     \/ /\ code = "NotFound"
        /\ ~ (DOMAIN Demand[o] \subseteq listed)
        /\ UNCHANGED <<reserved, rows>>
     \/ /\ code = "FailedPrecondition"
        /\ \E p \in listed : Free(p) < Quantity(o, p)
        /\ UNCHANGED <<reserved, rows>>
  /\ UNCHANGED <<listed, active, available>>

-----------------------------------------------------------------------------
(* Settling: Release and Decrement move every RESERVED batch of an order *)

\* The quantity of p in the RESERVED rows of o.
Held(o, p) == rows[o]["RESERVED"] * Quantity(o, p)

\* Mutants of MoveRows: the UPDATE without its filter on status = RESERVED,
\* and the UPDATE left out.
MoveRowsUnfiltered(o, status) ==
  rows' = [rows EXCEPT ![o] =
             [s \in RowStatus |->
                IF s = status THEN @["RESERVED"] + @["RELEASED"] + @["DECREMENTED"] ELSE 0]]

MoveRowsForgotten(o, status) == UNCHANGED rows

MoveRows(o, status) ==
  rows' = [rows EXCEPT ![o]["RESERVED"] = 0,
                       ![o][status] = @ + rows[o]["RESERVED"]]

\* The transaction finds no RESERVED row and rolls back.
NothingReserved(o, code) ==
  /\ code = "NotFound"
  /\ rows[o]["RESERVED"] = 0
  /\ UNCHANGED <<available, reserved, rows>>

\* Mutant of ReleaseStock: the rows are released, the product keeps the count.
ReleaseRowsOnly(o, code) ==
  /\ \/ /\ code = "OK"
        /\ rows[o]["RESERVED"] > 0
        /\ MoveRows(o, "RELEASED")
        /\ UNCHANGED <<available, reserved>>
     \/ NothingReserved(o, code)
  /\ UNCHANGED <<listed, active>>

ReleaseStock(o, code) ==
  /\ \/ /\ code = "OK"
        /\ rows[o]["RESERVED"] > 0
        /\ reserved' = [p \in Products |-> reserved[p] - Held(o, p)]
        /\ \A p \in Products : reserved'[p] >= 0         \* CHECK of the column
        /\ MoveRows(o, "RELEASED")
        /\ UNCHANGED available
     \/ NothingReserved(o, code)
  /\ UNCHANGED <<listed, active>>

\* Mutant of DecrementStock: stock_reserved is not reduced.
DecrementAvailableOnly(o, code) ==
  /\ \/ /\ code = "OK"
        /\ rows[o]["RESERVED"] > 0
        /\ available' = [p \in Products |-> available[p] - Held(o, p)]
        /\ \A p \in Products : available'[p] >= 0
        /\ MoveRows(o, "DECREMENTED")
        /\ UNCHANGED reserved
     \/ NothingReserved(o, code)
  /\ UNCHANGED <<listed, active>>

DecrementStock(o, code) ==
  /\ \/ /\ code = "OK"
        /\ rows[o]["RESERVED"] > 0
        /\ available' = [p \in Products |-> available[p] - Held(o, p)]
        /\ reserved' = [p \in Products |-> reserved[p] - Held(o, p)]
        /\ \A p \in Products : available'[p] >= 0 /\ reserved'[p] >= 0
        /\ MoveRows(o, "DECREMENTED")
     \/ NothingReserved(o, code)
  /\ UNCHANGED <<listed, active>>

-----------------------------------------------------------------------------

Next ==
  \/ \E p \in Products : CreateProduct(p) \/ UpdateProduct(p)
  \/ \E o \in Orders, code \in Codes :
        \/ ReserveStock(o, code)
        \/ ReleaseStock(o, code)
        \/ DecrementStock(o, code)

Spec == Init /\ [][Next]_vars

-----------------------------------------------------------------------------
(* Properties *)

\* Every variable keeps its type; the stock columns are checked by NoOversell.
TypeOK ==
  /\ listed \subseteq Products
  /\ active \subseteq listed
  /\ available \in [Products -> Int]
  /\ reserved \in [Products -> Int]
  /\ rows \in [Orders -> [RowStatus -> Nat]]

\* Stock is never promised twice: whatever the interleaving of reservations,
\* releases and decrements, a product never has more reserved than it has.
NoOversell == \A p \in Products : 0 <= reserved[p] /\ reserved[p] <= available[p]

\* The quantity of p in the DECREMENTED rows of o.
Bought(o, p) == rows[o]["DECREMENTED"] * Quantity(o, p)

\* The two tables agree: stock_reserved is what the RESERVED rows hold, and
\* what is left of the initial stock is what the DECREMENTED rows did not take.
StockLedger ==
  \A p \in listed :
     /\ reserved[p] = SumFunction([o \in Orders |-> Held(o, p)])
     /\ available[p] = InitialStock[p] - SumFunction([o \in Orders |-> Bought(o, p)])

\* A RESERVED row can always be settled: the CHECK constraints of the stock
\* columns never reject a Release or a Decrement.
Settleable ==
  \A o \in Orders : \A p \in Products : Held(o, p) <= reserved[p] /\ Held(o, p) <= available[p]
=============================================================================
