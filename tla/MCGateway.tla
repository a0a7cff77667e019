------------------------------ MODULE MCGateway ------------------------------
(* Two requests of every kind.                                              *)
EXTENDS Gateway, TLC

CONSTANTS r1, r2, k1, none

MCKey == r1 :> k1 @@ r2 :> k1

Mix(a, b) == r1 :> a @@ r2 :> b

\* An order and its duplicate, then a route of every other kind: OrderList differs
\* from ProductSearch, and ProductGet from OrderGet, in the service alone.
MCMixes ==
  {Mix("OrderCreate", "OrderCreate"), Mix("ProductCreate", "OrderCancel"),
   Mix("ProductUpdate", "OrderGet"), Mix("ProductSearch", "ProductList")}
=============================================================================
