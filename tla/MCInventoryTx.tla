---------------------------- MODULE MCInventoryTx ----------------------------
(* oa and ob name the same two products in opposite orders, so that their   *)
(* reservations may deadlock; p2 has stock for two of the three.  oa is     *)
(* reserved and settled twice.  oc names a product that does not exist.     *)
EXTENDS InventoryTx, TLC

CONSTANTS p1, p2, ghost, oa, ob, oc, none

AllProducts == {p1, p2, ghost}
MCListed == {p1, p2}
MCOrders == {oa, ob, oc}
MCStock == p1 :> 4 @@ p2 :> 4 @@ ghost :> 0

Item(p, n) == [product |-> p, quantity |-> n]
MCItems ==
  oa :> <<Item(p1, 1), Item(p2, 2)>> @@
  ob :> <<Item(p2, 2), Item(p1, 2)>> @@
  oc :> <<Item(p2, 1), Item(ghost, 1)>>

Call(k, o) == [kind |-> k, order |-> o]
SixRequests ==
  "reserveA" :> Call("reserve", oa) @@ "againA" :> Call("reserve", oa) @@
  "releaseA" :> Call("release", oa) @@ "decrementA" :> Call("decrement", oa) @@
  "reserveB" :> Call("reserve", ob) @@ "reserveC" :> Call("reserve", oc)

SixCalls == DOMAIN SixRequests
=============================================================================
