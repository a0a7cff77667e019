----------------------------- MODULE MCInventory -----------------------------
(* Two products and three orders: o1 and o2 compete for p1, o2 takes two    *)
(* products, o3 also asks for a product that is never created.              *)
EXTENDS Inventory, TLC

CONSTANTS p1, p2, ghost, o1, o2, o3

MCProducts == {p1, p2}
MCOrders == {o1, o2, o3}
MCDemand ==
  o1 :> (p1 :> 2) @@ o2 :> (p1 :> 1 @@ p2 :> 2) @@ o3 :> (p2 :> 1 @@ ghost :> 1)
MCInitialStock == p1 :> 5 @@ p2 :> 4
=============================================================================
