------------------------------- MODULE Checkout -------------------------------
(***************************************************************************)
(* What the order and inventory services promise together, with no service,*)
(* call or table in sight: an order takes all its goods from the free stock*)
(* or none, and goods taken are sold, or come back to the free stock, once.*)
(***************************************************************************)
EXTENDS Integers

CONSTANTS
  Products, Orders,
  Need,    \* Need[o][p]: what order o takes of product p
  Supply   \* Supply[p]: the stock there is at first

VARIABLES
  phase,   \* an order is "new", "held", "sold" or "returned"
  free     \* the stock nobody holds and nobody bought

vars == <<phase, free>>

Init ==
  /\ phase = [o \in Orders |-> "new"]
  /\ free = Supply

Take(o) ==
  /\ phase[o] = "new"
  /\ \A p \in Products : Need[o][p] <= free[p]
  /\ phase' = [phase EXCEPT ![o] = "held"]
  /\ free' = [p \in Products |-> free[p] - Need[o][p]]

Sell(o) ==
  /\ phase[o] = "held"
  /\ phase' = [phase EXCEPT ![o] = "sold"]
  /\ UNCHANGED free

Return(o) ==
  /\ phase[o] = "held"
  /\ phase' = [phase EXCEPT ![o] = "returned"]
  /\ free' = [p \in Products |-> free[p] + Need[o][p]]

Next == \E o \in Orders : Take(o) \/ Sell(o) \/ Return(o)

\* Goods that are held do not stay held.
Fairness == \A o \in Orders : WF_vars(Sell(o) \/ Return(o))

SafeSpec == Init /\ [][Next]_vars
Spec == SafeSpec /\ Fairness
=============================================================================
