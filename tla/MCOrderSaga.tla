----------------------------- MODULE MCOrderSaga -----------------------------
(* One product with two units and two orders that cannot both have it: oa   *)
(* asks for one unit, ob for two.                                           *)
EXTENDS OrderSaga, TLC

CONSTANTS p1, oa, ob, r1, r2

MCProducts == {p1}
MCOrders == {oa, ob}
MCDemand == oa :> (p1 :> 1) @@ ob :> (p1 :> 2)
MCInitialStock == p1 :> 2

OneOrder == {oa}
OneReplica == {r1}
TwoReplicas == {r1, r2}

AnyPayment == {"ok", "error"}
PaymentStub == {"ok"}

NoFaults == [f \in Faults |-> 0]
TwoCancels == [NoFaults EXCEPT !["cancel"] = 2]
Recovery == [NoFaults EXCEPT !["crash"] = 2, !["db"] = 1, !["timeout"] = 1]
OneLostCall == [NoFaults EXCEPT !["call"] = 1]
LostMessages == [NoFaults EXCEPT !["call"] = 1, !["db"] = 1]
=============================================================================
