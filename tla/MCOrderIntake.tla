---------------------------- MODULE MCOrderIntake ----------------------------
(* A request and its duplicate.                                             *)
EXTENDS OrderIntake, TLC

CONSTANTS r1, r2, k1, none, p1

OnePair == r1 :> k1 @@ r2 :> k1
MCItems == [r \in Requests |-> {p1}]
=============================================================================
