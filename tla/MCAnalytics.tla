----------------------------- MODULE MCAnalytics -----------------------------
(* Orders of two days; the averages are whole numbers.                      *)
EXTENDS Analytics

CONSTANTS e1, e2, e3, e4

MCCents == [e \in Events |-> 2]
MCDay == [e \in Events |-> IF e = e1 THEN 1 ELSE 2]
=============================================================================
