------------------------------ MODULE MCBreaker ------------------------------
(* Instances of Breaker with the settings of the code: three retries, trip  *)
(* at five failures, three probes.                                          *)
EXTENDS Breaker

CONSTANTS c1, c2
=============================================================================
