----------------------------- MODULE MCRedisLock -----------------------------
(* Four clients of one lock.                                                *)
EXTENDS RedisLock

CONSTANTS c1, c2, c3, c4
=============================================================================
