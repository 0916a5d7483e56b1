----------------------------- MODULE MCRedisLock -----------------------------
(* Small instances of RedisLock. *)
EXTENDS RedisLock, TLC

CONSTANTS c1, c2, c3
=============================================================================
