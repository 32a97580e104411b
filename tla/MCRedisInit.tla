---------------------------- MODULE MCRedisInit -----------------------------
(* Small instances of RedisInit for TLC. *)
EXTENDS RedisInit

CONSTANTS c1, c2, s1, s2

TwoCallers == {c1, c2}
TwoServers == {s1, s2}
=============================================================================
