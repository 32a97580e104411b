--------------------------- MODULE MCGenericCache ---------------------------
(* Small instances of GenericCache for TLC. *)
EXTENDS GenericCache

CONSTANTS k1, c1

OneKey == {k1}
OneClient == {c1}

(* A secret that is too short, with a default of the RedisStore's only;    *)
(* one that is not, with no default, as in the tests, or with the cache's. *)
ThreeConfigs ==
  {[secret |-> 1, def |-> 0, store |-> 2], [secret |-> 2, def |-> 0, store |-> 0],
   [secret |-> 2, def |-> 2, store |-> 0]}

(* No expiration, the default, half a second, and 5 seconds, which an      *)
(* int32 of 2 bits makes one of.                                           *)
AllExps == {FOREVER, 0, 1, 10}
=============================================================================
