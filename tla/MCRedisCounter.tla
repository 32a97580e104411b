--------------------------- MODULE MCRedisCounter ---------------------------
(* Small instances of RedisCounter for TLC. *)
EXTENDS RedisCounter, TLC

CONSTANTS k1, c1, c2, c3

OneKey == {k1}
OneClient == {c1}
TwoClients == {c1, c2}
ThreeClients == {c1, c2, c3}

(* Sound where all clients call the same methods. *)
ClientSymmetry == Permutations(Clients)

EveryMethod == [c \in Clients |-> Methods]
OnlyDecrement == [c \in Clients |-> {"Set", "Decrement"}]
OnlyCheckSet == [c \in Clients |-> {"Set", "IncrementCheckSet"}]
=============================================================================
