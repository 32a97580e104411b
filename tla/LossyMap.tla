------------------------------ MODULE LossyMap ------------------------------
(***************************************************************************)
(* What InMemoryStore relies on when it calls its lru: a map from keys to  *)
(* values that never invents or mixes up a value, but may forget other     *)
(* keys whenever a key is added or looked up.  A lookup never loses the    *)
(* key looked up; Remove and Purge drop exactly what they name.  ARC is    *)
(* shown to implement this, and InMemoryStore is built on it.              *)
(***************************************************************************)
CONSTANTS Keys, Values, None

VARIABLES
  store,    \* the map: store[k] is the value of k, or None
  last      \* the last call: its name, key, and value given or returned

vars == <<store, last>>

(* The maps left of m when any keys outside S are forgotten. *)
Keeps(m, S) ==
  {[k \in Keys |-> IF k \in F THEN None ELSE m[k]] : F \in SUBSET (Keys \ S)}

Init ==
  /\ store = [k \in Keys |-> None]
  /\ last = <<"New", None, None>>

Get(k) ==
  /\ last' = <<"Get", k, store[k]>>
  /\ store' \in Keeps(store, {k})

Add(k, v) ==
  /\ last' = <<"Add", k, v>>
  /\ store' \in Keeps([store EXCEPT ![k] = v], {k})

Remove(k) ==
  /\ last' = <<"Remove", k, None>>
  /\ store' = [store EXCEPT ![k] = None]

Purge ==
  /\ last' = <<"Purge", None, None>>
  /\ store' = [k \in Keys |-> None]

Next ==
  \/ \E k \in Keys : Get(k) \/ Remove(k) \/ \E v \in Values : Add(k, v)
  \/ Purge

Spec == Init /\ [][Next]_vars
=============================================================================
