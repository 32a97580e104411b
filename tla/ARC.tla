-------------------------------- MODULE ARC ---------------------------------
(***************************************************************************)
(* The adaptive replacement cache InMemoryStore keeps its entries in       *)
(* (hashicorp/golang-lru, arc.go), with the four simplelru lists it is     *)
(* made of.  Every method holds the cache's mutex from beginning to end,   *)
(* so each is one action.                                                  *)
(*                                                                         *)
(* A simplelru list is the sequence of its keys, oldest first; the map     *)
(* from keys to list elements that simplelru keeps beside the list is not  *)
(* modelled, the list has no duplicates.  The values of the entries of t1  *)
(* and t2 are in val; ghost entries have no value.                         *)
(***************************************************************************)
EXTENDS Integers, SequencesExt

CONSTANTS
  Keys,
  Values,
  None,     \* no value
  Size      \* the argument of NewARC, and the limit of each of the lists

ASSUME SizeAssumption == Size \in Nat \ {0}   \* NewARC fails on size <= 0
ASSUME NoneAssumption == None \notin Values

VARIABLES
  t1,       \* keys seen once, recently
  t2,       \* keys seen at least twice
  b1,       \* keys evicted from t1
  b2,       \* keys evicted from t2
  p,        \* the share of the cache that t1 should get
  val,      \* the value of each cached key
  last      \* the last call: its name, key, and value given or returned

vars == <<t1, t2, b1, b2, p, val, last>>

-----------------------------------------------------------------------------
(* simplelru *)

LruAdd(l, k) ==
  LET pushed == Append(RemoveFirst(l, k), k)
  IN  IF Len(pushed) > Size THEN Tail(pushed) ELSE pushed

LruRemoveOldest(l) == IF l = <<>> THEN l ELSE Tail(l)

-----------------------------------------------------------------------------
Lists == [t1 |-> t1, t2 |-> t2, b1 |-> b1, b2 |-> b2]

Cached == ToSet(t1) \cup ToSet(t2)

(* The lists after replace, with q the value of c.p at the call. *)
replace(q, b2ContainsKey) ==
  IF Len(t1) > 0 /\ (Len(t1) > q \/ (Len(t1) = q /\ b2ContainsKey))
  THEN [t1 |-> Tail(t1), t2 |-> t2, b1 |-> LruAdd(b1, Head(t1)), b2 |-> b2]
  ELSE IF t2 # <<>>
  THEN [t1 |-> t1, t2 |-> Tail(t2), b1 |-> b1, b2 |-> LruAdd(b2, Head(t2))]
  ELSE Lists

(* mutant: only t1 is counted *)
MakeRoomT1(q, b2ContainsKey) ==
  IF Len(t1) >= Size THEN replace(q, b2ContainsKey) ELSE Lists

MakeRoom(q, b2ContainsKey) ==
  IF Len(t1) + Len(t2) >= Size THEN replace(q, b2ContainsKey) ELSE Lists

(* An entry that leaves t1 and t2 takes its value with it. *)
SetValues(v) ==
  val' = [k \in Keys |-> IF k \in Cached' THEN v[k] ELSE None]

Init ==
  /\ t1 = <<>> /\ t2 = <<>> /\ b1 = <<>> /\ b2 = <<>>
  /\ p = 0
  /\ val = [k \in Keys |-> None]
  /\ last = <<"New", None, None>>

-----------------------------------------------------------------------------
(* Get *)

(* mutant: the promoted key stays in t1 *)
GetFromT1Copies(k) ==
  /\ k \in ToSet(t1)
  /\ t2' = LruAdd(t2, k)
  /\ last' = <<"Get", k, val[k]>>
  /\ UNCHANGED <<t1, b1, b2, p>>
  /\ SetValues(val)

(* mutant: the promoted key does not reach t2 *)
GetFromT1Drops(k) ==
  /\ k \in ToSet(t1)
  /\ t1' = RemoveFirst(t1, k)
  /\ last' = <<"Get", k, val[k]>>
  /\ UNCHANGED <<t2, b1, b2, p>>
  /\ SetValues(val)

GetFromT1(k) ==
  /\ k \in ToSet(t1)
  /\ t1' = RemoveFirst(t1, k)
  /\ t2' = LruAdd(t2, k)
  /\ last' = <<"Get", k, val[k]>>
  /\ SetValues(val)
  /\ UNCHANGED <<b1, b2, p>>

GetFromT2(k) ==
  /\ k \in ToSet(t2) \ ToSet(t1)
  /\ t2' = Append(RemoveFirst(t2, k), k)
  /\ last' = <<"Get", k, val[k]>>
  /\ UNCHANGED <<t1, b1, b2, p, val>>

GetMiss(k) ==
  /\ k \notin Cached
  /\ last' = <<"Get", k, None>>
  /\ UNCHANGED <<t1, t2, b1, b2, p, val>>

Get(k) == GetFromT1(k) \/ GetFromT2(k) \/ GetMiss(k)

-----------------------------------------------------------------------------
(* Add *)

(* mutant: a cached key keeps its old value *)
AddCachedStale(k, v) ==
  /\ k \in Cached
  /\ t1' = RemoveFirst(t1, k)
  /\ t2' = LruAdd(t2, k)
  /\ SetValues(val)
  /\ last' = <<"Add", k, v>>
  /\ UNCHANGED <<b1, b2, p>>

AddCached(k, v) ==
  /\ k \in Cached
  /\ t1' = RemoveFirst(t1, k)
  /\ t2' = LruAdd(t2, k)
  /\ SetValues([val EXCEPT ![k] = v])
  /\ last' = <<"Add", k, v>>
  /\ UNCHANGED <<b1, b2, p>>

(* How far p moves: at least 1, more when the other ghost list is longer. *)
Delta(hit, other) ==
  IF Len(other) > Len(hit) THEN Len(other) \div Len(hit) ELSE 1

(* mutant: p is not capped *)
GrowPUncapped == p + Delta(b1, b2)

GrowP == IF p + Delta(b1, b2) >= Size THEN Size ELSE p + Delta(b1, b2)

ShrinkP == IF Delta(b2, b1) >= p THEN 0 ELSE p - Delta(b2, b1)

AddGhostB1(k, v) ==
  LET r == MakeRoom(GrowP, FALSE)
  IN  /\ k \in ToSet(b1) \ Cached
      /\ p' = GrowP
      /\ t1' = r.t1
      /\ b1' = RemoveFirst(r.b1, k)
      /\ b2' = r.b2
      /\ t2' = LruAdd(r.t2, k)
      /\ SetValues([val EXCEPT ![k] = v])
      /\ last' = <<"Add", k, v>>

AddGhostB2(k, v) ==
  LET r == MakeRoom(ShrinkP, TRUE)
  IN  /\ k \in ToSet(b2) \ (Cached \cup ToSet(b1))
      /\ p' = ShrinkP
      /\ t1' = r.t1
      /\ b1' = r.b1
      /\ b2' = RemoveFirst(r.b2, k)
      /\ t2' = LruAdd(r.t2, k)
      /\ SetValues([val EXCEPT ![k] = v])
      /\ last' = <<"Add", k, v>>

AddNew(k, v) ==
  LET r == MakeRoom(p, FALSE)
  IN  /\ k \notin Cached \cup ToSet(b1) \cup ToSet(b2)
      /\ b1' = IF Len(r.b1) > Size - p THEN LruRemoveOldest(r.b1) ELSE r.b1
      /\ b2' = IF Len(r.b2) > p THEN LruRemoveOldest(r.b2) ELSE r.b2
      /\ t1' = LruAdd(r.t1, k)
      /\ t2' = r.t2
      /\ SetValues([val EXCEPT ![k] = v])
      /\ last' = <<"Add", k, v>>
      /\ UNCHANGED p

Add(k, v) ==
  AddCached(k, v) \/ AddGhostB1(k, v) \/ AddGhostB2(k, v) \/ AddNew(k, v)

-----------------------------------------------------------------------------
(* Remove drops k from the first list that has it, ghosts included. *)
RemoveKey(k) ==
  LET Rest(l, earlier) ==
        IF \E m \in earlier : k \in ToSet(m) THEN l ELSE RemoveFirst(l, k)
  IN  /\ t1' = Rest(t1, {})
      /\ t2' = Rest(t2, {t1})
      /\ b1' = Rest(b1, {t1, t2})
      /\ b2' = Rest(b2, {t1, t2, b1})
      /\ SetValues(val)
      /\ last' = <<"Remove", k, None>>
      /\ UNCHANGED p

(* Purge empties the lists and keeps p. *)
Purge ==
  /\ t1' = <<>> /\ t2' = <<>> /\ b1' = <<>> /\ b2' = <<>>
  /\ SetValues(val)
  /\ last' = <<"Purge", None, None>>
  /\ UNCHANGED p

Next ==
  \/ \E k \in Keys : Get(k) \/ RemoveKey(k) \/ \E v \in Values : Add(k, v)
  \/ Purge

Spec == Init /\ [][Next]_vars

-----------------------------------------------------------------------------
(* What the methods rely on and promise. *)

Calls ==
  {"New", "Get", "Add", "Remove", "Purge"} \X (Keys \cup {None}) \X (Values \cup {None})

TypeOK ==
  /\ {t1, t2, b1, b2} \subseteq Seq(Keys)
  /\ p \in 0..Size
  /\ val \in [Keys -> Values \cup {None}]
  /\ last \in Calls

(* Between two calls a key is in at most one of the four lists, and once:  *)
(* Add and Remove stop at the first list that has the key, so a second     *)
(* copy would outlive a Remove, or an Add of a newer value.                *)
OneHome ==
  /\ \A l \in {t1, t2, b1, b2} : IsInjective(l)
  /\ ToSet(t1) \cap ToSet(t2) = {}
  /\ Cached \cap (ToSet(b1) \cup ToSet(b2)) = {}
  /\ ToSet(b1) \cap ToSet(b2) = {}

(* The cache exceeds its size by one entry at most: replace evicts nothing *)
(* when t1 fits in p and t2 is empty, and an Add that hits a ghost then    *)
(* grows t2.                                                               *)
AtMostOneOver ==
  /\ Len(t1) + Len(t2) <= Size + 1
  /\ Len(b1) <= Size
  /\ Len(b2) <= Size

(* While the cache is within its size, looking a key up evicts nothing.    *)
GetKeepsEntries ==
  [][\A k \in Keys : Get(k) /\ Len(t1) + Len(t2) <= Size => Cached' = Cached]_vars

(* ARC implements the map that InMemoryStore relies on. *)
Abstract == INSTANCE LossyMap WITH store <- val

(* Every call of ARC is a call of the lossy map: Get returns the value     *)
(* last added for the key, and only other keys may be forgotten.           *)
ImplementsLossyMap == Abstract!Spec
=============================================================================
