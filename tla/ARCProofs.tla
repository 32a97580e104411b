----------------------------- MODULE ARCProofs ------------------------------
(***************************************************************************)
(* Proofs about ARC, for every set of keys and values and every size.      *)
(***************************************************************************)
EXTENDS ARC, TLAPS, SequenceTheorems

(* A well-formed simplelru list. *)
IsLru(l) ==
  /\ l \in Seq(Keys)
  /\ IsInjective(l)
  /\ Len(l) <= Size

(* The inductive invariant: besides what the properties say, t1 and t2 are *)
(* each within Size (a failed replace cannot then add up), and a key that  *)
(* is not cached has no value.                                             *)
IndInv ==
  /\ TypeOK
  /\ OneHome
  /\ AtMostOneOver
  /\ Len(t1) <= Size /\ Len(t2) <= Size
  /\ \A k \in Keys \ Cached : val[k] = None

-----------------------------------------------------------------------------
(* Lists *)

(* Taking a key out of a list leaves the other keys, without duplicates.   *)
LEMMA RemoveAtFacts ==
  ASSUME NEW l \in Seq(Keys), IsInjective(l), NEW i \in 1..Len(l)
  PROVE  LET r == RemoveAt(l, i)
         IN  /\ r \in Seq(Keys)
             /\ IsInjective(r)
             /\ ToSet(r) = ToSet(l) \ {l[i]}
             /\ Len(r) = Len(l) - 1
<1> DEFINE r == RemoveAt(l, i)
<1>1. /\ r \in Seq(Keys)
      /\ Len(r) = Len(l) - 1
      /\ \A j \in 1..Len(r) : r[j] = IF j < i THEN l[j] ELSE l[j+1]
  <2> DEFINE f == SubSeq(l, 1, i-1)
             g == SubSeq(l, i+1, Len(l))
  <2>1. Len(l) \in Nat /\ \A j \in 1..Len(l) : l[j] \in Keys
    OBVIOUS
  <2>2. f \in Seq(Keys) /\ Len(f) = i-1 /\ \A j \in 1..i-1 : f[j] = l[j]
    BY <2>1
  <2>3. /\ g \in Seq(Keys)
        /\ Len(g) = Len(l)-i
        /\ \A j \in 1..Len(l)-i : g[j] = l[i+j]
    BY <2>1
  <2> HIDE DEF f, g
  <2>4. /\ f \o g \in Seq(Keys)
        /\ Len(f \o g) = Len(f) + Len(g)
        /\ \A j \in 1..Len(f)+Len(g) :
             (f \o g)[j] = IF j <= Len(f) THEN f[j] ELSE g[j - Len(f)]
    BY <2>2, <2>3, ConcatProperties
  <2>5. r = f \o g
    BY DEF RemoveAt, f, g
  <2> HIDE DEF r
  <2>6. r \in Seq(Keys) /\ Len(r) = Len(l) - 1
    BY <2>1, <2>2, <2>3, <2>4, <2>5
  <2>7. ASSUME NEW j \in 1..Len(r)
        PROVE  r[j] = IF j < i THEN l[j] ELSE l[j+1]
    <3>1. CASE j < i
      BY <2>1, <2>2, <2>4, <2>5, <2>6, <3>1
    <3>2. CASE j >= i
      <4>1. j - (i-1) \in 1..Len(l)-i /\ i + (j - (i-1)) = j + 1
        BY <2>1, <2>6, <3>2
      <4>2. j \in 1..Len(f)+Len(g) /\ ~(j <= Len(f)) /\ Len(f) = i-1
        BY <2>1, <2>2, <2>3, <2>6, <3>2
      <4>3. r[j] = g[j - (i-1)]
        BY <2>4, <2>5, <4>2
      <4> QED BY <2>3, <3>2, <4>1, <4>3
    <3> QED BY <2>1, <2>6, <3>1, <3>2
  <2> QED BY <2>6, <2>7
<1> HIDE DEF r
<1>2. IsInjective(r)
  <2>1. SUFFICES ASSUME NEW a \in 1..Len(r), NEW b \in 1..Len(r), r[a] = r[b]
                 PROVE  a = b
    BY <1>1 DEF IsInjective
  <2> DEFINE At(j) == IF j < i THEN j ELSE j+1
  <2>2. At(a) \in DOMAIN l /\ At(b) \in DOMAIN l
    BY <1>1
  <2>3. l[At(a)] = l[At(b)]
    BY <1>1, <2>1
  <2>4. At(a) = At(b)
    BY <2>2, <2>3 DEF IsInjective
  <2> QED BY <1>1, <2>4
<1>3. ASSUME NEW x \in ToSet(r) PROVE x \in ToSet(l) \ {l[i]}
  <2>1. PICK j \in 1..Len(r) : x = r[j]
    BY <1>1 DEF ToSet
  <2>2. PICK h \in 1..Len(l) : h # i /\ x = l[h]
    BY <1>1, <2>1
  <2> QED BY <2>2 DEF ToSet, IsInjective
<1>4. ASSUME NEW x \in ToSet(l) \ {l[i]} PROVE x \in ToSet(r)
  <2>1. PICK j \in 1..Len(l) : x = l[j]
    BY DEF ToSet
  <2>2. CASE j < i
    BY <1>1, <2>1, <2>2 DEF ToSet
  <2>3. CASE j > i
    <3>1. j - 1 \in 1..Len(r) /\ r[j-1] = x
      BY <1>1, <2>1, <2>3
    <3> QED BY <1>1, <3>1 DEF ToSet
  <2> QED BY <2>1, <2>2, <2>3
<1> QED BY <1>1, <1>2, <1>3, <1>4 DEF r

(* simplelru Remove: the list loses k and nothing else, and gets shorter   *)
(* if it had k.                                                            *)
LEMMA RemoveFirstFacts ==
  ASSUME NEW l \in Seq(Keys), IsInjective(l), NEW k
  PROVE  LET r == RemoveFirst(l, k)
         IN  /\ r \in Seq(Keys)
             /\ IsInjective(r)
             /\ ToSet(r) = ToSet(l) \ {k}
             /\ Len(r) = IF k \in ToSet(l) THEN Len(l) - 1 ELSE Len(l)
<1> DEFINE At == {j \in 1..Len(l) : l[j] = k}
<1>1. CASE k \in ToSet(l)
  <2>1. PICK i \in 1..Len(l) : l[i] = k
    BY <1>1 DEF ToSet
  <2>2. At = {i}
    BY <2>1 DEF IsInjective
  <2>3. Min({i}) = i
    BY DEF Min
  <2>4. SelectInSeq(l, LAMBDA v : v = k) = i
    BY <2>2, <2>3, Zenon DEF SelectInSeq
  <2>5. RemoveFirst(l, k) = RemoveAt(l, i)
    BY <2>1, <2>4, Zenon DEF RemoveFirst
  <2> QED BY <1>1, <2>1, <2>5, RemoveAtFacts
<1>2. CASE k \notin ToSet(l)
  <2>1. RemoveFirst(l, k) = l
    BY <1>2 DEF RemoveFirst, ToSet
  <2> QED BY <1>2, <2>1
<1> QED BY <1>1, <1>2

(* Adding a key that the list does not have. *)
LEMMA AppendFacts ==
  ASSUME NEW l \in Seq(Keys), IsInjective(l), NEW k \in Keys, k \notin ToSet(l)
  PROVE  /\ Append(l, k) \in Seq(Keys)
         /\ IsInjective(Append(l, k))
         /\ ToSet(Append(l, k)) = ToSet(l) \cup {k}
         /\ Len(Append(l, k)) = Len(l) + 1
<1> DEFINE r == Append(l, k)
<1>1. /\ r \in Seq(Keys)
      /\ Len(r) = Len(l) + 1
      /\ \A j \in 1..Len(l) : r[j] = l[j]
      /\ r[Len(l)+1] = k
  OBVIOUS
<1> HIDE DEF r
<1>2. \A j \in 1..Len(l) : l[j] # k
  BY DEF ToSet
<1>3. IsInjective(r)
  BY <1>1, <1>2 DEF IsInjective
<1>4. ToSet(r) = ToSet(l) \cup {k}
  BY <1>1 DEF ToSet
<1> QED BY <1>1, <1>3, <1>4 DEF r

(* Dropping the oldest key. *)
LEMMA TailFacts ==
  ASSUME NEW l \in Seq(Keys), IsInjective(l), l # <<>>
  PROVE  /\ Head(l) \in ToSet(l)
         /\ Tail(l) \in Seq(Keys)
         /\ IsInjective(Tail(l))
         /\ ToSet(Tail(l)) = ToSet(l) \ {Head(l)}
         /\ Len(Tail(l)) = Len(l) - 1
         /\ Len(l) > 0
<1> DEFINE r == Tail(l)
<1>1. /\ r \in Seq(Keys)
      /\ Len(l) \in Nat /\ Len(l) > 0
      /\ Len(r) = Len(l) - 1
      /\ \A j \in 1..Len(r) : r[j] = l[j+1]
      /\ Head(l) = l[1]
  BY HeadTailProperties, EmptySeq
<1> HIDE DEF r
<1>2. IsInjective(r)
  <2> SUFFICES ASSUME NEW a \in 1..Len(r), NEW b \in 1..Len(r), r[a] = r[b]
               PROVE  a = b
    BY <1>1 DEF IsInjective
  <2>1. a+1 \in DOMAIN l /\ b+1 \in DOMAIN l /\ l[a+1] = l[b+1]
    BY <1>1
  <2> QED BY <2>1 DEF IsInjective
<1>3. ASSUME NEW x \in ToSet(r) PROVE x \in ToSet(l) \ {Head(l)}
  <2>1. PICK j \in 1..Len(r) : x = r[j]
    BY <1>1 DEF ToSet
  <2>2. PICK h \in 1..Len(l) : h # 1 /\ x = l[h]
    BY <1>1, <2>1
  <2> QED BY <1>1, <2>2 DEF ToSet, IsInjective
<1>4. ASSUME NEW x \in ToSet(l) \ {Head(l)} PROVE x \in ToSet(r)
  <2>1. PICK j \in 1..Len(l) : x = l[j]
    BY DEF ToSet
  <2>2. j - 1 \in 1..Len(r) /\ r[j-1] = x
    BY <1>1, <2>1
  <2> QED BY <1>1, <2>2 DEF ToSet
<1> QED BY <1>1, <1>2, <1>3, <1>4 DEF r, ToSet

(* simplelru.Add keeps the list well formed, and the key just added. *)
LEMMA LruAddFacts ==
  ASSUME NEW l, IsLru(l), NEW k \in Keys
  PROVE  /\ IsLru(LruAdd(l, k))
         /\ k \in ToSet(LruAdd(l, k))
         /\ ToSet(LruAdd(l, k)) \subseteq ToSet(l) \cup {k}
         /\ Len(LruAdd(l, k)) <= Len(l) + 1
         /\ k \in ToSet(l) => Len(LruAdd(l, k)) = Len(l)
         /\ k \in ToSet(l) \/ Len(l) < Size
              => ToSet(LruAdd(l, k)) = ToSet(l) \cup {k}
<1> DEFINE f == RemoveFirst(l, k)
           r == Append(f, k)
<1>1. /\ f \in Seq(Keys) /\ IsInjective(f) /\ ToSet(f) = ToSet(l) \ {k}
      /\ Len(f) = IF k \in ToSet(l) THEN Len(l) - 1 ELSE Len(l)
  BY RemoveFirstFacts DEF IsLru
<1>2. /\ r \in Seq(Keys) /\ IsInjective(r) /\ ToSet(r) = ToSet(l) \cup {k}
      /\ Len(r) = Len(f) + 1
  BY <1>1, AppendFacts
<1>3. Len(l) \in Nat /\ Len(l) <= Size /\ Len(f) \in Nat
  BY <1>1 DEF IsLru
<1>4. LruAdd(l, k) = IF Len(r) > Size THEN Tail(r) ELSE r
  BY DEF LruAdd
<1>5. CASE Len(r) > Size
  <2>1. r # <<>> /\ Len(f) = Size /\ f # <<>> /\ k \notin ToSet(l)
    BY <1>1, <1>2, <1>3, <1>5, SizeAssumption
  <2>2. Head(r) = f[1] /\ f[1] \in ToSet(f)
    BY <1>1, <1>3, <2>1, SizeAssumption DEF ToSet
  <2> HIDE DEF r, f
  <2>3. /\ Tail(r) \in Seq(Keys) /\ IsInjective(Tail(r))
        /\ ToSet(Tail(r)) = ToSet(r) \ {Head(r)} /\ Len(Tail(r)) = Len(r) - 1
    BY <1>2, <2>1, TailFacts
  <2> QED
    BY <1>1, <1>2, <1>3, <1>4, <1>5, <2>1, <2>2, <2>3, SizeAssumption DEF IsLru
<1>6. CASE ~(Len(r) > Size)
  <2> HIDE DEF r, f
  <2> QED BY <1>1, <1>2, <1>3, <1>4, <1>6, SizeAssumption DEF IsLru
<1> QED BY <1>5, <1>6

-----------------------------------------------------------------------------
(* The invariant *)

(* The part of IndInv that is about the lists, for any four lists. *)
GoodLists(x1, x2, y1, y2) ==
  /\ IsLru(x1) /\ IsLru(x2) /\ IsLru(y1) /\ IsLru(y2)
  /\ ToSet(x1) \cap ToSet(x2) = {}
  /\ ToSet(y1) \cap ToSet(y2) = {}
  /\ (ToSet(x1) \cup ToSet(x2)) \cap (ToSet(y1) \cup ToSet(y2)) = {}

(* The inductive invariant, said of the lists as values. *)
LEMMA IndInvLists ==
  IndInv <=> /\ GoodLists(t1, t2, b1, b2)
             /\ Len(t1) + Len(t2) <= Size + 1
             /\ p \in 0..Size
             /\ val \in [Keys -> Values \cup {None}]
             /\ last \in Calls
             /\ \A k \in Keys \ Cached : val[k] = None
BY DEF IndInv, GoodLists, IsLru, TypeOK, OneHome, AtMostOneOver, Cached

(* Making room keeps the lists good, brings the cache within Size, adds no *)
(* cached key, and turns into ghosts only keys that were cached.           *)
RoomMade(x1, x2, y1, y2) ==
  /\ GoodLists(x1, x2, y1, y2)
  /\ Len(x1) + Len(x2) <= Size
  /\ ToSet(x1) \subseteq ToSet(t1)
  /\ ToSet(x2) \subseteq ToSet(t2)
  /\ ToSet(y1) \subseteq ToSet(b1) \cup Cached
  /\ ToSet(y2) \subseteq ToSet(b2) \cup Cached

(* Add's call of replace, or its absence, leaves good lists within Size.   *)
LEMMA MakeRoomFacts ==
  ASSUME IndInv, NEW q \in 0..Size, NEW inB2 \in BOOLEAN
  PROVE  LET r == MakeRoom(q, inB2) IN RoomMade(r.t1, r.t2, r.b1, r.b2)
<1> DEFINE r == MakeRoom(q, inB2)
<1>1. GoodLists(t1, t2, b1, b2) /\ Len(t1) + Len(t2) <= Size + 1
  BY IndInvLists
<1>2. /\ IsLru(t1) /\ IsLru(t2) /\ IsLru(b1) /\ IsLru(b2)
      /\ Len(t1) \in Nat /\ Len(t2) \in Nat
  BY <1>1 DEF GoodLists, IsLru
<1>3. ASSUME Len(t1) + Len(t2) < Size PROVE RoomMade(t1, t2, b1, b2)
  BY <1>1, <1>2, <1>3, SizeAssumption DEF Cached, RoomMade
<1>4. ASSUME t1 # <<>>
      PROVE  RoomMade(Tail(t1), t2, LruAdd(b1, Head(t1)), b2)
  <2>1. /\ Head(t1) \in ToSet(t1) /\ Head(t1) \in Keys /\ IsLru(Tail(t1))
        /\ ToSet(Tail(t1)) = ToSet(t1) \ {Head(t1)} /\ Len(Tail(t1)) = Len(t1) - 1
    BY <1>2, <1>4, TailFacts, SizeAssumption DEF IsLru
  <2>2. /\ IsLru(LruAdd(b1, Head(t1)))
        /\ ToSet(LruAdd(b1, Head(t1))) \subseteq ToSet(b1) \cup {Head(t1)}
    BY <1>2, <2>1, LruAddFacts
  <2>3. GoodLists(Tail(t1), t2, LruAdd(b1, Head(t1)), b2)
    BY <1>1, <2>1, <2>2 DEF GoodLists
  <2>4. Len(Tail(t1)) + Len(t2) <= Size
    BY <1>1, <1>2, <2>1, SizeAssumption
  <2> QED BY <2>1, <2>2, <2>3, <2>4 DEF Cached, RoomMade
<1>5. ASSUME t2 # <<>>
      PROVE  RoomMade(t1, Tail(t2), b1, LruAdd(b2, Head(t2)))
  <2>1. /\ Head(t2) \in ToSet(t2) /\ Head(t2) \in Keys /\ IsLru(Tail(t2))
        /\ ToSet(Tail(t2)) = ToSet(t2) \ {Head(t2)} /\ Len(Tail(t2)) = Len(t2) - 1
    BY <1>2, <1>5, TailFacts, SizeAssumption DEF IsLru
  <2>2. /\ IsLru(LruAdd(b2, Head(t2)))
        /\ ToSet(LruAdd(b2, Head(t2))) \subseteq ToSet(b2) \cup {Head(t2)}
    BY <1>2, <2>1, LruAddFacts
  <2>3. GoodLists(t1, Tail(t2), b1, LruAdd(b2, Head(t2)))
    BY <1>1, <2>1, <2>2 DEF GoodLists
  <2>4. Len(t1) + Len(Tail(t2)) <= Size
    BY <1>1, <1>2, <2>1, SizeAssumption
  <2> QED BY <2>1, <2>2, <2>3, <2>4 DEF Cached, RoomMade
<1>6. ASSUME t2 = <<>> PROVE RoomMade(t1, t2, b1, b2)
  <2>1. Len(t2) = 0 /\ Len(t1) <= Size
    BY <1>2, <1>6 DEF IsLru
  <2> QED BY <1>1, <1>2, <2>1, SizeAssumption DEF Cached, RoomMade
<1>7. \/ Len(t1) + Len(t2) < Size /\ r = Lists
      \/ /\ t1 # <<>>
         /\ r = [t1 |-> Tail(t1), t2 |-> t2, b1 |-> LruAdd(b1, Head(t1)), b2 |-> b2]
      \/ /\ t2 # <<>>
         /\ r = [t1 |-> t1, t2 |-> Tail(t2), b1 |-> b1, b2 |-> LruAdd(b2, Head(t2))]
      \/ t2 = <<>> /\ r = Lists
  BY <1>2, SizeAssumption DEF MakeRoom, replace
<1> HIDE DEF r
<1>8. RoomMade(r.t1, r.t2, r.b1, r.b2)
  <2>1. CASE Len(t1) + Len(t2) < Size /\ r = Lists
    BY <1>3, <2>1 DEF Lists
  <2>2. CASE /\ t1 # <<>>
             /\ r = [t1 |-> Tail(t1), t2 |-> t2, b1 |-> LruAdd(b1, Head(t1)), b2 |-> b2]
    BY <1>4, <2>2
  <2>3. CASE /\ t2 # <<>>
             /\ r = [t1 |-> t1, t2 |-> Tail(t2), b1 |-> b1, b2 |-> LruAdd(b2, Head(t2))]
    BY <1>5, <2>3
  <2>4. CASE t2 = <<>> /\ r = Lists
    BY <1>6, <2>4 DEF Lists
  <2> QED BY <1>7, <2>1, <2>2, <2>3, <2>4
<1> QED BY <1>8 DEF r

(* What is left to show of a step whose values are set by SetValues. *)
LEMMA ListsStep ==
  ASSUME NEW v \in [Keys -> Values \cup {None}], SetValues(v),
         p' \in 0..Size, last' \in Calls,
         GoodLists(t1', t2', b1', b2'), Len(t1') + Len(t2') <= Size + 1
  PROVE  IndInv'
<1>1. val' \in [Keys -> Values \cup {None}] /\ \A k \in Keys \ Cached' : val'[k] = None
  BY DEF SetValues
<1> QED
  BY <1>1 DEF IndInv, GoodLists, IsLru, TypeOK, OneHome, AtMostOneOver, Cached

(* Get preserves the invariant, whichever list has the key. *)
LEMMA GetInv ==
  ASSUME IndInv, NEW k \in Keys, Get(k)
  PROVE  IndInv'
<1>1. GoodLists(t1, t2, b1, b2) /\ Len(t1) + Len(t2) <= Size + 1
  BY IndInvLists
<1>2. IsLru(t1) /\ IsLru(t2) /\ Len(t1) \in Nat /\ Len(t2) \in Nat
  BY <1>1 DEF GoodLists, IsLru
<1>3. /\ p \in 0..Size /\ val \in [Keys -> Values \cup {None}]
      /\ last \in Calls
  BY IndInvLists
<1>4. CASE GetFromT1(k)
  <2>1. /\ IsLru(t1') /\ ToSet(t1') = ToSet(t1) \ {k} /\ Len(t1') = Len(t1) - 1
    BY <1>2, <1>4, RemoveFirstFacts, SizeAssumption DEF GetFromT1, IsLru
  <2>2. /\ IsLru(t2') /\ ToSet(t2') \subseteq ToSet(t2) \cup {k}
        /\ Len(t2') <= Len(t2) + 1 /\ Len(t2') \in Nat
    BY <1>2, <1>4, LruAddFacts DEF GetFromT1, IsLru
  <2>3. GoodLists(t1', t2', b1', b2')
    BY <1>1, <1>4, <2>1, <2>2 DEF GoodLists, GetFromT1
  <2>4. Len(t1') + Len(t2') <= Size + 1
    BY <1>1, <1>2, <2>1, <2>2, SizeAssumption
  <2>5. SetValues(val) /\ p' = p /\ last' \in Calls
    BY <1>3, <1>4 DEF GetFromT1, Calls
  <2> QED BY <1>3, <2>3, <2>4, <2>5, ListsStep
<1>5. CASE GetFromT2(k)
  <2>1. /\ RemoveFirst(t2, k) \in Seq(Keys) /\ IsInjective(RemoveFirst(t2, k))
        /\ ToSet(RemoveFirst(t2, k)) = ToSet(t2) \ {k}
        /\ Len(RemoveFirst(t2, k)) = Len(t2) - 1
    BY <1>2, <1>5, RemoveFirstFacts DEF GetFromT2, IsLru
  <2>2. /\ t2' \in Seq(Keys) /\ IsInjective(t2')
        /\ ToSet(t2') = (ToSet(t2) \ {k}) \cup {k} /\ Len(t2') = Len(t2)
    BY <1>2, <1>5, <2>1, AppendFacts DEF GetFromT2
  <2>3. ToSet(t2') = ToSet(t2) /\ IsLru(t2')
    BY <1>2, <1>5, <2>2 DEF GetFromT2, IsLru
  <2>4. GoodLists(t1', t2', b1', b2') /\ Cached' = Cached
    BY <1>1, <1>5, <2>3 DEF GoodLists, GetFromT2, Cached
  <2>5. Len(t1') + Len(t2') <= Size + 1
    BY <1>1, <1>5, <2>2 DEF GetFromT2
  <2>6. val' = val /\ p' = p /\ last' \in Calls
    BY <1>3, <1>5 DEF GetFromT2, Calls
  <2>7. \A j \in Keys \ Cached' : val'[j] = None
    BY <2>4, <2>6, IndInvLists
  <2>8. SetValues(val)
    BY <1>3, <2>6, <2>7 DEF SetValues
  <2> QED BY <1>3, <2>4, <2>5, <2>6, <2>8, ListsStep
<1>6. CASE GetMiss(k)
  <2>1. last' \in Calls
    BY <1>6 DEF GetMiss, Calls
  <2> QED BY <1>6, <2>1 DEF GetMiss, IndInv, TypeOK, OneHome, AtMostOneOver, Cached
<1> QED BY <1>4, <1>5, <1>6 DEF Get

(* Add of a key that is in t1 or t2 preserves it. *)
LEMMA AddCachedInv ==
  ASSUME IndInv, NEW k \in Keys, NEW v \in Values, AddCached(k, v)
  PROVE  IndInv' /\ k \in Cached' /\ SetValues([val EXCEPT ![k] = v]) /\ last' = <<"Add", k, v>>
<1>1. GoodLists(t1, t2, b1, b2) /\ Len(t1) + Len(t2) <= Size + 1
  BY IndInvLists
<1>2. IsLru(t1) /\ IsLru(t2) /\ Len(t1) \in Nat /\ Len(t2) \in Nat
  BY <1>1 DEF GoodLists, IsLru
<1>3. /\ IsLru(t1') /\ ToSet(t1') = ToSet(t1) \ {k}
      /\ Len(t1') = IF k \in ToSet(t1) THEN Len(t1) - 1 ELSE Len(t1)
  BY <1>2, RemoveFirstFacts, SizeAssumption DEF AddCached, IsLru
<1>4. /\ IsLru(t2') /\ ToSet(t2') \subseteq ToSet(t2) \cup {k}
      /\ Len(t2') <= Len(t2) + 1 /\ Len(t2') \in Nat /\ k \in ToSet(t2')
      /\ k \in ToSet(t2) => Len(t2') = Len(t2)
  BY <1>2, LruAddFacts DEF AddCached, IsLru
<1>5. k \in ToSet(t1) \/ k \in ToSet(t2)
  BY DEF AddCached, Cached
<1>6. GoodLists(t1', t2', b1', b2')
  BY <1>1, <1>3, <1>4, <1>5 DEF GoodLists, AddCached
<1>7. Len(t1') + Len(t2') <= Size + 1
  BY <1>1, <1>2, <1>3, <1>4, <1>5, SizeAssumption
<1>8. /\ SetValues([val EXCEPT ![k] = v]) /\ p' \in 0..Size
      /\ last' \in Calls
      /\ [val EXCEPT ![k] = v] \in [Keys -> Values \cup {None}]
  BY IndInvLists DEF AddCached, Calls
<1>9. k \in Cached' /\ last' = <<"Add", k, v>>
  BY <1>4 DEF AddCached, Cached
<1> QED BY <1>6, <1>7, <1>8, <1>9, ListsStep

(* Any movement of p stays within its range. *)
LEMMA DeltaNat ==
  ASSUME NEW hit \in Seq(Keys), NEW other \in Seq(Keys), Len(hit) > 0
  PROVE  Delta(hit, other) \in Nat
BY DEF Delta

(* Add of a ghost of b1 preserves it: p grows to size at most, the         *)
(* overshoot is one entry.                                                 *)
LEMMA AddGhostB1Inv ==
  ASSUME IndInv, NEW k \in Keys, NEW v \in Values, AddGhostB1(k, v)
  PROVE  IndInv' /\ k \in Cached' /\ SetValues([val EXCEPT ![k] = v]) /\ last' = <<"Add", k, v>>
<1>1. /\ p \in 0..Size /\ b1 \in Seq(Keys) /\ b2 \in Seq(Keys) /\ Len(b1) > 0
      /\ [val EXCEPT ![k] = v] \in [Keys -> Values \cup {None}]
  BY IndInvLists DEF AddGhostB1, ToSet, GoodLists, IsLru
<1>2. GrowP \in 0..Size
  BY <1>1, DeltaNat, SizeAssumption DEF GrowP
<1>3. PICK x1, x2, y1, y2 :
        /\ RoomMade(x1, x2, y1, y2)
        /\ t1' = x1 /\ t2' = LruAdd(x2, k) /\ b1' = RemoveFirst(y1, k) /\ b2' = y2
  BY <1>2, MakeRoomFacts DEF AddGhostB1
<1>4. /\ k \in ToSet(b1) \ Cached /\ p' = GrowP
      /\ SetValues([val EXCEPT ![k] = v]) /\ last' \in Calls
  BY IndInvLists DEF AddGhostB1, Calls
<1>5. /\ IsLru(x1) /\ IsLru(x2) /\ IsLru(y1) /\ IsLru(y2)
      /\ Len(x1) \in Nat /\ Len(x2) \in Nat /\ Len(x1) + Len(x2) <= Size
  BY <1>3 DEF RoomMade, GoodLists, IsLru
<1>6. IsLru(b1') /\ ToSet(b1') = ToSet(y1) \ {k}
  <2>1. y1 \in Seq(Keys) /\ IsInjective(y1) /\ Len(y1) <= Size
    BY <1>5 DEF IsLru
  <2>2. IsLru(RemoveFirst(y1, k)) /\ ToSet(RemoveFirst(y1, k)) = ToSet(y1) \ {k}
    BY <2>1, RemoveFirstFacts, SizeAssumption DEF IsLru
  <2> QED BY <1>3, <2>2
<1>7. /\ IsLru(t2') /\ ToSet(t2') \subseteq ToSet(x2) \cup {k}
      /\ Len(t2') <= Len(x2) + 1 /\ Len(t2') \in Nat /\ k \in ToSet(t2')
  <2>1. /\ IsLru(LruAdd(x2, k)) /\ k \in ToSet(LruAdd(x2, k))
        /\ ToSet(LruAdd(x2, k)) \subseteq ToSet(x2) \cup {k}
        /\ Len(LruAdd(x2, k)) <= Len(x2) + 1
    BY <1>5, LruAddFacts
  <2> QED BY <1>3, <2>1 DEF IsLru
<1>8. k \notin ToSet(x1) /\ k \notin ToSet(y2)
  BY <1>3, <1>4, IndInvLists DEF RoomMade, Cached, GoodLists
<1>9. GoodLists(t1', t2', b1', b2')
  BY <1>3, <1>6, <1>7, <1>8 DEF GoodLists, RoomMade
<1>10. Len(t1') + Len(t2') <= Size + 1
  BY <1>3, <1>5, <1>7, SizeAssumption
<1>11. k \in Cached' /\ last' = <<"Add", k, v>>
  BY <1>7 DEF AddGhostB1, Cached
<1> QED BY <1>1, <1>2, <1>4, <1>9, <1>10, <1>11, ListsStep

(* Add of a ghost of b2 preserves it. *)
LEMMA AddGhostB2Inv ==
  ASSUME IndInv, NEW k \in Keys, NEW v \in Values, AddGhostB2(k, v)
  PROVE  IndInv' /\ k \in Cached' /\ SetValues([val EXCEPT ![k] = v]) /\ last' = <<"Add", k, v>>
<1>1. /\ p \in 0..Size /\ b1 \in Seq(Keys) /\ b2 \in Seq(Keys) /\ Len(b2) > 0
      /\ [val EXCEPT ![k] = v] \in [Keys -> Values \cup {None}]
  BY IndInvLists DEF AddGhostB2, ToSet, GoodLists, IsLru
<1>2. ShrinkP \in 0..Size
  BY <1>1, DeltaNat, SizeAssumption DEF ShrinkP
<1>3. PICK x1, x2, y1, y2 :
        /\ RoomMade(x1, x2, y1, y2)
        /\ t1' = x1 /\ t2' = LruAdd(x2, k) /\ b1' = y1 /\ b2' = RemoveFirst(y2, k)
  BY <1>2, MakeRoomFacts DEF AddGhostB2
<1>4. /\ k \in ToSet(b2) \ (Cached \cup ToSet(b1)) /\ p' = ShrinkP
      /\ SetValues([val EXCEPT ![k] = v]) /\ last' \in Calls
  BY IndInvLists DEF AddGhostB2, Calls
<1>5. /\ IsLru(x1) /\ IsLru(x2) /\ IsLru(y1) /\ IsLru(y2)
      /\ Len(x1) \in Nat /\ Len(x2) \in Nat /\ Len(x1) + Len(x2) <= Size
  BY <1>3 DEF RoomMade, GoodLists, IsLru
<1>6. IsLru(b2') /\ ToSet(b2') = ToSet(y2) \ {k}
  <2>1. y2 \in Seq(Keys) /\ IsInjective(y2) /\ Len(y2) <= Size
    BY <1>5 DEF IsLru
  <2>2. IsLru(RemoveFirst(y2, k)) /\ ToSet(RemoveFirst(y2, k)) = ToSet(y2) \ {k}
    BY <2>1, RemoveFirstFacts, SizeAssumption DEF IsLru
  <2> QED BY <1>3, <2>2
<1>7. /\ IsLru(t2') /\ ToSet(t2') \subseteq ToSet(x2) \cup {k}
      /\ Len(t2') <= Len(x2) + 1 /\ Len(t2') \in Nat /\ k \in ToSet(t2')
  <2>1. /\ IsLru(LruAdd(x2, k)) /\ k \in ToSet(LruAdd(x2, k))
        /\ ToSet(LruAdd(x2, k)) \subseteq ToSet(x2) \cup {k}
        /\ Len(LruAdd(x2, k)) <= Len(x2) + 1
    BY <1>5, LruAddFacts
  <2> QED BY <1>3, <2>1 DEF IsLru
<1>8. k \notin ToSet(x1) /\ k \notin ToSet(y1)
  BY <1>3, <1>4, IndInvLists DEF RoomMade, Cached, GoodLists
<1>9. GoodLists(t1', t2', b1', b2')
  BY <1>3, <1>6, <1>7, <1>8 DEF GoodLists, RoomMade
<1>10. Len(t1') + Len(t2') <= Size + 1
  BY <1>3, <1>5, <1>7, SizeAssumption
<1>11. k \in Cached' /\ last' = <<"Add", k, v>>
  BY <1>7 DEF AddGhostB2, Cached
<1> QED BY <1>1, <1>2, <1>4, <1>9, <1>10, <1>11, ListsStep

(* RemoveOldest of a list keeps it a good list and adds nothing. *)
LEMMA RemoveOldestFacts ==
  ASSUME NEW l, IsLru(l)
  PROVE  IsLru(LruRemoveOldest(l)) /\ ToSet(LruRemoveOldest(l)) \subseteq ToSet(l)
BY TailFacts, SizeAssumption DEF LruRemoveOldest, IsLru

(* Add of a key that no list has preserves the invariant. *)
LEMMA AddNewInv ==
  ASSUME IndInv, NEW k \in Keys, NEW v \in Values, AddNew(k, v)
  PROVE  IndInv' /\ k \in Cached' /\ SetValues([val EXCEPT ![k] = v]) /\ last' = <<"Add", k, v>>
<1>1. /\ p \in 0..Size
      /\ [val EXCEPT ![k] = v] \in [Keys -> Values \cup {None}]
  BY IndInvLists
<1>2. PICK x1, x2, y1, y2 :
        /\ RoomMade(x1, x2, y1, y2)
        /\ t1' = LruAdd(x1, k) /\ t2' = x2
        /\ b1' = y1 \/ b1' = LruRemoveOldest(y1)
        /\ b2' = y2 \/ b2' = LruRemoveOldest(y2)
  BY <1>1, MakeRoomFacts DEF AddNew
<1>3. /\ k \notin Cached \cup ToSet(b1) \cup ToSet(b2) /\ p' = p
      /\ SetValues([val EXCEPT ![k] = v]) /\ last' \in Calls
  BY IndInvLists DEF AddNew, Calls
<1>4. /\ IsLru(x1) /\ IsLru(x2) /\ IsLru(y1) /\ IsLru(y2)
      /\ Len(x1) \in Nat /\ Len(x2) \in Nat /\ Len(x1) + Len(x2) <= Size
  BY <1>2 DEF RoomMade, GoodLists, IsLru
<1>5. /\ IsLru(b1') /\ ToSet(b1') \subseteq ToSet(y1)
      /\ IsLru(b2') /\ ToSet(b2') \subseteq ToSet(y2)
  BY <1>2, <1>4, RemoveOldestFacts
<1>6. /\ IsLru(t1') /\ ToSet(t1') \subseteq ToSet(x1) \cup {k}
      /\ Len(t1') <= Len(x1) + 1 /\ Len(t1') \in Nat /\ k \in ToSet(t1')
  <2>1. /\ IsLru(LruAdd(x1, k)) /\ k \in ToSet(LruAdd(x1, k))
        /\ ToSet(LruAdd(x1, k)) \subseteq ToSet(x1) \cup {k}
        /\ Len(LruAdd(x1, k)) <= Len(x1) + 1
    BY <1>4, LruAddFacts
  <2> QED BY <1>2, <2>1 DEF IsLru
<1>7. k \notin ToSet(x2) /\ k \notin ToSet(y1) /\ k \notin ToSet(y2)
  BY <1>2, <1>3 DEF RoomMade, Cached
<1>8. GoodLists(t1', t2', b1', b2')
  BY <1>2, <1>5, <1>6, <1>7 DEF GoodLists, RoomMade
<1>9. Len(t1') + Len(t2') <= Size + 1
  BY <1>2, <1>4, <1>6, SizeAssumption
<1>10. k \in Cached' /\ last' = <<"Add", k, v>>
  BY <1>6 DEF AddNew, Cached
<1> QED BY <1>1, <1>3, <1>8, <1>9, <1>10, ListsStep

(* Remove preserves it, and takes k out of the cache. *)
LEMMA RemoveKeyInv ==
  ASSUME IndInv, NEW k \in Keys, RemoveKey(k)
  PROVE  /\ IndInv'
         /\ Cached' = Cached \ {k}
<1>1. GoodLists(t1, t2, b1, b2) /\ Len(t1) + Len(t2) <= Size + 1
  BY IndInvLists
<1>2. ASSUME NEW l, IsLru(l)
      PROVE  /\ IsLru(RemoveFirst(l, k)) /\ ToSet(RemoveFirst(l, k)) = ToSet(l) \ {k}
             /\ Len(RemoveFirst(l, k)) <= Len(l) /\ Len(l) \in Nat
             /\ Len(RemoveFirst(l, k)) \in Nat
  BY <1>2, RemoveFirstFacts, SizeAssumption DEF IsLru
<1>3. /\ IsLru(t1) /\ IsLru(t2) /\ IsLru(b1) /\ IsLru(b2)
      /\ ToSet(t1) \cap ToSet(t2) = {}
  BY <1>1 DEF GoodLists
<1>4. /\ t1' = RemoveFirst(t1, k)
      /\ t2' = IF k \in ToSet(t1) THEN t2 ELSE RemoveFirst(t2, k)
      /\ b1' = b1 \/ b1' = RemoveFirst(b1, k)
      /\ b2' = b2 \/ b2' = RemoveFirst(b2, k)
  BY DEF RemoveKey
<1>5. /\ IsLru(t1') /\ ToSet(t1') = ToSet(t1) \ {k} /\ Len(t1') <= Len(t1)
      /\ IsLru(t2') /\ ToSet(t2') = ToSet(t2) \ {k} /\ Len(t2') <= Len(t2)
      /\ Len(t1') \in Nat /\ Len(t2') \in Nat /\ Len(t1) \in Nat /\ Len(t2) \in Nat
  BY <1>2, <1>3, <1>4
<1>6. /\ IsLru(b1') /\ ToSet(b1') \subseteq ToSet(b1)
      /\ IsLru(b2') /\ ToSet(b2') \subseteq ToSet(b2)
  BY <1>2, <1>3, <1>4
<1>7. GoodLists(t1', t2', b1', b2') /\ Cached' = Cached \ {k}
  BY <1>1, <1>5, <1>6 DEF GoodLists, Cached
<1>8. Len(t1') + Len(t2') <= Size + 1
  BY <1>1, <1>5, SizeAssumption
<1>9. SetValues(val) /\ p' = p /\ last' \in Calls
  BY DEF RemoveKey, Calls
<1> QED BY <1>7, <1>8, <1>9, IndInvLists, ListsStep

(* Purge preserves it, and empties the cache. *)
LEMMA PurgeInv ==
  ASSUME IndInv, Purge
  PROVE  IndInv' /\ Cached' = {}
<1>1. /\ IsLru(<<>>) /\ ToSet(<<>>) = {} /\ Len(<<>>) = 0
  BY SizeAssumption DEF IsLru, IsInjective, ToSet
<1>2. GoodLists(t1', t2', b1', b2') /\ Cached' = {} /\ Len(t1') + Len(t2') <= Size + 1
  BY <1>1, SizeAssumption DEF Purge, GoodLists, Cached
<1>3. SetValues(val) /\ p' = p /\ last' \in Calls
  BY DEF Purge, Calls
<1> QED BY <1>2, <1>3, IndInvLists, ListsStep

-----------------------------------------------------------------------------
(* Theorems *)

(* NewARC establishes the invariant. *)
LEMMA InitInv == Init => IndInv
<1>1. /\ IsLru(<<>>) /\ ToSet(<<>>) = {} /\ Len(<<>>) = 0
  BY SizeAssumption DEF IsLru, IsInjective, ToSet
<1>2. Init => GoodLists(t1, t2, b1, b2)
  BY <1>1 DEF Init, GoodLists
<1> QED BY <1>1, <1>2, IndInvLists, SizeAssumption DEF Init, Calls

(* Every method of ARCCache preserves it. *)
LEMMA NextInv == IndInv /\ [Next]_vars => IndInv'
<1> SUFFICES ASSUME IndInv, [Next]_vars PROVE IndInv'
  OBVIOUS
<1>1. ASSUME NEW k \in Keys, Get(k) PROVE IndInv'
  BY <1>1, GetInv
<1>2. ASSUME NEW k \in Keys, RemoveKey(k) PROVE IndInv'
  BY <1>2, RemoveKeyInv
<1>3. ASSUME NEW k \in Keys, NEW v \in Values, Add(k, v) PROVE IndInv'
  BY <1>3, AddCachedInv, AddGhostB1Inv, AddGhostB2Inv, AddNewInv DEF Add
<1>4. CASE Purge
  BY <1>4, PurgeInv
<1>5. CASE UNCHANGED vars
  BY <1>5 DEF vars, IndInv, TypeOK, OneHome, AtMostOneOver, Cached
<1> QED BY <1>1, <1>2, <1>3, <1>4, <1>5 DEF Next

(* The inductive invariant holds in every reachable state. *)
THEOREM Invariance == Spec => []IndInv
BY InitInv, NextInv, PTL DEF Spec

(* The variables of arc.go keep their types; p stays in 0..size.           *)
THEOREM TypeCorrect == Spec => []TypeOK
<1>1. IndInv => TypeOK
  BY DEF IndInv
<1> QED BY <1>1, Invariance, PTL

(* No key is ever in two of the four lists, so Add and Remove may stop at  *)
(* the first list that has it.                                             *)
THEOREM ListsDisjoint == Spec => []OneHome
<1>1. IndInv => OneHome
  BY DEF IndInv
<1> QED BY <1>1, Invariance, PTL

(* The cache never holds more than size + 1 entries, nor a ghost list more *)
(* than size: the overshoot of Add on a ghost hit does not accumulate.     *)
THEOREM CapacityBound == Spec => []AtMostOneOver
<1>1. IndInv => AtMostOneOver
  BY DEF IndInv
<1> QED BY <1>1, Invariance, PTL

(* Within capacity, Get evicts nothing. *)
THEOREM GetEvictsNothing == Spec => GetKeepsEntries
<1>1. ASSUME IndInv, NEW k \in Keys, Get(k), Len(t1) + Len(t2) <= Size
      PROVE  Cached' = Cached
  <2>1. IsLru(t1) /\ IsLru(t2) /\ Len(t1) \in Nat /\ Len(t2) \in Nat
    BY <1>1, IndInvLists DEF GoodLists, IsLru
  <2>2. CASE GetFromT1(k)
    <3>1. ToSet(t1') = ToSet(t1) \ {k} /\ k \in ToSet(t1)
      BY <2>1, <2>2, RemoveFirstFacts DEF GetFromT1, IsLru
    <3>2. Len(t1) > 0
      BY <2>1, <3>1 DEF ToSet, IsLru
    <3>3. Len(t2) < Size
      BY <1>1, <2>1, <3>2, SizeAssumption
    <3>4. ToSet(t2') = ToSet(t2) \cup {k}
      BY <2>1, <2>2, <3>3, LruAddFacts DEF GetFromT1
    <3> QED BY <3>1, <3>4 DEF Cached
  <2>3. CASE GetFromT2(k)
    <3>1. /\ RemoveFirst(t2, k) \in Seq(Keys) /\ IsInjective(RemoveFirst(t2, k))
          /\ ToSet(RemoveFirst(t2, k)) = ToSet(t2) \ {k}
      BY <2>1, RemoveFirstFacts DEF IsLru
    <3>2. ToSet(t2') = (ToSet(t2) \ {k}) \cup {k}
      BY <2>3, <3>1, AppendFacts DEF GetFromT2
    <3> QED BY <2>3, <3>2 DEF GetFromT2, Cached
  <2>4. CASE GetMiss(k)
    BY <2>4 DEF GetMiss, Cached
  <2> QED BY <1>1, <2>2, <2>3, <2>4 DEF Get
<1>2. IndInv /\ [Next]_vars
      => [\A k \in Keys : Get(k) /\ Len(t1) + Len(t2) <= Size => Cached' = Cached]_vars
  BY <1>1
<1> QED BY <1>2, Invariance, PTL DEF Spec, GetKeepsEntries

-----------------------------------------------------------------------------
(* Refinement *)

(* Setting the values of the cached keys only forgets keys; k, which is    *)
(* cached, keeps its value.                                                *)
LEMMA SetValuesKeeps ==
  ASSUME NEW k \in Keys, NEW v \in [Keys -> Values \cup {None}],
         SetValues(v), k \in Cached'
  PROVE  val' \in Abstract!Keeps(v, {k})
<1> DEFINE F == Keys \ Cached'
<1>1. F \in SUBSET (Keys \ {k})
  OBVIOUS
<1>2. val' = [j \in Keys |-> IF j \in F THEN None ELSE v[j]]
  BY DEF SetValues
<1> QED BY <1>1, <1>2 DEF Abstract!Keeps

(* Forgetting nothing is allowed. *)
LEMMA KeepsAll ==
  ASSUME NEW k \in Keys, NEW v \in [Keys -> Values \cup {None}]
  PROVE  v \in Abstract!Keeps(v, {k})
<1> DEFINE F == {}
<1>1. F \in SUBSET (Keys \ {k})
  OBVIOUS
<1>2. v = [j \in Keys |-> IF j \in F THEN None ELSE v[j]]
  OBVIOUS
<1> HIDE DEF F
<1> QED BY <1>1, <1>2 DEF Abstract!Keeps

(* Get is a Get of the lossy map. *)
LEMMA GetRefines ==
  ASSUME IndInv, NEW k \in Keys, Get(k)
  PROVE  Abstract!Get(k)
<1>1. val \in [Keys -> Values \cup {None}] /\ \A j \in Keys \ Cached : val[j] = None
  BY IndInvLists
<1>2. CASE GetFromT1(k)
  <2>1. k \in ToSet(t2')
    BY <1>2, IndInvLists, LruAddFacts DEF GetFromT1, GoodLists
  <2> QED BY <1>1, <1>2, <2>1, SetValuesKeeps DEF GetFromT1, Cached, Abstract!Get
<1>3. CASE GetFromT2(k)
  BY <1>1, <1>3, KeepsAll DEF GetFromT2, Abstract!Get
<1>4. CASE GetMiss(k)
  BY <1>1, <1>4, KeepsAll DEF GetMiss, Abstract!Get
<1> QED BY <1>2, <1>3, <1>4 DEF Get

(* Add is an Add of the lossy map. *)
LEMMA AddRefines ==
  ASSUME IndInv, NEW k \in Keys, NEW v \in Values, Add(k, v)
  PROVE  Abstract!Add(k, v)
<1> DEFINE w == [val EXCEPT ![k] = v]
<1>1. w \in [Keys -> Values \cup {None}]
  BY IndInvLists
<1>2. k \in Cached' /\ SetValues(w) /\ last' = <<"Add", k, v>>
  BY AddCachedInv, AddGhostB1Inv, AddGhostB2Inv, AddNewInv DEF Add
<1> HIDE DEF w
<1>3. val' \in Abstract!Keeps(w, {k})
  BY <1>1, <1>2, SetValuesKeeps
<1> QED BY <1>2, <1>3 DEF Abstract!Add, w

(* Remove is a Remove of the lossy map. *)
LEMMA RemoveRefines ==
  ASSUME IndInv, NEW k \in Keys, RemoveKey(k)
  PROVE  Abstract!Remove(k)
<1>1. Cached' = Cached \ {k} /\ SetValues(val) /\ last' = <<"Remove", k, None>>
  BY RemoveKeyInv DEF RemoveKey
<1>2. val \in [Keys -> Values \cup {None}] /\ \A j \in Keys \ Cached : val[j] = None
  BY IndInvLists
<1>3. val' = [val EXCEPT ![k] = None]
  <2> DEFINE w == [val EXCEPT ![k] = None]
  <2>1. val' = [j \in Keys |-> IF j \in Cached' THEN val[j] ELSE None]
    BY <1>1 DEF SetValues
  <2>2. w = [j \in Keys |-> IF j = k THEN None ELSE val[j]]
    BY <1>2
  <2>3. \A j \in Keys : (IF j \in Cached' THEN val[j] ELSE None)
                       = (IF j = k THEN None ELSE val[j])
    BY <1>1, <1>2
  <2> QED BY <2>1, <2>2, <2>3
<1> QED BY <1>1, <1>3 DEF Abstract!Remove

(* Purge is a Purge of the lossy map. *)
LEMMA PurgeRefines ==
  ASSUME IndInv, Purge
  PROVE  Abstract!Purge
<1>1. Cached' = {} /\ SetValues(val) /\ last' = <<"Purge", None, None>>
  BY PurgeInv DEF Purge
<1> QED BY <1>1 DEF SetValues, Abstract!Purge

(* ARC implements the lossy map that InMemoryStore is built on. *)
THEOREM Refinement == Spec => ImplementsLossyMap
<1>1. Init => Abstract!Init
  BY DEF Init, Abstract!Init
<1>2. IndInv /\ [Next]_vars => [Abstract!Next]_(Abstract!vars)
  <2> SUFFICES ASSUME IndInv, [Next]_vars PROVE [Abstract!Next]_(Abstract!vars)
    OBVIOUS
  <2>1. ASSUME NEW k \in Keys, Get(k) PROVE Abstract!Next
    BY <2>1, GetRefines DEF Abstract!Next
  <2>2. ASSUME NEW k \in Keys, RemoveKey(k) PROVE Abstract!Next
    BY <2>2, RemoveRefines DEF Abstract!Next
  <2>3. ASSUME NEW k \in Keys, NEW v \in Values, Add(k, v) PROVE Abstract!Next
    BY <2>3, AddRefines DEF Abstract!Next
  <2>4. ASSUME Purge PROVE Abstract!Next
    BY <2>4, PurgeRefines DEF Abstract!Next
  <2>5. CASE UNCHANGED vars
    BY <2>5 DEF vars, Abstract!vars
  <2> QED BY <2>1, <2>2, <2>3, <2>4, <2>5 DEF Next
<1> QED
  BY <1>1, <1>2, Invariance, PTL DEF Spec, ImplementsLossyMap, Abstract!Spec
=============================================================================
