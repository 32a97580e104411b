------------------------- MODULE RedisCounterProofs -------------------------
(***************************************************************************)
(* For any number of keys and clients, any amounts and any int width: the  *)
(* counters keep their types, and no interleaving of the methods' commands *)
(* counts an amount twice.                                                 *)
(***************************************************************************)
EXTENDS RedisCounter, TLAPS

(* What the local variables of a method hold at each of its commands. *)
Frame(c) ==
  /\ pc[c] # "idle" => key[c] \in Keys /\ amount[c] \in Amounts
  /\ pc[c] = "set" => read[c] \in Ints

(* Neither the counter nor what a SET of a sum starts from exceeds what    *)
(* was given: a value that was read may be stale, but a total only grows.  *)
Bounded ==
  /\ \A k \in Keys : Value(k) <= given[k]
  /\ \A c \in Clients : pc[c] = "set" => read[c] <= given[key[c]]

Counts == \A n \in Amounts : n < Half

IndInv ==
  /\ TypeOK
  /\ \A c \in Clients : Frame(c)
  /\ Counts => Bounded

(* The types of what a method changes of its own, and of the totals. *)
LocalTypes ==
  /\ op \in [Clients -> Methods \cup {"none"}]
  /\ pc \in [Clients -> {"idle", "watch", "exists", "get", "set", "setex",
                         "incrby", "decrby"}]
  /\ key \in [Clients -> Keys \cup {None}]
  /\ amount \in [Clients -> Uints]
  /\ read \in [Clients -> Ints \cup {None}]
  /\ given \in [Keys -> Nat]

DbTypes == db \in [Keys -> Ints \cup {None}] /\ ttl \in SUBSET Keys

Moves(c) ==
  \/ \E m \in MayCall[c], k \in Keys, n \in Amounts : Call(c, m, k, n)
  \/ Watch(c) \/ Exists(c) \/ Get(c) \/ Miss(c)
  \/ SetEx(c) \/ SetSum(c) \/ IncrBy(c) \/ DecrBy(c)
  \/ Overflow(c) \/ NotExecuted(c)

(* A step of c leaves the local variables of d alone. *)
Stays(d) ==
  pc'[d] = pc[d] /\ key'[d] = key[d] /\ amount'[d] = amount[d] /\ read'[d] = read[d]

-----------------------------------------------------------------------------
(* Arithmetic *)

(* A sum of ints is an int again, and cutting it to the width never makes  *)
(* it greater.                                                             *)
LEMMA Sums ==
  ASSUME NEW i \in Ints, NEW n \in Uints
  PROVE  /\ ToInt(n) \in Ints /\ n \in Nat
         /\ Incremented(i, n) \in Ints
         /\ n < Half => ToInt(n) = n /\ Incremented(i, n) <= i + n
<1>1. Half \in Nat /\ Half > 0
  BY HalfAssumption
<1>2. /\ i \in Int /\ -Half <= i /\ i < Half
      /\ n \in Nat /\ n < 2 * Half
  BY <1>1 DEF Ints, Uints
<1>3. ToInt(n) \in Int /\ -Half <= ToInt(n) /\ ToInt(n) < Half
  BY <1>1, <1>2 DEF ToInt
<1>4. n < Half => ToInt(n) = n
  BY DEF ToInt
<1> DEFINE t == ToInt(n)
<1> HIDE DEF t
<1>5. ASSUME NEW x \in Int, x >= -(2 * Half), x < 2 * Half
      PROVE  Wrap(x) \in Int /\ -Half <= Wrap(x) /\ Wrap(x) < Half
  BY <1>1, <1>5 DEF Wrap
<1>6. ASSUME NEW x \in Int, x >= -Half
      PROVE  Wrap(x) <= x
  BY <1>1, <1>6 DEF Wrap
<1>7. /\ i + t \in Int /\ i + t >= -(2 * Half) /\ i + t < 2 * Half
      /\ n < Half => t = n /\ i + t >= -Half
  BY <1>1, <1>2, <1>3, <1>4 DEF t
<1>8. Wrap(i + t) \in Int /\ -Half <= Wrap(i + t) /\ Wrap(i + t) < Half
  BY <1>5, <1>7
<1>9. n < Half => Wrap(i + t) <= i + n
  BY <1>6, <1>7
<1> QED BY <1>1, <1>2, <1>3, <1>4, <1>8, <1>9 DEF Incremented, Ints, t

(* What Decrement takes off is never negative, for a count that is above   *)
(* the uint64 of an int is above no negative one.                          *)
LEMMA TakesOff ==
  ASSUME TypeOK, NEW c \in Clients, amount[c] < Half
  PROVE  DecrementBy(c) \in Nat
<1>1. /\ Half \in Nat
      /\ amount[c] \in Nat
      /\ read[c] # None => read[c] \in Int /\ -Half <= read[c]
  BY HalfAssumption DEF TypeOK, Uints, Ints
<1>2. ASSUME read[c] # None, amount[c] > ToUint64(read[c])
      PROVE  read[c] \in Nat
  BY <1>1, <1>2 DEF ToUint64
<1> QED BY <1>1, <1>2 DEF DecrementBy

-----------------------------------------------------------------------------
(* The types and the local variables *)

(* A method that returns forgets its locals, and the total only grows. *)
LEMMA Returns ==
  ASSUME TypeOK, NEW c \in Clients, key[c] \in Keys, NEW n \in Nat, Return(c, n)
  PROVE  /\ LocalTypes'
         /\ pc'[c] = "idle"
         /\ \A d \in Clients : d # c => Stays(d)
         /\ given' = [given EXCEPT ![key[c]] = given[key[c]] + n]
<1>1. given[key[c]] \in Nat
  BY DEF TypeOK
<1>2. given[key[c]] + n \in Nat
  BY <1>1
<1>3. 0 \in Uints
  BY HalfAssumption DEF Uints
<1>4. /\ op' \in [Clients -> Methods \cup {"none"}]
      /\ pc' \in [Clients -> {"idle", "watch", "exists", "get", "set", "setex",
                              "incrby", "decrby"}]
      /\ key' \in [Clients -> Keys \cup {None}]
  BY DEF Return, TypeOK
<1>5. /\ amount' \in [Clients -> Uints]
      /\ read' \in [Clients -> Ints \cup {None}]
      /\ given' \in [Keys -> Nat]
  BY <1>2, <1>3 DEF Return, TypeOK
<1>6. pc'[c] = "idle" /\ \A d \in Clients : d # c => Stays(d)
  BY DEF Return, TypeOK, Stays
<1> QED BY <1>4, <1>5, <1>6 DEF Return, LocalTypes

(* A step of a client keeps the types, leaves the locals of the others,    *)
(* and sets its own to what its next command needs.                        *)
LEMMA LocalsStep ==
  ASSUME TypeOK, NEW c \in Clients, Frame(c), Moves(c)
  PROVE  LocalTypes' /\ Frame(c)' /\ \A d \in Clients : d # c => Stays(d)
<1>1. ASSUME NEW m \in MayCall[c], NEW k \in Keys, NEW n \in Amounts, Call(c, m, k, n)
      PROVE  LocalTypes' /\ Frame(c)' /\ \A d \in Clients : d # c => Stays(d)
  <2>1. m \in Methods /\ n \in Uints
    BY CallAssumption
  <2>2. FirstCommand(m) \in {"setex", "get", "watch", "incrby", "exists"}
    BY <2>1 DEF FirstCommand, Methods
  <2>3. LocalTypes'
    BY <1>1, <2>1, <2>2 DEF Call, TypeOK, LocalTypes
  <2>4. Frame(c)'
    BY <1>1, <2>2 DEF Call, TypeOK, Frame
  <2> QED BY <1>1, <2>3, <2>4 DEF Call, TypeOK, Stays
<1>2. CASE Watch(c) \/ Exists(c)
  <2>1. LocalTypes'
    BY <1>2 DEF Watch, Exists, Goto, TypeOK, LocalTypes
  <2>2. Frame(c)'
    BY <1>2 DEF Watch, Exists, Goto, TypeOK, Frame
  <2> QED BY <1>2, <2>1, <2>2 DEF Watch, Exists, Goto, TypeOK, Stays
<1>3. CASE Get(c)
  <2>1. key[c] \in Keys /\ db[key[c]] \in Ints \cup {None}
    BY <1>3 DEF Get, Frame, TypeOK
  <2>2. LocalTypes'
    BY <1>3, <2>1 DEF Get, Goto, TypeOK, LocalTypes
  <2>3. Frame(c)'
    BY <1>3, <2>1 DEF Get, Goto, TypeOK, Frame
  <2> QED BY <1>3, <2>2, <2>3 DEF Get, Goto, TypeOK, Stays
<1>4. ASSUME pc[c] # "idle", Return(c, 0) \/ Return(c, amount[c])
      PROVE  LocalTypes' /\ Frame(c)' /\ \A d \in Clients : d # c => Stays(d)
  <2>1. key[c] \in Keys /\ amount[c] \in Nat
    BY <1>4 DEF Frame, TypeOK, Uints
  <2>2. LocalTypes' /\ pc'[c] = "idle" /\ \A d \in Clients : d # c => Stays(d)
    BY <1>4, <2>1, Returns
  <2> QED BY <2>2 DEF Frame
<1>5. CASE Miss(c) \/ Overflow(c) \/ NotExecuted(c) \/ DecrBy(c)
  BY <1>4, <1>5 DEF Miss, Overflow, NotExecuted, DecrBy
<1>6. CASE SetEx(c) \/ SetSum(c) \/ IncrBy(c)
  BY <1>4, <1>6 DEF SetEx, SetSum, IncrBy
<1> QED BY <1>1, <1>2, <1>3, <1>5, <1>6 DEF Moves

(* The counters stay ints. *)
LEMMA DbStep ==
  ASSUME TypeOK, NEW c \in Clients, Frame(c), Moves(c)
  PROVE  DbTypes'
<1>1. CASE SetEx(c) \/ SetSum(c) \/ IncrBy(c) \/ DecrBy(c)
  <2>1. key[c] \in Keys /\ amount[c] \in Uints
    BY <1>1 DEF SetEx, SetSum, IncrBy, DecrBy, Frame, TypeOK
  <2>2. PICK v : Store(key[c], v) /\ v \in Ints
    <3>1. CASE SetEx(c)
      <4>1. 0 \in Ints
        BY HalfAssumption DEF Ints
      <4>2. ToInt(amount[c]) \in Ints
        BY <2>1, <4>1, Sums
      <4> QED BY <3>1, <4>2 DEF SetEx
    <3>2. CASE SetSum(c)
      <4>1. read[c] \in Ints
        BY <3>2 DEF SetSum, Frame
      <4>2. Incremented(read[c], amount[c]) \in Ints
        BY <2>1, <4>1, Sums
      <4> QED BY <3>2, <4>2 DEF SetSum
    <3>3. CASE IncrBy(c)
      <4>1. Value(key[c]) \in Ints
        BY <2>1, HalfAssumption DEF Value, TypeOK, Ints
      <4>2. Value(key[c]) + amount[c] \in Ints
        BY <2>1, <3>3, <4>1, HalfAssumption DEF IncrBy, Ints, Uints
      <4> QED BY <3>3, <4>2 DEF IncrBy
    <3>4. CASE DecrBy(c)
      BY <3>4 DEF DecrBy
    <3> QED BY <1>1, <3>1, <3>2, <3>3, <3>4
  <2>3. db' \in [Keys -> Ints \cup {None}]
    BY <2>1, <2>2 DEF Store, TypeOK
  <2>4. ttl' \in SUBSET Keys
    BY <1>1, <2>1 DEF SetEx, SetSum, IncrBy, DecrBy, TypeOK
  <2> QED BY <2>3, <2>4 DEF DbTypes
<1>2. CASE UNCHANGED <<db, ttl>>
  BY <1>2 DEF DbTypes, TypeOK
<1>3. \/ SetEx(c) \/ SetSum(c) \/ IncrBy(c) \/ DecrBy(c)
      \/ UNCHANGED <<db, ttl>>
  BY DEF Moves, Call, Watch, Exists, Get, Miss, Overflow, NotExecuted
<1> QED BY <1>1, <1>2, <1>3

-----------------------------------------------------------------------------
(* The totals *)

(* A step that sets the counter of c's key to v while n is added to the    *)
(* total keeps every counter within its total, if v is within it.          *)
LEMMA WithinStep ==
  ASSUME TypeOK, NEW c \in Clients, key[c] \in Keys, \A k \in Keys : Value(k) <= given[k],
         NEW v \in Ints, Store(key[c], v), NEW n \in Nat,
         given' = [given EXCEPT ![key[c]] = given[key[c]] + n],
         v <= given[key[c]] + n
  PROVE  \A k \in Keys : Value(k)' <= given'[k]
<1> SUFFICES ASSUME NEW k \in Keys PROVE Value(k)' <= given'[k]
  OBVIOUS
<1>1. v # None
  BY CallAssumption
<1>2. CASE k = key[c]
  BY <1>1, <1>2 DEF Value, Store, TypeOK
<1>3. CASE k # key[c]
  BY <1>3 DEF Value, Store, TypeOK
<1> QED BY <1>2, <1>3

(* No step of a client takes a counter, or the sum it is about to set,     *)
(* above the total.                                                        *)
LEMMA BoundedStep ==
  ASSUME TypeOK, \A d \in Clients : Frame(d), Counts, Bounded,
         NEW c \in Clients, Moves(c)
  PROVE  Bounded'
<1>1. ASSUME NEW k \in Keys
      PROVE  Value(k) \in Int /\ given[k] \in Nat
  BY HalfAssumption DEF Value, TypeOK, Ints
<1>2. ASSUME pc[c] # "idle"
      PROVE  /\ key[c] \in Keys /\ amount[c] \in Uints /\ amount[c] \in Nat
             /\ amount[c] < Half
  <2>1. key[c] \in Keys /\ amount[c] \in Amounts
    BY <1>2 DEF Frame
  <2>2. amount[c] \in Uints /\ amount[c] < Half
    BY <2>1, CallAssumption DEF Counts
  <2> QED BY <2>1, <2>2, HalfAssumption DEF Uints
<1>3. \A d \in Clients : d # c => Stays(d)
  BY LocalsStep
<1>4. ASSUME NEW n \in Nat, pc[c] # "idle", Return(c, n)
      PROVE  /\ given' = [given EXCEPT ![key[c]] = given[key[c]] + n]
             /\ pc'[c] = "idle"
             /\ \A k \in Keys : given[k] <= given'[k]
  <2>1. /\ given' = [given EXCEPT ![key[c]] = given[key[c]] + n]
        /\ pc'[c] = "idle"
    BY <1>2, <1>4, Returns
  <2>2. ASSUME NEW k \in Keys
        PROVE  given'[k] = given[k] \/ given'[k] = given[k] + n
    BY <2>1 DEF TypeOK
  <2>3. ASSUME NEW k \in Keys
        PROVE  given[k] <= given'[k]
    BY <1>1, <2>2
  <2> QED BY <2>1, <2>3
<1>5. /\ \A k \in Keys : given[k] <= given'[k]
      /\ pc'[c] = "set" => read'[c] <= given'[key'[c]]
  <2>1. CASE \/ Watch(c) \/ Exists(c)
             \/ \E m \in MayCall[c], k \in Keys, n \in Amounts : Call(c, m, k, n)
    <3>1. UNCHANGED given /\ pc'[c] # "set"
      <4>1. CASE Watch(c) \/ Exists(c)
        BY <4>1 DEF Watch, Exists, Goto, TypeOK
      <4>2. ASSUME NEW m \in MayCall[c], NEW k \in Keys, NEW n \in Amounts,
                   Call(c, m, k, n)
            PROVE  UNCHANGED given /\ pc'[c] # "set"
        <5>1. m \in Methods
          BY CallAssumption
        <5>2. FirstCommand(m) # "set"
          BY <5>1 DEF FirstCommand, Methods
        <5> QED BY <4>2, <5>2 DEF Call, TypeOK
      <4> QED BY <2>1, <4>1, <4>2
    <3> QED BY <1>1, <3>1
  <2>2. CASE Get(c)
    <3>1. /\ key[c] \in Keys /\ UNCHANGED <<given, key>> /\ read'[c] = db[key[c]]
          /\ pc'[c] = "set" => db[key[c]] # None
      BY <1>2, <2>2 DEF Get, Goto, TypeOK
    <3>2. pc'[c] = "set" => read'[c] = Value(key[c])
      BY <3>1 DEF Value
    <3> QED BY <1>1, <3>1, <3>2 DEF Bounded
  <2>3. ASSUME pc[c] # "idle", Return(c, 0) \/ Return(c, amount[c])
        PROVE  (\A k \in Keys : given[k] <= given'[k]) /\ pc'[c] # "set"
    BY <1>2, <1>4, <2>3
  <2>4. CASE Miss(c) \/ Overflow(c) \/ NotExecuted(c) \/ DecrBy(c)
    BY <2>3, <2>4 DEF Miss, Overflow, NotExecuted, DecrBy
  <2>5. CASE SetEx(c) \/ SetSum(c) \/ IncrBy(c)
    BY <2>3, <2>5 DEF SetEx, SetSum, IncrBy
  <2> QED BY <2>1, <2>2, <2>4, <2>5 DEF Moves
<1>6. \A k \in Keys : Value(k)' <= given'[k]
  <2>0. \A k \in Keys : Value(k) <= given[k]
    BY DEF Bounded
  <2>1. CASE UNCHANGED db
    <3>1. \A k \in Keys : Value(k)' = Value(k)
      BY <2>1 DEF Value
    <3>2. DOMAIN given' = Keys /\ \A k \in Keys : given'[k] \in Nat
      BY LocalsStep DEF LocalTypes
    <3> QED BY <1>1, <1>5, <2>0, <3>1, <3>2
  <2>2. CASE SetEx(c)
    <3>1. pc[c] # "idle" /\ Return(c, amount[c]) /\ Store(key[c], ToInt(amount[c]))
      BY <2>2 DEF SetEx
    <3>2. 0 \in Ints
      BY HalfAssumption DEF Ints
    <3>3. ToInt(amount[c]) \in Ints /\ ToInt(amount[c]) = amount[c]
      BY <1>2, <3>1, <3>2, Sums
    <3>4. amount[c] <= given[key[c]] + amount[c]
      BY <1>1, <1>2, <3>1
    <3> QED BY <1>2, <1>4, <2>0, <3>1, <3>3, <3>4, WithinStep
  <2>3. CASE SetSum(c)
    <3> DEFINE v == Incremented(read[c], amount[c])
    <3>1. /\ pc[c] = "set" /\ Return(c, amount[c]) /\ Store(key[c], v)
          /\ read[c] \in Ints /\ read[c] <= given[key[c]]
      BY <2>3 DEF SetSum, Frame, Bounded
    <3>2. v \in Ints /\ v <= read[c] + amount[c]
      BY <1>2, <3>1, Sums
    <3>3. v \in Int /\ read[c] \in Int
      BY <3>1, <3>2, HalfAssumption DEF Ints
    <3> HIDE DEF v
    <3>4. v <= given[key[c]] + amount[c]
      BY <1>1, <1>2, <3>1, <3>2, <3>3
    <3> QED BY <1>2, <1>4, <2>0, <3>1, <3>2, <3>4, WithinStep
  <2>4. CASE IncrBy(c)
    <3> DEFINE v == Value(key[c]) + amount[c]
    <3>1. pc[c] # "idle" /\ Return(c, amount[c]) /\ Store(key[c], v) /\ v < Half
      BY <2>4 DEF IncrBy
    <3>2. Value(key[c]) \in Ints
      BY <1>2, <3>1, HalfAssumption DEF Value, TypeOK, Ints
    <3>3. v \in Ints /\ v <= given[key[c]] + amount[c]
      BY <1>1, <1>2, <2>0, <3>1, <3>2, HalfAssumption DEF Ints
    <3> HIDE DEF v
    <3> QED BY <1>2, <1>4, <2>0, <3>1, <3>3, WithinStep
  <2>5. CASE DecrBy(c)
    <3> DEFINE v == Value(key[c]) - DecrementBy(c)
    <3>1. pc[c] # "idle" /\ Return(c, 0) /\ Store(key[c], v) /\ v \in Ints
      BY <2>5 DEF DecrBy
    <3>2. DecrementBy(c) \in Nat
      BY <1>2, <3>1, TakesOff
    <3>3. v <= given[key[c]] + 0
      BY <1>1, <1>2, <2>0, <3>1, <3>2
    <3> HIDE DEF v
    <3> QED BY <1>2, <1>4, <2>0, <3>1, <3>3, WithinStep
  <2> QED BY <2>1, <2>2, <2>3, <2>4, <2>5
          DEF Moves, Call, Watch, Exists, Get, Miss, Overflow, NotExecuted
<1>7. ASSUME NEW d \in Clients, d # c, pc'[d] = "set"
      PROVE  read'[d] <= given'[key'[d]]
  <2>1. /\ pc[d] = "set" /\ read'[d] = read[d] /\ key'[d] = key[d]
    BY <1>3, <1>7 DEF Stays
  <2>2. key[d] \in Keys /\ read[d] \in Ints /\ read[d] <= given[key[d]]
    BY <2>1 DEF Frame, Bounded
  <2>3. read[d] \in Int /\ given[key[d]] \in Nat /\ given'[key[d]] \in Nat
    BY <1>1, <2>2, LocalsStep, HalfAssumption DEF Ints, LocalTypes
  <2>4. given[key[d]] <= given'[key[d]]
    BY <1>5, <2>2
  <2> QED BY <2>1, <2>2, <2>3, <2>4
<1> QED BY <1>5, <1>6, <1>7 DEF Bounded

-----------------------------------------------------------------------------
(* The invariant *)

(* Nothing is counted before the first call. *)
LEMMA InitHolds == Init => IndInv
<1> SUFFICES ASSUME Init PROVE IndInv
  OBVIOUS
<1>1. 0 \in Uints
  BY HalfAssumption DEF Uints
<1>2. TypeOK
  BY <1>1 DEF Init, TypeOK
<1>3. (\A c \in Clients : Frame(c)) /\ Bounded
  BY DEF Init, Frame, Bounded, Value
<1> QED BY <1>2, <1>3 DEF IndInv

(* A key that expires counts as 0. *)
LEMMA ExpirePreserves ==
  ASSUME IndInv, NEW k \in Keys, Expire(k)
  PROVE  IndInv'
<1>1. TypeOK'
  BY DEF IndInv, Expire, TypeOK
<1>2. \A c \in Clients : Frame(c)'
  BY DEF IndInv, Expire, Frame
<1>3. ASSUME Bounded PROVE Bounded'
  <2>1. ASSUME NEW l \in Keys
        PROVE  Value(l)' \in {0, Value(l)} /\ given[l] \in Nat
    BY DEF Expire, Value, IndInv, TypeOK
  <2>2. ASSUME NEW l \in Keys
        PROVE  Value(l)' <= given'[l]
    BY <1>3, <2>1 DEF Bounded, Expire
  <2> QED BY <1>3, <2>2 DEF Bounded, Expire
<1> QED BY <1>1, <1>2, <1>3 DEF IndInv

(* Every step preserves the invariant. *)
LEMMA NextPreserves == IndInv /\ [Next]_vars => IndInv'
<1> SUFFICES ASSUME IndInv, [Next]_vars PROVE IndInv'
  OBVIOUS
<1>1. ASSUME NEW c \in Clients, Moves(c)
      PROVE  IndInv'
  <2>1. TypeOK /\ \A d \in Clients : Frame(d)
    BY DEF IndInv
  <2>2. LocalTypes' /\ DbTypes' /\ Frame(c)' /\ \A d \in Clients : d # c => Stays(d)
    BY <1>1, <2>1, LocalsStep, DbStep
  <2>3. TypeOK'
    BY <2>2 DEF TypeOK, LocalTypes, DbTypes
  <2>4. \A d \in Clients : Frame(d)'
    BY <2>1, <2>2 DEF Frame, Stays
  <2>5. Counts => Bounded'
    BY <1>1, <2>1, BoundedStep DEF IndInv
  <2> QED BY <2>3, <2>4, <2>5 DEF IndInv, Counts
<1>2. CASE UNCHANGED vars
  <2>1. TypeOK' /\ \A c \in Clients : Frame(c)'
    BY <1>2 DEF vars, IndInv, TypeOK, Frame
  <2>2. Bounded => Bounded'
    BY <1>2 DEF vars, Bounded, Value
  <2> QED BY <2>1, <2>2 DEF IndInv
<1> QED BY <1>1, <1>2, ExpirePreserves DEF Next, Moves

(* The inductive invariant holds. *)
THEOREM Invariance == Spec => []IndInv
BY InitHolds, NextPreserves, PTL DEF Spec

(* TypeOK: the counters stay ints of Redis, whichever of the methods write *)
(* them, and the sums are cut to the width.                                *)
THEOREM TypeCorrect == Spec => []TypeOK
<1>1. IndInv => TypeOK
  BY DEF IndInv
<1> QED BY <1>1, Invariance, PTL

(* NeverOvercounts, for any number of clients whose commands interleave,   *)
(* are lost or find the key expired, and for every width.                  *)
THEOREM CountedAtMostOnce == Spec => []NeverOvercounts
<1>1. IndInv => NeverOvercounts
  BY DEF IndInv, Counts, Bounded, NeverOvercounts
<1> QED BY <1>1, Invariance, PTL
=============================================================================
