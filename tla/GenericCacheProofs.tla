------------------------- MODULE GenericCacheProofs -------------------------
(***************************************************************************)
(* For any number of keys and clients, any expirations, block size, clock  *)
(* resolution and replication lag: what Set encrypts is read back, only    *)
(* who asks for it gets a value without time to live, and an entry's       *)
(* ExpiresAt comes no later than Redis drops it.                           *)
(***************************************************************************)
EXTENDS GenericCache, SequenceTheorems, TLAPS

Values ==
  [via : {"Set", "Put", "AddExistingEntry"}, kind : {"entry", "plain", "cipher"},
   data : Int, len : Int, last : Int, at : Int,
   asked : Int, moved : BOOLEAN, dies : Int]

Results ==
  [res : {"none", "miss", "error", "panic", "hit"}, data : Int \cup {None}, at : Int]

Contents == [Keys -> Values \cup {None}]

(* What Set made of an entry: the data that was given, and the padding if  *)
(* it was encrypted, when the cache was made as f says.                    *)
Readable(v, f) ==
  v.via = "Set" /\ v.kind # "plain" =>
    /\ v.data > 0
    /\ 0 <= v.last /\ v.last <= BlockSize
    /\ v.len = v.data + v.last
    /\ EncryptData => v.kind = "cipher" /\ f.secret >= BlockSize

AllReadable(m, f) == \A k \in Keys : m[k] # None => Readable(m[k], f)

(* Effective, when the cache was made as f says *)
EffectiveIn(exp, f) == IF exp # 0 THEN exp ELSE f.def

(* The expiration t that a value is to be stored with is negative or 0     *)
(* only for the reasons that MortalUnlessAsked allows.                     *)
Excused(v, t, n, f) ==
  IF v.via = "AddExistingEntry"
  THEN (t < 0 => v.at < n) /\ (t = 0 => v.at <= n)
  ELSE /\ t < 0 => v.asked < 0 \/ (v.asked = 0 /\ f.def < 0)
       /\ t = 0 => v.asked = 0 /\ f.def = 0

(* A value that is to be stored with the expiration t: should the command  *)
(* come at n, its ExpiresAt is not after the time it will die at.          *)
Timely(v, t, n, f) ==
  /\ Excused(v, t, n, f)
  /\ t = 0 => v.at <= n
  /\ t > 0 => t = EffectiveIn(v.asked, f) /\ v.at <= n + Seconds(t)

(* A value in the primary at n *)
MayLast(v, n, f) ==
  IF v.via = "AddExistingEntry"
  THEN v.at < n \/ (v.at = n /\ f.store <= 0)
  ELSE v.asked < 0 \/ (v.asked = 0 /\ (f.def < 0 \/ (f.def = 0 /\ f.store <= 0)))

Stored(v, n, f) ==
  /\ v.dies = FOREVER => MayLast(v, n, f)
  /\ v.dies # FOREVER /\ ~v.moved /\ FitsInt32(EffectiveIn(v.asked, f)) =>
       v.at <= v.dies

AllStored(m, n, f) == \A k \in Keys : m[k] # None => Stored(m[k], n, f)

Clock == conf \in [secret : Int, def : Int, store : Int] /\ now \in Nat \ {0}

Memory ==
  /\ db \in Contents /\ AllReadable(db, conf) /\ AllStored(db, now, conf)
  /\ rep \in Contents /\ AllReadable(rep, conf)
  /\ log \in Seq(Contents) /\ \A i \in 1..Len(log) : AllReadable(log[i], conf)

LocalTypes ==
  /\ DOMAIN op = Clients /\ DOMAIN pc = Clients
  /\ DOMAIN key = Clients /\ DOMAIN val = Clients
  /\ ttl \in [Clients -> Int]
  /\ got \in [Clients -> Results]

Ready(v, t) == v \in Values /\ Readable(v, conf) /\ Timely(v, t, now, conf)

(* What the local variables of a method hold when it is to send command *)
Given(m, k, command, v, t) ==
  /\ command = "store" \/ (command = "exists" /\ m # "Delete") => Ready(v, t)
  /\ command = "expireat" => k \in Keys

Frame(c) ==
  /\ Given(op[c], key[c], pc[c], val[c], ttl[c])
  /\ got[c].res = "hit" => got[c].data \in Int

Locals == LocalTypes /\ \A c \in Clients : Frame(c)

IndInv == Clock /\ Memory /\ Locals

-----------------------------------------------------------------------------
(* Arithmetic *)

(* A whole number of seconds is converted to and from ticks unchanged. *)
LEMMA WholeSeconds ==
  ASSUME NEW x \in Nat, x > 0
  PROVE  x * TPS \in Nat /\ x * TPS > 0 /\ Seconds(x * TPS) = x
<1>1. TPS \in Nat /\ TPS > 0
  BY TimeAssumption
<1>2. x * TPS \in Nat /\ x * TPS > 0
  BY <1>1
<1>3. (x * TPS) \div TPS = x
  BY <1>1
<1> QED BY <1>2, <1>3 DEF Seconds

(* Before its ExpiresAt an entry has a positive time to live. *)
LEMMA SignOfTicks ==
  ASSUME NEW x \in Int
  PROVE  /\ x * TPS \in Int
         /\ x * TPS > 0 => x > 0
         /\ x * TPS = 0 => x = 0
         /\ x * TPS < 0 => x < 0
<1>1. TPS \in Nat /\ TPS > 0
  BY TimeAssumption
<1> QED BY <1>1

(* Seconds keeps the sign. *)
LEMMA SecondsFacts ==
  /\ \A t \in Int : Seconds(t) \in Int
  /\ \A t \in Nat : Seconds(t) \in Nat
  /\ Seconds(0) = 0
<1>1. TPS \in Nat /\ TPS > 1
  BY TimeAssumption
<1>2. ASSUME NEW t \in Nat
      PROVE  t \div TPS \in Nat
  BY <1>1
<1>3. 0 \div TPS = 0
  BY <1>1
<1>4. ASSUME NEW t \in Int
      PROVE  Seconds(t) \in Int /\ (t \in Nat => Seconds(t) \in Nat)
  <2>1. CASE t < 0
    <3>1. -t \in Nat
      BY <2>1
    <3>2. (-t) \div TPS \in Nat
      BY <1>2, <3>1
    <3> QED BY <2>1, <3>2 DEF Seconds
  <2>2. CASE ~(t < 0)
    <3>1. t \in Nat
      BY <2>2
    <3> QED BY <1>2, <2>2, <3>1 DEF Seconds
  <2> QED BY <2>1, <2>2
<1> QED BY <1>3, <1>4 DEF Seconds

(* int32 is an integer, and the same one below 2^31. *)
LEMMA Int32Facts ==
  ASSUME NEW s \in Nat
  PROVE  Int32(s) \in Int /\ (s < Half32 => Int32(s) = s)
<1>1. Half32 \in Nat /\ Half32 > 0
  BY TimeAssumption
<1> DEFINE b == 2 * Half32
           a == s + Half32
<1>2. a \in Nat /\ b \in Nat /\ b > 0
  BY <1>1
<1> HIDE DEF a, b
<1>3. a % b \in Int
  BY <1>2
<1> QED BY <1>1, <1>3 DEF Int32, a, b

(* PKCS7 adds at least a byte and at most a block. *)
LEMMA PaddingFacts ==
  ASSUME NEW n \in Nat
  PROVE  Padding(n) \in Int /\ 0 < Padding(n) /\ Padding(n) <= BlockSize
<1>1. BlockSize \in Nat /\ BlockSize > 0
  BY CryptoAssumption
<1>2. n % BlockSize \in Int /\ 0 <= n % BlockSize /\ n % BlockSize < BlockSize
  BY <1>1
<1> QED BY <1>1, <1>2 DEF Padding

-----------------------------------------------------------------------------
(* Values *)

(* What is in time stays in time, as the clock goes on. *)
LEMMA InTimeStays ==
  ASSUME NEW v \in Values, NEW n \in Nat, NEW m \in Nat, n <= m, NEW f
  PROVE  /\ \A t \in Int : Timely(v, t, n, f) => Timely(v, t, m, f)
         /\ Stored(v, n, f) => Stored(v, m, f)
<1>1. v.at \in Int
  BY DEF Values
<1>2. ASSUME NEW t \in Int, Timely(v, t, n, f)
      PROVE  Timely(v, t, m, f)
  <2>1. Excused(v, t, m, f)
    BY <1>1, <1>2 DEF Timely, Excused
  <2>2. t = 0 => v.at <= m
    BY <1>1, <1>2 DEF Timely
  <2>3. ASSUME t > 0
        PROVE  t = EffectiveIn(v.asked, f) /\ v.at <= m + Seconds(t)
    <3>1. t = EffectiveIn(v.asked, f) /\ v.at <= n + Seconds(t)
      BY <1>2, <2>3 DEF Timely
    <3>2. Seconds(t) \in Nat
      BY <2>3, SecondsFacts
    <3> QED BY <1>1, <3>1, <3>2
  <2> QED BY <2>1, <2>2, <2>3 DEF Timely
<1>3. MayLast(v, n, f) => MayLast(v, m, f)
  BY <1>1 DEF MayLast
<1> QED BY <1>2, <1>3 DEF Stored

(* NewGenericCacheEntry and the methods take the same expiration, so what  *)
(* they are to store is in time.                                           *)
LEMMA MadeFacts ==
  ASSUME Clock, NEW via \in {"Set", "Put"}, NEW kind \in {"entry", "plain"},
         NEW d \in Data, NEW exp \in Exps,
         NEW v, v = EntryMade(via, kind, d, exp)
  PROVE  /\ v \in Values /\ v.via = via /\ v.kind = kind
         /\ kind = "entry" => v.data > 0 /\ v.len = v.data /\ v.last = 0
         /\ Effective(exp) \in Int
         /\ Timely(v, Effective(exp), now, conf)
<1> DEFINE t == Effective(exp)
           s == Seconds(t)
           x == IF kind = "plain" THEN 0 ELSE d
           at == IF kind = "plain" THEN 0 ELSE now + s
<1>1. d \in Nat /\ d > 0
  BY CryptoAssumption
<1>2. exp \in Int /\ conf.def \in Int /\ now \in Nat
  BY TimeAssumption DEF Clock
<1>3. /\ t \in Int /\ t = EffectiveIn(exp, conf)
      /\ exp # 0 => t = exp
      /\ exp = 0 => t = conf.def
  BY <1>2 DEF Effective, EffectiveIn
<1>4. v = [via |-> via, kind |-> kind, data |-> x, len |-> x, last |-> 0, at |-> at,
           asked |-> exp, moved |-> FALSE, dies |-> FOREVER]
  BY DEF EntryMade, Value
<1> HIDE DEF t
<1>5. s \in Int /\ (t > 0 => s \in Nat) /\ (t = 0 => s = 0)
  BY <1>3, SecondsFacts
<1>6. x \in Int /\ at \in Int /\ FOREVER \in Int
  BY <1>1, <1>2, <1>5 DEF FOREVER
<1>7. /\ t > 0 => at <= now + s
      /\ t = 0 => at <= now
  BY <1>2, <1>5
<1>8. kind = "entry" => x > 0
  BY <1>1
<1> HIDE DEF x, at
<1>9. /\ v \in Values /\ v.via = via /\ v.kind = kind /\ v.asked = exp /\ v.at = at
      /\ v.data = x /\ v.len = x /\ v.last = 0
  BY <1>2, <1>4, <1>6 DEF Values
<1>10. Excused(v, t, now, conf)
  <2>1. v.via # "AddExistingEntry"
    BY <1>9
  <2> QED BY <1>2, <1>3, <1>9, <2>1 DEF Excused
<1>11. Timely(v, t, now, conf)
  BY <1>3, <1>7, <1>9, <1>10 DEF Timely
<1> QED BY <1>3, <1>8, <1>9, <1>11 DEF t

(* Set makes a value that can be read back. *)
LEMMA SetFacts ==
  ASSUME Clock, NEW kind \in {"entry", "plain"}, NEW d \in Data, NEW exp \in Exps,
         ToEncrypt(kind) => keyAndIV,
         NEW w, w = SetValue(kind, d, exp)
  PROVE  w \in Values /\ Readable(w, conf) /\ Timely(w, Effective(exp), now, conf)
<1> DEFINE v == EntryMade("Set", kind, d, exp)
<1>1. /\ v \in Values /\ v.via = "Set" /\ v.kind = kind
      /\ kind = "entry" => v.data > 0 /\ v.len = v.data /\ v.last = 0
      /\ Timely(v, Effective(exp), now, conf)
  BY MadeFacts
<1> HIDE DEF v
<1>2. CASE ToEncrypt(kind)
  <2>1. w = [v EXCEPT !.kind = "cipher", !.len = @ + Padding(v.len), !.last = Padding(v.len)]
    BY <1>2 DEF SetValue, Encrypted, v
  <2>2. v.data > 0 /\ v.len = v.data /\ v.data \in Int
    BY <1>1, <1>2 DEF ToEncrypt, Values
  <2>3. Padding(v.len) \in Int /\ 0 < Padding(v.len) /\ Padding(v.len) <= BlockSize
    BY <2>2, PaddingFacts
  <2>4. v.len + Padding(v.len) \in Int
    BY <2>2, <2>3
  <2>5. /\ w \in Values /\ w.via = v.via /\ w.at = v.at /\ w.asked = v.asked
        /\ w.kind = "cipher" /\ w.data = v.data
        /\ w.len = v.len + Padding(v.len) /\ w.last = Padding(v.len)
    BY <1>1, <2>1, <2>3, <2>4 DEF Values
  <2>6. Readable(w, conf)
    <3>1. w.data > 0 /\ 0 <= w.last /\ w.last <= BlockSize /\ w.len = w.data + w.last
      BY <2>2, <2>3, <2>5
    <3>2. conf.secret >= BlockSize
      BY <1>2 DEF keyAndIV
    <3> QED BY <2>5, <3>1, <3>2 DEF Readable
  <2>7. Timely(w, Effective(exp), now, conf)
    BY <1>1, <2>5 DEF Timely, Excused
  <2> QED BY <2>5, <2>6, <2>7
<1>3. CASE ~ToEncrypt(kind)
  <2>1. w = v
    BY <1>3 DEF SetValue, v
  <2>2. Readable(v, conf)
    <3>1. CASE kind = "plain"
      BY <1>1, <3>1 DEF Readable
    <3>2. CASE kind = "entry"
      <4>1. ~EncryptData /\ v.data \in Int /\ BlockSize \in Nat
        BY <1>1, <1>3, <3>2, CryptoAssumption DEF ToEncrypt, Values
      <4>2. v.data > 0 /\ 0 <= v.last /\ v.last <= BlockSize /\ v.len = v.data + v.last
        BY <1>1, <3>2, <4>1
      <4> QED BY <4>1, <4>2 DEF Readable
    <3> QED BY <3>1, <3>2
  <2> QED BY <1>1, <2>1, <2>2
<1> QED BY <1>2, <1>3

(* What AddExistingEntry is to store *)
LEMMA ExistingValue ==
  ASSUME NEW d \in Int, NEW at \in Int, NEW t \in Int
  PROVE  /\ Value("AddExistingEntry", "entry", d, at, t) \in Values
         /\ Value("AddExistingEntry", "entry", d, at, t).via = "AddExistingEntry"
         /\ Value("AddExistingEntry", "entry", d, at, t).at = at
         /\ Value("AddExistingEntry", "entry", d, at, t).asked = t
<1>1. FOREVER \in Int /\ 0 \in Int
  BY DEF FOREVER
<1> QED BY <1>1 DEF Value, Values

(* The caller of AddExistingEntry has an entry that it read.  A whole      *)
(* number of seconds is left of it, unless its time is over.               *)
LEMMA ExistingFacts ==
  ASSUME now \in Nat \ {0}, NEW d \in Int, NEW at \in Int,
         NEW t, t = (at - now) * TPS,
         NEW v, v = Value("AddExistingEntry", "entry", d, at, t)
  PROVE  v \in Values /\ Readable(v, conf) /\ t \in Int /\ Timely(v, t, now, conf)
<1> DEFINE x == at - now
<1>1. x \in Int /\ at = now + x /\ t = x * TPS
  OBVIOUS
<1> HIDE DEF x
<1>2. t \in Int /\ (t > 0 => x > 0) /\ (t = 0 => x = 0) /\ (t < 0 => x < 0)
  BY <1>1, SignOfTicks
<1>3. v \in Values /\ v.via = "AddExistingEntry" /\ v.at = at /\ v.asked = t
  BY <1>2, ExistingValue
<1>4. Readable(v, conf)
  BY <1>3 DEF Readable
<1>5. x > 0 => Seconds(t) = x
  BY <1>1, WholeSeconds
<1>6. /\ t > 0 => at <= now + Seconds(t)
      /\ t = 0 => at <= now
      /\ t < 0 => at < now
  BY <1>1, <1>2, <1>5
<1>7. Excused(v, t, now, conf)
  BY <1>3, <1>6 DEF Excused
<1>8. t > 0 => t = EffectiveIn(v.asked, conf)
  BY <1>2, <1>3 DEF EffectiveIn
<1>9. Timely(v, t, now, conf)
  BY <1>3, <1>6, <1>7, <1>8 DEF Timely
<1> QED BY <1>2, <1>3, <1>4, <1>9

(* The store of a value that is in time gives it no time to live only as   *)
(* MortalUnlessAsked allows, and else one that ExpiresAtFirst allows.      *)
LEMMA StoreFacts ==
  ASSUME Clock, NEW v \in Values, NEW e \in Int, Timely(v, e, now, conf),
         NEW t, t = Expiration(e),
         NEW s, s = Int32(Seconds(t)), t > 0 => s > 0,
         NEW w, w = [v EXCEPT !.dies = IF t > 0 THEN now + s ELSE FOREVER]
  PROVE  w \in Values /\ Stored(w, now, conf) /\ (Readable(v, conf) => Readable(w, conf))
<1> DEFINE dies == IF t > 0 THEN now + s ELSE FOREVER
<1>1. /\ e = 0 => t = conf.store
      /\ e = FOREVER => t = 0
      /\ e # 0 /\ e # FOREVER => t = e
  BY DEF Expiration, FOREVER
<1>2. now \in Nat /\ now > 0 /\ conf.store \in Int /\ v.at \in Int
  BY DEF Clock, Values
<1>3. t \in Int
  BY <1>1, <1>2
<1>4. t > 0 => Seconds(t) \in Nat
  BY <1>3, SecondsFacts
<1>5. t > 0 => s \in Int
  BY <1>4, Int32Facts
<1>6. dies \in Int
  BY <1>2, <1>5 DEF FOREVER
<1>7. w = [v EXCEPT !.dies = dies]
  OBVIOUS
<1> HIDE DEF dies
<1>8. /\ w \in Values /\ w.dies = dies /\ w.moved = v.moved
      /\ w.via = v.via /\ w.kind = v.kind /\ w.data = v.data /\ w.len = v.len
      /\ w.last = v.last /\ w.at = v.at /\ w.asked = v.asked
  BY <1>6, <1>7 DEF Values
<1>9. Readable(v, conf) => Readable(w, conf)
  BY <1>8 DEF Readable
<1>10. CASE t > 0
  <2>1. dies = now + s /\ dies # FOREVER /\ dies > now
    BY <1>2, <1>5, <1>10 DEF dies, FOREVER
  <2>2. ASSUME FitsInt32(EffectiveIn(v.asked, conf))
        PROVE  v.at <= dies
    <3>1. CASE e = 0
      <4>1. v.at <= now
        BY <3>1 DEF Timely
      <4> QED BY <1>2, <1>6, <2>1, <4>1
    <3>2. CASE e # 0
      <4>1. t = e
        BY <1>1, <1>10, <3>2
      <4>2. e = EffectiveIn(v.asked, conf) /\ v.at <= now + Seconds(e)
        BY <1>10, <4>1 DEF Timely
      <4>3. s = Seconds(e)
        BY <1>4, <1>10, <2>2, <4>1, <4>2, Int32Facts DEF FitsInt32
      <4> QED BY <2>1, <4>2, <4>3
    <3> QED BY <3>1, <3>2
  <2> QED BY <1>8, <1>9, <2>1, <2>2 DEF Stored
<1>11. CASE ~(t > 0)
  <2>1. dies = FOREVER
    BY <1>11 DEF dies
  <2>2. e < 0 \/ (e = 0 /\ conf.store <= 0)
    BY <1>1, <1>2, <1>11 DEF FOREVER
  <2>3. Excused(v, e, now, conf)
    BY DEF Timely
  <2>4. MayLast(w, now, conf)
    BY <1>2, <1>8, <2>2, <2>3 DEF Excused, MayLast
  <2> QED BY <1>8, <1>9, <2>1, <2>4 DEF Stored
<1> QED BY <1>10, <1>11

(* The value that RedisExpireAt makes of v *)
Moved(v, e) == [v EXCEPT !.dies = e, !.moved = TRUE]

(* RedisExpireAt leaves the data, and gives the value a time to live. *)
LEMMA MovedFacts ==
  ASSUME now \in Nat \ {0}, NEW v \in Values, NEW e \in Int, e > now,
         Readable(v, conf)
  PROVE  Moved(v, e) \in Values /\ Stored(Moved(v, e), now, conf) /\ Readable(Moved(v, e), conf)
<1> DEFINE w == Moved(v, e)
<1>1. /\ w \in Values /\ w.dies = e /\ w.moved
      /\ w.via = v.via /\ w.kind = v.kind /\ w.data = v.data /\ w.len = v.len
      /\ w.last = v.last
  BY DEF Values, Moved
<1>2. e # FOREVER
  BY DEF FOREVER
<1> HIDE DEF w
<1>3. w \in Values /\ Stored(w, now, conf) /\ Readable(w, conf)
  BY <1>1, <1>2 DEF Stored, Readable
<1> QED BY <1>3 DEF w

(* What Get and Exists return *)
LEMMA DecodedFacts ==
  ASSUME NEW v \in Values \cup {None}
  PROVE  /\ Decoded(v) \in Results
         /\ Decoded(v).res = "hit" => Decoded(v).data \in Int
<1>1. NothingRead \in Results
  BY DEF NothingRead, Results
<1>2. ASSUME NEW r \in {"miss", "error", "panic"}
      PROVE  /\ [NothingRead EXCEPT !.res = r] \in Results
             /\ [NothingRead EXCEPT !.res = r].res # "hit"
  BY DEF NothingRead, Results
<1>3. CASE Decoded(v) \in {[NothingRead EXCEPT !.res = r] : r \in {"miss", "error", "panic"}}
  BY <1>2, <1>3
<1>4. CASE v \in Values /\ Decoded(v) = [res |-> "hit", data |-> v.len - v.last, at |-> v.at]
  <2>1. v.len \in Int /\ v.last \in Int /\ v.at \in Int
    BY <1>4 DEF Values
  <2>2. v.len - v.last \in Int
    BY <2>1
  <2> QED BY <1>4, <2>1, <2>2 DEF Results
<1> QED BY <1>3, <1>4 DEF Decoded

(* A readable value is read back. *)
LEMMA ReadBack ==
  ASSUME Clock, NEW v \in Values, v # None, Readable(v, conf), v.via = "Set", v.kind # "plain"
  PROVE  Decoded(v) = [res |-> "hit", data |-> v.data, at |-> v.at]
<1>1. /\ v.data \in Int /\ v.len \in Int /\ v.last \in Int
  BY DEF Values
<1>2. /\ v.data > 0 /\ v.last <= BlockSize /\ v.len = v.data + v.last
      /\ EncryptData => v.kind = "cipher" /\ conf.secret >= BlockSize
  BY DEF Readable
<1>3. v.last < v.len /\ v.len - v.last = v.data
  BY <1>1, <1>2
<1>4. Decrypts(v) /\ ~(EncryptData /\ ~(keyAndIV /\ Unpads(v.len, v.last)))
  BY <1>2, <1>3 DEF Decrypts, keyAndIV, Unpads
<1> QED BY <1>3, <1>4 DEF Decoded

-----------------------------------------------------------------------------
(* The primary and the replica *)

(* One key of the primary changes. *)
LEMMA EntryKeeps ==
  ASSUME Memory, NEW k, NEW w,
         \/ w = None
         \/ w \in Values /\ Readable(w, conf) /\ Stored(w, now, conf),
         NEW new, new = [db EXCEPT ![k] = w]
  PROVE  new \in Contents /\ AllReadable(new, conf) /\ AllStored(new, now, conf)
<1>1. db \in Contents /\ AllReadable(db, conf) /\ AllStored(db, now, conf)
  BY DEF Memory
<1>2. new \in Contents
  BY <1>1 DEF Contents
<1>3. ASSUME NEW l \in Keys
      PROVE  new[l] = db[l] \/ new[l] = w
  BY <1>1 DEF Contents
<1>4. AllReadable(new, conf)
  BY <1>1, <1>3 DEF AllReadable
<1>5. AllStored(new, now, conf)
  BY <1>1, <1>3 DEF AllStored
<1> QED BY <1>2, <1>4, <1>5

(* The replica is to take on what the primary has. *)
LEMMA PrimaryKeeps ==
  ASSUME Memory, NEW new \in Contents, AllReadable(new, conf), AllStored(new, now, conf),
         Primary(new), conf' = conf, now' = now
  PROVE  Memory'
<1>1. db' = new /\ rep' = rep
  BY DEF Primary
<1>2. log \in Seq(Contents) /\ \A i \in 1..Len(log) : AllReadable(log[i], conf)
  BY DEF Memory
<1>3. log' \in Seq(Contents) /\ \A i \in 1..Len(log') : AllReadable(log'[i], conf)
  <2>1. CASE log' = log
    BY <1>2, <2>1
  <2>2. CASE log' = Append(log, new)
    <3>1. /\ log' \in Seq(Contents) /\ Len(log') = Len(log) + 1 /\ Len(log) \in Nat
          /\ \A i \in 1..Len(log) : log'[i] = log[i]
          /\ log'[Len(log) + 1] = new
      BY <1>2, <2>2, AppendProperties
    <3>2. ASSUME NEW i \in 1..Len(log')
          PROVE  AllReadable(log'[i], conf)
      <4>1. CASE i \in 1..Len(log)
        BY <1>2, <3>1, <4>1
      <4>2. CASE i = Len(log) + 1
        BY <3>1, <4>2
      <4> QED BY <3>1, <4>1, <4>2
    <3> QED BY <3>1, <3>2
  <2> QED BY <2>1, <2>2 DEF Primary
<1> QED BY <1>1, <1>3 DEF Memory

(* A key that expires is only gone. *)
LEMMA AliveKeeps ==
  ASSUME NEW m \in Contents
  PROVE  /\ Alive(m) \in Contents
         /\ \A f : AllReadable(m, f) => AllReadable(Alive(m), f)
         /\ \A n, f : AllStored(m, n, f) => AllStored(Alive(m), n, f)
<1>1. ASSUME NEW k \in Keys
      PROVE  Alive(m)[k] = None \/ Alive(m)[k] = m[k]
  BY DEF Alive
<1>2. Alive(m) \in Contents
  BY DEF Alive, Contents
<1>3. ASSUME NEW f, AllReadable(m, f)
      PROVE  AllReadable(Alive(m), f)
  BY <1>1, <1>3 DEF AllReadable
<1>4. ASSUME NEW n, NEW f, AllStored(m, n, f)
      PROVE  AllStored(Alive(m), n, f)
  BY <1>1, <1>4 DEF AllStored
<1> QED BY <1>2, <1>3, <1>4

-----------------------------------------------------------------------------
(* The local variables *)

(* The first step of a method gives its command what it needs. *)
LEMMA BeginKeeps ==
  ASSUME IndInv, NEW c \in Clients, NEW m, NEW k, NEW command, NEW v, NEW t,
         Begin(c, m, k, command, v, t), t \in Int,
         Given(m, k, command, v, t)
  PROVE  IndInv'
<1>1. /\ op' = [op EXCEPT ![c] = m] /\ pc' = [pc EXCEPT ![c] = command]
      /\ key' = [key EXCEPT ![c] = k] /\ val' = [val EXCEPT ![c] = v]
      /\ ttl' = [ttl EXCEPT ![c] = t]
      /\ UNCHANGED <<conf, now, db, rep, log, got>>
  BY DEF Begin
<1>2. Clock /\ Memory /\ LocalTypes /\ \A d \in Clients : Frame(d)
  BY DEF IndInv, Locals
<1>3. LocalTypes'
  BY <1>1, <1>2 DEF LocalTypes
<1>4. ASSUME NEW d \in Clients, d # c
      PROVE  Frame(d)'
  <2>1. /\ op'[d] = op[d] /\ pc'[d] = pc[d] /\ key'[d] = key[d] /\ val'[d] = val[d]
        /\ ttl'[d] = ttl[d]
    BY <1>1, <1>2, <1>4 DEF LocalTypes
  <2> QED BY <1>1, <1>2, <2>1 DEF Frame, Given, Ready
<1>5. Frame(c)'
  <2>1. /\ op'[c] = m /\ pc'[c] = command /\ key'[c] = k /\ val'[c] = v /\ ttl'[c] = t
    BY <1>1, <1>2 DEF LocalTypes
  <2>2. Given(op[c], key[c], pc[c], val[c], ttl[c])'
    BY <1>1, <2>1 DEF Given, Ready
  <2> QED BY <1>1, <1>2, <2>2 DEF Frame
<1>6. Clock' /\ Memory'
  BY <1>1, <1>2 DEF Clock, Memory
<1> QED BY <1>3, <1>4, <1>5, <1>6 DEF IndInv, Locals

(* A method that returns needs nothing. *)
LEMMA ReturnKeeps ==
  ASSUME Locals, NEW c \in Clients, Return(c)
  PROVE  Locals'
<1>1. /\ op' = [op EXCEPT ![c] = "none"] /\ pc' = [pc EXCEPT ![c] = "idle"]
      /\ key' = [key EXCEPT ![c] = None] /\ val' = [val EXCEPT ![c] = None]
      /\ ttl' = [ttl EXCEPT ![c] = 0]
      /\ UNCHANGED <<conf, now, got>>
  BY DEF Return
<1>2. LocalTypes /\ \A d \in Clients : Frame(d)
  BY DEF Locals
<1>3. LocalTypes'
  BY <1>1, <1>2 DEF LocalTypes
<1>4. ASSUME NEW d \in Clients, d # c
      PROVE  Frame(d)'
  <2>1. /\ op'[d] = op[d] /\ pc'[d] = pc[d] /\ key'[d] = key[d] /\ val'[d] = val[d]
        /\ ttl'[d] = ttl[d]
    BY <1>1, <1>2, <1>4 DEF LocalTypes
  <2> QED BY <1>1, <1>2, <2>1 DEF Frame, Given, Ready
<1>5. Frame(c)'
  <2>1. pc'[c] = "idle"
    BY <1>1, <1>2 DEF LocalTypes
  <2> QED BY <1>1, <1>2, <2>1 DEF Frame, Given
<1> QED BY <1>3, <1>4, <1>5 DEF Locals

(* The first steps of Set, Add and Replace *)
LEMMA PutKeeps ==
  ASSUME IndInv, NEW c \in Clients, NEW k \in Keys, Put(c, k)
  PROVE  IndInv'
<1>1. Clock
  BY DEF IndInv
<1>2. PICK kind \in {"entry", "plain"}, d \in Data, exp \in Exps :
        Set(c, k, kind, d, exp) \/ Add(c, k, kind, d, exp) \/ Replace(c, k, kind, d, exp)
  BY DEF Put
<1> DEFINE t == Effective(exp)
           v == EntryMade("Put", kind, d, exp)
           w == SetValue(kind, d, exp)
<1>3. t \in Int /\ v \in Values /\ v.via = "Put" /\ Timely(v, t, now, conf)
  BY <1>1, MadeFacts
<1>4. CASE Set(c, k, kind, d, exp)
  <2>1. Begin(c, "Set", k, "store", w, t) /\ (ToEncrypt(kind) => keyAndIV)
    BY <1>4 DEF Set
  <2>2. Ready(w, t)
    BY <1>1, <2>1, SetFacts DEF Ready
  <2> HIDE DEF w, t
  <2>3. Given("Set", k, "store", w, t)
    BY <2>2 DEF Given
  <2> QED BY <1>3, <2>1, <2>3, BeginKeeps
<1>5. CASE Add(c, k, kind, d, exp) \/ Replace(c, k, kind, d, exp)
  <2>1. PICK m : m \in {"Add", "Replace"} /\ Begin(c, m, k, "exists", v, t)
    BY <1>5 DEF Add, Replace
  <2> HIDE DEF v, t
  <2>2. Ready(v, t)
    BY <1>3 DEF Ready, Readable
  <2>3. Given(m, k, "exists", v, t)
    BY <2>2 DEF Given
  <2> QED BY <1>3, <2>1, <2>3, BeginKeeps
<1> QED BY <1>2, <1>4, <1>5

(* The first steps of the other methods that send commands *)
LEMMA CallKeeps ==
  ASSUME IndInv, NEW c \in Clients
  PROVE  /\ Flush(c) => IndInv'
         /\ \A k \in Keys : Delete(c, k) \/ AddExistingEntry(c, k) => IndInv'
         /\ \A k \in Keys, t \in Epochs : RedisExpireAt(c, k, t) => IndInv'
<1>1. ASSUME Flush(c) PROVE IndInv'
  <2>1. Given("Flush", None, "flushall", None, 0)
    BY DEF Given
  <2> QED BY <1>1, <2>1, BeginKeeps DEF Flush
<1>2. ASSUME NEW k \in Keys, Delete(c, k) PROVE IndInv'
  <2>1. Given("Delete", k, "exists", None, 0)
    BY DEF Given
  <2> QED BY <1>2, <2>1, BeginKeeps DEF Delete
<1>3. ASSUME NEW k \in Keys, AddExistingEntry(c, k) PROVE IndInv'
  <2> DEFINE t == (got[c].at - now) * TPS
             v == Value("AddExistingEntry", "entry", got[c].data, got[c].at, t)
  <2>1. got[c].data \in Int /\ got[c].at \in Int /\ now \in Nat \ {0}
    BY <1>3 DEF AddExistingEntry, IndInv, Locals, Frame, LocalTypes, Results, Clock
  <2>2. Ready(v, t) /\ t \in Int
    <3>1. v \in Values /\ Readable(v, conf) /\ t \in Int /\ Timely(v, t, now, conf)
      BY <2>1, ExistingFacts
    <3> QED BY <3>1 DEF Ready
  <2>3. Begin(c, "AddExistingEntry", k, "store", v, t)
    BY <1>3 DEF AddExistingEntry
  <2> HIDE DEF v, t
  <2>4. Given("AddExistingEntry", k, "store", v, t)
    BY <2>2 DEF Given
  <2> QED BY <2>2, <2>3, <2>4, BeginKeeps
<1>4. ASSUME NEW k \in Keys, NEW t \in Epochs, RedisExpireAt(c, k, t) PROVE IndInv'
  <2>1. t \in Int
    BY TimeAssumption
  <2>2. Given("RedisExpireAt", k, "expireat", None, t)
    BY DEF Given
  <2> QED BY <1>4, <2>1, <2>2, BeginKeeps DEF RedisExpireAt
<1> QED BY <1>1, <1>2, <1>3, <1>4

-----------------------------------------------------------------------------
(* The steps *)

(* A command that changes the primary ends its method. *)
LEMMA ChangeKeeps ==
  ASSUME IndInv, NEW c \in Clients, NEW new \in Contents, AllReadable(new, conf),
         AllStored(new, now, conf), Primary(new), Return(c)
  PROVE  IndInv'
<1>1. Clock /\ Memory /\ Locals /\ conf' = conf /\ now' = now
  BY DEF IndInv, Return
<1>2. Clock' /\ Memory'
  BY <1>1, PrimaryKeeps DEF Clock
<1> QED BY <1>1, <1>2, ReturnKeeps DEF IndInv

(* The commands *)
LEMMA CommandKeeps ==
  ASSUME IndInv, NEW c \in Clients, Command(c)
  PROVE  IndInv'
<1>1. /\ Memory /\ LocalTypes /\ Frame(c) /\ now \in Nat \ {0}
      /\ ttl[c] \in Int /\ db \in Contents
  BY DEF IndInv, Locals, Clock, Memory, LocalTypes
<1>2. CASE Exists(c)
  <2>1. /\ UNCHANGED <<conf, now, db, rep, log, op, key, val, ttl, got>>
        /\ pc[c] = "exists"
        /\ pc' = [pc EXCEPT ![c] = IF op[c] = "Delete" THEN "del" ELSE "store"]
    BY <1>2 DEF Exists
  <2>2. Clock' /\ Memory' /\ LocalTypes'
    BY <2>1 DEF IndInv, Clock, Memory, Locals, LocalTypes
  <2>3. ASSUME NEW d \in Clients, d # c
        PROVE  Frame(d)'
    <3>1. Frame(d) /\ pc'[d] = pc[d]
      BY <1>1, <2>1, <2>3 DEF IndInv, Locals, LocalTypes
    <3> QED BY <2>1, <3>1 DEF Frame, Given, Ready
  <2>4. Frame(c)'
    <3>1. pc'[c] = IF op[c] = "Delete" THEN "del" ELSE "store"
      BY <1>1, <2>1 DEF LocalTypes
    <3>2. op[c] # "Delete" => Ready(val[c], ttl[c])
      BY <1>1, <2>1 DEF Frame, Given
    <3>3. op[c] # "Delete" => Ready(val[c], ttl[c])'
      BY <2>1, <3>2 DEF Ready
    <3>4. Given(op[c], key[c], pc[c], val[c], ttl[c])'
      <4>1. CASE op[c] = "Delete"
        BY <2>1, <3>1, <4>1 DEF Given
      <4>2. CASE op[c] # "Delete"
        BY <2>1, <3>1, <3>3, <4>2 DEF Given
      <4> QED BY <4>1, <4>2
    <3>5. got[c].res = "hit" => got[c].data \in Int
      BY <1>1 DEF Frame
    <3> QED BY <2>1, <3>4, <3>5 DEF Frame
  <2> QED BY <2>2, <2>3, <2>4 DEF IndInv, Locals
<1>3. CASE NotStored(c) \/ StoreRefused(c) \/ Lost(c)
  <2>1. Return(c) /\ UNCHANGED <<db, rep, log, conf, now>>
    BY <1>3 DEF NotStored, StoreRefused, Lost, Return
  <2>2. Clock' /\ Memory'
    BY <2>1 DEF IndInv, Clock, Memory
  <2> QED BY <2>1, <2>2, ReturnKeeps DEF IndInv
<1>4. CASE Store(c)
  <2> DEFINE t == Expiration(ttl[c])
             s == Int32(Seconds(t))
             w == [val[c] EXCEPT !.dies = IF t > 0 THEN now + s ELSE FOREVER]
             new == [db EXCEPT ![key[c]] = w]
  <2>1. pc[c] = "store" /\ (t > 0 => s > 0) /\ Primary(new) /\ Return(c)
    BY <1>4 DEF Store
  <2>2. Ready(val[c], ttl[c])
    BY <1>1, <2>1 DEF Frame, Given
  <2>3. w \in Values /\ Stored(w, now, conf) /\ Readable(w, conf)
    BY <1>1, <2>1, <2>2, StoreFacts DEF Ready, IndInv
  <2> HIDE DEF w
  <2>4. new \in Contents /\ AllReadable(new, conf) /\ AllStored(new, now, conf)
    BY <1>1, <2>3, EntryKeeps
  <2> HIDE DEF new
  <2> QED BY <2>1, <2>4, ChangeKeeps
<1>5. CASE Del(c)
  <2> DEFINE new == [db EXCEPT ![key[c]] = None]
  <2>1. Primary(new) /\ Return(c)
    BY <1>5 DEF Del
  <2>2. new \in Contents /\ AllReadable(new, conf) /\ AllStored(new, now, conf)
    BY <1>1, EntryKeeps
  <2> HIDE DEF new
  <2> QED BY <2>1, <2>2, ChangeKeeps
<1>6. CASE ExpireAt(c)
  <2> DEFINE v == db[key[c]]
             moved == Moved(v, ttl[c])
             w == IF v = None \/ ttl[c] <= now THEN None ELSE moved
             new == [db EXCEPT ![key[c]] = w]
  <2>1. pc[c] = "expireat" /\ Primary(new) /\ Return(c)
    BY <1>6 DEF ExpireAt, Moved
  <2>2. key[c] \in Keys
    BY <1>1, <2>1 DEF Frame, Given
  <2>3. v # None => v \in Values /\ Readable(v, conf)
    BY <1>1, <2>2 DEF Memory, Contents, AllReadable
  <2>4. w = None \/ (w \in Values /\ Readable(w, conf) /\ Stored(w, now, conf))
    <3> HIDE DEF v
    <3>1. CASE v = None \/ ttl[c] <= now
      BY <3>1
    <3>2. CASE v # None /\ ttl[c] > now
      <4>1. /\ now \in Nat \ {0} /\ ttl[c] \in Int /\ ttl[c] > now
            /\ v \in Values /\ Readable(v, conf)
        BY <1>1, <2>3, <3>2
      <4>2. moved \in Values /\ Stored(moved, now, conf) /\ Readable(moved, conf)
        BY <4>1, MovedFacts
      <4>3. w = moved
        BY <3>2, <4>1
      <4> QED BY <4>2, <4>3
    <3> QED BY <1>1, <3>1, <3>2
  <2> HIDE DEF w
  <2>5. new \in Contents /\ AllReadable(new, conf) /\ AllStored(new, now, conf)
    BY <1>1, <2>4, EntryKeeps
  <2> HIDE DEF new
  <2> QED BY <2>1, <2>5, ChangeKeeps
<1>7. CASE FlushAll(c)
  <2> DEFINE new == [k \in Keys |-> None]
  <2>1. Primary(new) /\ Return(c)
    BY <1>7 DEF FlushAll
  <2>2. new \in Contents /\ AllReadable(new, conf) /\ AllStored(new, now, conf)
    BY DEF Contents, AllReadable, AllStored
  <2> HIDE DEF new
  <2> QED BY <2>1, <2>2, ChangeKeeps
<1> QED BY <1>2, <1>3, <1>4, <1>5, <1>6, <1>7 DEF Command

(* Get and Exists *)
LEMMA ReadKeeps ==
  ASSUME IndInv, NEW c \in Clients, NEW k \in Keys, GetEntry(c, k) \/ ExistsEntry(c, k)
  PROVE  IndInv'
<1>1. db[k] \in Values \cup {None} /\ rep[k] \in Values \cup {None}
  BY DEF IndInv, Memory, Contents
<1>2. /\ UNCHANGED <<conf, now, db, rep, log, op, pc, key, val, ttl>>
      /\ \E v \in {db[k], rep[k], None} : got' = [got EXCEPT ![c] = Decoded(v)]
  BY DEF GetEntry, ExistsEntry, Read
<1>3. PICK v \in Values \cup {None} : got' = [got EXCEPT ![c] = Decoded(v)]
  BY <1>1, <1>2
<1>4. Decoded(v) \in Results /\ (Decoded(v).res = "hit" => Decoded(v).data \in Int)
  BY DecodedFacts
<1>5. Clock' /\ Memory' /\ LocalTypes'
  BY <1>2, <1>3, <1>4 DEF IndInv, Clock, Memory, Locals, LocalTypes
<1>6. ASSUME NEW d \in Clients
      PROVE  Frame(d)'
  <2>1. Frame(d) /\ (got'[d] = got[d] \/ got'[d] = Decoded(v))
    BY <1>3 DEF IndInv, Locals, LocalTypes
  <2> QED BY <1>2, <1>4, <2>1 DEF Frame, Given, Ready
<1> QED BY <1>5, <1>6 DEF IndInv, Locals

(* Time passes for what waits to be stored and for what was stored. *)
LEMMA TickKeeps ==
  ASSUME IndInv, Tick
  PROVE  IndInv'
<1>1. /\ now' = now + 1
      /\ UNCHANGED <<conf, db, rep, log, op, pc, key, val, ttl, got>>
  BY DEF Tick
<1>2. now \in Nat /\ now' \in Nat /\ now' # 0 /\ now <= now'
  BY <1>1 DEF IndInv, Clock
<1>3. Clock'
  BY <1>1, <1>2 DEF IndInv, Clock
<1>4. AllStored(db, now', conf)
  <2>1. AllStored(db, now, conf) /\ db \in Contents
    BY DEF IndInv, Memory
  <2>2. ASSUME NEW k \in Keys, db[k] # None
        PROVE  Stored(db[k], now', conf)
    <3>1. db[k] \in Values /\ Stored(db[k], now, conf)
      BY <2>1, <2>2 DEF AllStored, Contents
    <3> QED BY <1>2, <3>1, InTimeStays
  <2> QED BY <2>2 DEF AllStored
<1>5. Memory'
  BY <1>1, <1>4 DEF IndInv, Memory
<1>6. LocalTypes'
  BY <1>1 DEF IndInv, Locals, LocalTypes
<1>7. ASSUME NEW c \in Clients
      PROVE  Frame(c)'
  <2>1. Frame(c) /\ ttl[c] \in Int
    BY DEF IndInv, Locals, LocalTypes
  <2>2. Ready(val[c], ttl[c]) => Ready(val[c], ttl[c])'
    BY <1>1, <1>2, <2>1, InTimeStays DEF Ready
  <2> QED BY <1>1, <2>1, <2>2 DEF Frame, Given
<1> QED BY <1>3, <1>5, <1>6, <1>7 DEF IndInv, Locals

(* The replica takes on a state of the primary, and keys expire. *)
LEMMA RedisKeeps ==
  ASSUME IndInv, Replicate \/ Expire
  PROVE  IndInv'
<1>1. UNCHANGED <<conf, now, op, pc, key, val, ttl, got>>
  BY DEF Replicate, Expire
<1>2. Clock' /\ Locals'
  <2>1. ASSUME NEW c \in Clients, Frame(c)
        PROVE  Frame(c)'
    BY <1>1, <2>1 DEF Frame, Given, Ready
  <2> QED BY <1>1, <2>1 DEF IndInv, Clock, Locals, LocalTypes
<1>3. /\ db \in Contents /\ AllReadable(db, conf) /\ AllStored(db, now, conf)
      /\ rep \in Contents /\ AllReadable(rep, conf)
      /\ log \in Seq(Contents) /\ \A i \in 1..Len(log) : AllReadable(log[i], conf)
  BY DEF IndInv, Memory
<1>4. CASE Replicate
  <2>1. /\ log # <<>> /\ rep' = Alive(Head(log)) /\ log' = Tail(log) /\ db' = db
    BY <1>4 DEF Replicate
  <2>2. /\ Len(log) \in Nat /\ Len(log) > 0 /\ Head(log) = log[1] /\ Head(log) \in Contents
        /\ Tail(log) \in Seq(Contents) /\ Len(Tail(log)) = Len(log) - 1
        /\ \A i \in 1..Len(Tail(log)) : Tail(log)[i] = log[i + 1]
    BY <1>3, <2>1, HeadTailProperties, EmptySeq, LenProperties, ElementOfSeq
  <2>3. AllReadable(Head(log), conf)
    BY <1>3, <2>2
  <2>4. rep' \in Contents /\ AllReadable(rep', conf)
    BY <2>1, <2>2, <2>3, AliveKeeps
  <2>5. \A i \in 1..Len(log') : AllReadable(log'[i], conf)
    BY <1>3, <2>1, <2>2
  <2> QED BY <1>1, <1>2, <1>3, <2>1, <2>2, <2>4, <2>5 DEF IndInv, Memory
<1>5. CASE Expire
  <2>1. db' = Alive(db) /\ rep' = Alive(rep) /\ log' = log
    BY <1>5 DEF Expire
  <2>2. /\ db' \in Contents /\ AllReadable(db', conf) /\ AllStored(db', now, conf)
        /\ rep' \in Contents /\ AllReadable(rep', conf)
    BY <1>3, <2>1, AliveKeeps
  <2> QED BY <1>1, <1>2, <1>3, <2>1, <2>2 DEF IndInv, Memory
<1> QED BY <1>4, <1>5

(* The invariant holds of two empty databases. *)
LEMMA InitHolds == Init => IndInv
<1> SUFFICES ASSUME Init PROVE IndInv
  OBVIOUS
<1>1. Clock
  BY TimeAssumption, ConfigAssumption DEF Init, Clock
<1>2. Memory
  <2>1. ASSUME NEW m, m = [k \in Keys |-> None]
        PROVE  m \in Contents /\ AllReadable(m, conf) /\ AllStored(m, now, conf)
    BY <2>1 DEF Contents, AllReadable, AllStored
  <2>2. log \in Seq(Contents) /\ Len(log) = 0
    BY EmptySeq DEF Init
  <2> QED BY <2>1, <2>2 DEF Init, Memory
<1>3. LocalTypes
  BY DEF Init, LocalTypes, NothingRead, Results
<1>4. \A c \in Clients : Frame(c)
  BY DEF Init, Frame, Given, NothingRead
<1> QED BY <1>1, <1>2, <1>3, <1>4 DEF IndInv, Locals

(* Every step preserves the invariant. *)
LEMMA NextPreserves == IndInv /\ [Next]_vars => IndInv'
<1> SUFFICES ASSUME IndInv, [Next]_vars PROVE IndInv'
  OBVIOUS
<1>1. CASE UNCHANGED vars
  <2>1. UNCHANGED <<conf, now, db, rep, log, op, pc, key, val, ttl, got>>
    BY <1>1 DEF vars
  <2>2. ASSUME NEW c \in Clients, Frame(c)
        PROVE  Frame(c)'
    BY <2>1, <2>2 DEF Frame, Given, Ready
  <2> QED BY <2>1, <2>2 DEF IndInv, Clock, Memory, Locals, LocalTypes
<1> QED BY <1>1, PutKeeps, CallKeeps, ReadKeeps, CommandKeeps, RedisKeeps, TickKeeps
        DEF Next

(* The inductive invariant holds. *)
THEOREM Invariance == Spec => []IndInv
BY InitHolds, NextPreserves, PTL DEF Spec

(* CryptoTransparent, for every length of the data, block size and shared  *)
(* conf: what encryptEntry pads, Unpadding finds, even a whole block.    *)
THEOREM DataReadBack == Spec => []CryptoTransparent
<1>1. IndInv => CryptoTransparent
  <2> SUFFICES ASSUME IndInv, NEW m \in {db, rep}, NEW k \in Keys,
                      m[k] # None, m[k].via = "Set", m[k].kind # "plain"
               PROVE  Decoded(m[k]) = [res |-> "hit", data |-> m[k].data, at |-> m[k].at]
    BY DEF CryptoTransparent
  <2>1. Clock /\ m[k] \in Values /\ Readable(m[k], conf)
    BY DEF IndInv, Memory, Contents, AllReadable
  <2> QED BY <2>1, ReadBack
<1> QED BY <1>1, Invariance, PTL

(* MortalUnlessAsked, for all defaults and expirations, however long a     *)
(* store is delayed.                                                       *)
THEOREM ImmortalOnRequest == Spec => []MortalUnlessAsked
<1>1. IndInv => MortalUnlessAsked
  BY DEF IndInv, Memory, AllStored, Stored, MayLast, MortalUnlessAsked, DefaultIsNone
<1> QED BY <1>1, Invariance, PTL

(* ExpiresAtFirst, for all defaults and every resolution of the clock: the *)
(* entry and the time to live are cut to whole seconds in the same way,    *)
(* and the entry's time begins first.                                      *)
THEOREM EntryExpiresFirst == Spec => []ExpiresAtFirst
<1>1. IndInv => ExpiresAtFirst
  BY DEF IndInv, Memory, AllStored, Stored, Effective, EffectiveIn, ExpiresAtFirst
<1> QED BY <1>1, Invariance, PTL
=============================================================================
