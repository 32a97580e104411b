---------------------------- MODULE GenericCache ----------------------------
(***************************************************************************)
(* GenericCache (generic.go) over Redis: clients that share a primary, to  *)
(* which c.Cache is connected, and a replica, to which c.ReadCache is if   *)
(* the cache was made with NewCacheWithMultiPools.  Each method is the     *)
(* sequence of Redis commands that RedisStore sends; a command can be      *)
(* lost.  The methods that count are in module RedisCounter.               *)
(*                                                                         *)
(* The clock counts seconds, expirations count ticks, TPS to a second.     *)
(* Half32 is 2^31 in the program and small in the checked instances.       *)
(***************************************************************************)
EXTENDS Integers, Sequences

CONSTANTS
  Keys,
  Clients,
  Data,          \* what callers store, by the length of its encoding
  None,
  EncryptData,   \* c.EncryptData
  BlockSize,     \* the block size of AES, 16 in the program
  HasReadCache,  \* c.ReadCache # nil
  Ops,           \* the methods called
  TPS,           \* ticks per second
  Half32,        \* half the range of an int32
  Configs,       \* the ways the cache may be made, see conf
  Exps,          \* the expirations given; 0 is DEFAULT
  Epochs,        \* the times given to RedisExpireAt
  Start,         \* the time the model begins
  MaxNow,        \* bound on the clock
  MaxLag         \* bound on how many writes the replica is behind

FOREVER == -1    \* persistence.FOREVER

ASSUME TimeAssumption ==
  /\ TPS \in Nat \ {0, 1}
  /\ Half32 \in Nat \ {0}
  /\ Exps \subseteq Int
  /\ Epochs \subseteq Nat
  /\ Start \in Nat \ {0}
  /\ MaxNow \in Nat
  /\ MaxLag \in Nat \ {0}

(* The defaults are whatever the constructors were given: 0 in the tests.  *)
ASSUME ConfigAssumption ==
  Configs \subseteq [secret : Nat, def : Int, store : Int]

(* An encoding has at least one byte, and a byte holds the padding length. *)
ASSUME CryptoAssumption ==
  /\ Data \subseteq Nat \ {0}
  /\ BlockSize \in 1..255

VARIABLES
  conf,     \* the length of c.sharedSecret; def is c.DefaultExp, and store
            \* the RedisStore's own defaultExpiration
  now,      \* the clock
  db,       \* the primary
  rep,      \* the replica
  log,      \* the states of the primary that the replica has yet to take on
  op,       \* the method each client is in
  pc,       \* the command it sends next
  key,      \* its argument
  val,      \* the value it is to store
  ttl,      \* the expiration it is to store it with
  got       \* what its last Get or Exists returned

vars == <<conf, now, db, rep, log, op, pc, key, val, ttl, got>>

(* A serialized value: a GenericCacheEntry with its ExpiresAt, its data in *)
(* plaintext or encrypted, or something else; len is the length of the     *)
(* data and last the last byte before encryption.  Redis keeps it until    *)
(* dies.  Four fields are not the program's: the method that stored it     *)
(* (Put for Add and Replace), the data and the expiration it was given,    *)
(* and whether RedisExpireAt moved the time to die.                        *)
Value(via, kind, d, at, asked) ==
  [via |-> via, kind |-> kind, data |-> d, len |-> d, last |-> 0, at |-> at,
   asked |-> asked, moved |-> FALSE, dies |-> FOREVER]

NothingRead == [res |-> "none", data |-> None, at |-> 0]

Init ==
  /\ conf \in Configs
  /\ now = Start
  /\ db = [k \in Keys |-> None]
  /\ rep = [k \in Keys |-> None]
  /\ log = <<>>
  /\ op = [c \in Clients |-> "none"]
  /\ pc = [c \in Clients |-> "idle"]
  /\ key = [c \in Clients |-> None]
  /\ val = [c \in Clients |-> None]
  /\ ttl = [c \in Clients |-> 0]
  /\ got = [c \in Clients |-> NothingRead]

-----------------------------------------------------------------------------
(* Conversions *)

Seconds(t) == IF t < 0 THEN -((-t) \div TPS) ELSE t \div TPS

(* int32(s), for a number of seconds that is not negative *)
Int32(s) == IF s < Half32 THEN s ELSE ((s + Half32) % (2 * Half32)) - Half32

Effective(exp) == IF exp # 0 THEN exp ELSE conf.def

(* What the caller gives: NewGenericCacheEntry's result, or something that *)
(* has no ExpiresAt, and whose length nothing depends on.                  *)
EntryMade(via, kind, d, exp) ==
  Value(via, kind, IF kind = "plain" THEN 0 ELSE d,
        IF kind = "plain" THEN 0 ELSE now + Seconds(Effective(exp)), exp)

(* PKCS7.Padding: the number of bytes added, which is each one's value *)
Padding(len) == BlockSize - (len % BlockSize)

(* mutant: a whole block of padding is an error *)
UnpadsLess(len, last) == last < len /\ last < BlockSize

(* PKCS7.Unpadding finds no error, and takes off the last bytes. *)
Unpads(len, last) == last < len /\ last <= BlockSize

(* keyAndIV finds no error: the key and the IV are as long as a block. *)
keyAndIV == conf.secret >= BlockSize

(* encryptEntry *)
Encrypted(v) ==
  LET p == Padding(v.len)
  IN  [v EXCEPT !.kind = "cipher", !.len = @ + p, !.last = p]

(* Set encrypts the data of an entry, which it makes anew. *)
ToEncrypt(kind) == EncryptData /\ kind = "entry"

SetValue(kind, d, exp) ==
  LET v == EntryMade("Set", kind, d, exp)
  IN  IF ToEncrypt(kind) THEN Encrypted(v) ELSE v

(* Get asserts that the data it is to decrypt is a []byte; the data that   *)
(* callers store is of another type.                                       *)
Decrypts(v) == EncryptData => v.kind = "cipher"

(* What Get makes of a value that it reads into a GenericCacheEntry. *)
Decoded(v) ==
  LET Is(res) == [NothingRead EXCEPT !.res = res]
  IN  IF v = None THEN Is("miss")
      ELSE IF v.kind = "plain" THEN Is("error")
      ELSE IF ~Decrypts(v) THEN Is("panic")
      ELSE IF EncryptData /\ ~(keyAndIV /\ Unpads(v.len, v.last)) THEN Is("error")
      ELSE [res |-> "hit", data |-> v.len - v.last, at |-> v.at]

-----------------------------------------------------------------------------
(* The methods' first steps *)

Begin(c, m, k, command, v, t) ==
  /\ m \in Ops
  /\ pc[c] = "idle"
  /\ op' = [op EXCEPT ![c] = m]
  /\ pc' = [pc EXCEPT ![c] = command]
  /\ key' = [key EXCEPT ![c] = k]
  /\ val' = [val EXCEPT ![c] = v]
  /\ ttl' = [ttl EXCEPT ![c] = t]
  /\ UNCHANGED <<conf, now, db, rep, log, got>>

Set(c, k, kind, d, exp) ==
  /\ ToEncrypt(kind) => keyAndIV
  /\ Begin(c, "Set", k, "store", SetValue(kind, d, exp), Effective(exp))

Add(c, k, kind, d, exp) ==
  Begin(c, "Add", k, "exists", EntryMade("Put", kind, d, exp), Effective(exp))

Replace(c, k, kind, d, exp) ==
  Begin(c, "Replace", k, "exists", EntryMade("Put", kind, d, exp),
        Effective(exp))

Delete(c, k) == Begin(c, "Delete", k, "exists", None, 0)

Flush(c) == Begin(c, "Flush", None, "flushall", None, 0)

(* The caller stores an entry that it read, until the entry's ExpiresAt. *)
AddExistingEntry(c, k) ==
  LET t == (got[c].at - now) * TPS
  IN  /\ got[c].res = "hit"
      /\ Begin(c, "AddExistingEntry", k, "store",
               Value("AddExistingEntry", "entry", got[c].data, got[c].at, t), t)

(* RedisExpireAt gives the key another time to die. *)
RedisExpireAt(c, k, epoc) ==
  Begin(c, "RedisExpireAt", k, "expireat", None, epoc)

-----------------------------------------------------------------------------
(* The commands *)

Return(c) ==
  /\ op' = [op EXCEPT ![c] = "none"]
  /\ pc' = [pc EXCEPT ![c] = "idle"]
  /\ key' = [key EXCEPT ![c] = None]
  /\ val' = [val EXCEPT ![c] = None]
  /\ ttl' = [ttl EXCEPT ![c] = 0]
  /\ UNCHANGED <<conf, now, got>>

(* The primary changes, and the replica is to follow. *)
Primary(new) ==
  /\ Len(log) < MaxLag
  /\ db' = new
  /\ log' = IF HasReadCache THEN Append(log, new) ELSE log
  /\ UNCHANGED rep

(* invoke: the expiration of a store, 0 for none *)
Expiration(t) ==
  CASE t = 0 -> conf.store
    [] t = FOREVER -> 0
    [] OTHER -> t

(* EXISTS, when the method goes on *)
Exists(c) ==
  /\ pc[c] = "exists"
  /\ (db[key[c]] = None) <=> (op[c] = "Add")
  /\ pc' = [pc EXCEPT ![c] = IF op[c] = "Delete" THEN "del" ELSE "store"]
  /\ UNCHANGED <<conf, now, db, rep, log, op, key, val, ttl, got>>

(* EXISTS, when it does not *)
NotStored(c) ==
  /\ pc[c] = "exists"
  /\ (db[key[c]] = None) <=> (op[c] # "Add")
  /\ Return(c)
  /\ UNCHANGED <<db, rep, log>>

(* mutant: the time to live is what is left of the second *)
StoreShort(c) ==
  LET t == Expiration(ttl[c])
      s == Int32(Seconds(t))
  IN  /\ pc[c] = "store"
      /\ t > 0 => s > 0
      /\ Primary([db EXCEPT ![key[c]] =
           [val[c] EXCEPT !.dies = IF t > 0 THEN now + s - 1 ELSE FOREVER]])
      /\ Return(c)

(* mutant: an expiration below a second is sent with SET *)
StoreRounded(c) ==
  LET s == Int32(Seconds(Expiration(ttl[c])))
  IN  /\ pc[c] = "store"
      /\ Primary([db EXCEPT ![key[c]] =
           [val[c] EXCEPT !.dies = IF s > 0 THEN now + s ELSE FOREVER]])
      /\ Return(c)

(* SETEX with whole seconds, as many as an int32 holds of them, or SET *)
Store(c) ==
  LET t == Expiration(ttl[c])
      s == Int32(Seconds(t))
  IN  /\ pc[c] = "store"
      /\ t > 0 => s > 0
      /\ Primary([db EXCEPT ![key[c]] =
           [val[c] EXCEPT !.dies = IF t > 0 THEN now + s ELSE FOREVER]])
      /\ Return(c)

(* SETEX refuses 0 seconds and a negative number of them. *)
StoreRefused(c) ==
  LET t == Expiration(ttl[c])
  IN  /\ pc[c] = "store"
      /\ t > 0 /\ Int32(Seconds(t)) <= 0
      /\ Return(c)
      /\ UNCHANGED <<db, rep, log>>

Del(c) ==
  /\ pc[c] = "del"
  /\ Primary([db EXCEPT ![key[c]] = None])
  /\ Return(c)

(* EXPIREAT; a time that has passed deletes the key.  RedisStore.ExpireAt   *)
(* takes the reply 0, for want of the key, for success.                    *)
ExpireAt(c) ==
  LET v == db[key[c]]
      new == IF v = None \/ ttl[c] <= now THEN None
             ELSE [v EXCEPT !.dies = ttl[c], !.moved = TRUE]
  IN  /\ pc[c] = "expireat"
      /\ Primary([db EXCEPT ![key[c]] = new])
      /\ Return(c)

FlushAll(c) ==
  /\ pc[c] = "flushall"
  /\ Primary([k \in Keys |-> None])
  /\ Return(c)

(* The command does not reach the primary.  Flush returns nil all the      *)
(* same, the other methods an error.                                       *)
Lost(c) ==
  /\ pc[c] # "idle"
  /\ Return(c)
  /\ UNCHANGED <<db, rep, log>>

(* Get asks the primary, Exists the read cache if there is one.  A read    *)
(* without a reply is a miss.                                              *)
Read(c, m, found) ==
  /\ m \in Ops
  /\ pc[c] = "idle"
  /\ \E v \in {found, None} : got' = [got EXCEPT ![c] = Decoded(v)]
  /\ UNCHANGED <<conf, now, db, rep, log, op, pc, key, val, ttl>>

GetEntry(c, k) == Read(c, "Get", db[k])

ExistsEntry(c, k) == Read(c, "Exists", IF HasReadCache THEN rep[k] ELSE db[k])

-----------------------------------------------------------------------------
(* Redis itself *)

Dying(v) == v # None /\ v.dies # FOREVER /\ v.dies <= now

Alive(m) == [k \in Keys |-> IF Dying(m[k]) THEN None ELSE m[k]]

Replicate ==
  /\ log # <<>>
  /\ rep' = Alive(Head(log))
  /\ log' = Tail(log)
  /\ UNCHANGED <<conf, now, db, op, pc, key, val, ttl, got>>

(* Within the second that begins at dies, the key goes. *)
Expire ==
  /\ db' = Alive(db)
  /\ rep' = Alive(rep)
  /\ <<db, rep>> # <<db', rep'>>
  /\ UNCHANGED <<conf, now, log, op, pc, key, val, ttl, got>>

Tick ==
  /\ now < MaxNow
  /\ \A k \in Keys : ~Dying(db[k]) /\ ~Dying(rep[k])
  /\ now' = now + 1
  /\ UNCHANGED <<conf, db, rep, log, op, pc, key, val, ttl, got>>

-----------------------------------------------------------------------------
Put(c, k) ==
  \E kind \in {"entry", "plain"}, d \in Data, exp \in Exps :
    \/ Set(c, k, kind, d, exp) \/ Add(c, k, kind, d, exp) \/ Replace(c, k, kind, d, exp)

Command(c) ==
  \/ Exists(c) \/ NotStored(c) \/ Store(c) \/ StoreRefused(c)
  \/ Del(c) \/ ExpireAt(c) \/ FlushAll(c) \/ Lost(c)

Next ==
  \/ \E c \in Clients :
       \/ \E k \in Keys : \/ Put(c, k) \/ Delete(c, k) \/ AddExistingEntry(c, k)
                          \/ GetEntry(c, k) \/ ExistsEntry(c, k)
                          \/ \E t \in Epochs : RedisExpireAt(c, k, t)
       \/ Flush(c) \/ Command(c)
  \/ Replicate \/ Expire \/ Tick

Spec == Init /\ [][Next]_vars

-----------------------------------------------------------------------------
(* Properties *)

(* "these crypto operations are very transparent" (README.md), as far as   *)
(* Set goes: with EncryptData or without, an entry it stored is read back  *)
(* with its data, whatever its length, from the primary and the replica.   *)
CryptoTransparent ==
  \A m \in {db, rep} : \A k \in Keys :
    m[k] # None /\ m[k].via = "Set" /\ m[k].kind # "plain" =>
      Decoded(m[k]) = [res |-> "hit", data |-> m[k].data, at |-> m[k].at]

(* DEFAULT is no time to live: c.DefaultExp is negative, or it is 0 and   *)
(* the RedisStore has no default of its own.                               *)
DefaultIsNone == conf.def < 0 \/ (conf.def = 0 /\ conf.store <= 0)

(* A value without time to live got into Redis only because the caller     *)
(* asked for FOREVER, or for a default that is none, or because            *)
(* AddExistingEntry came too late: after its ExpiresAt, when what it       *)
(* computes is negative, or at it, when that is DEFAULT.  No expiration    *)
(* below a second, none beyond an int32, and no delay does that.           *)
MortalUnlessAsked ==
  \A k \in Keys : LET v == db[k] IN
    v # None /\ v.dies = FOREVER =>
      IF v.via = "AddExistingEntry"
      THEN v.at < now \/ (v.at = now /\ conf.store <= 0)
      ELSE v.asked < 0 \/ (v.asked = 0 /\ DefaultIsNone)

(* The expiration is below 2^31 seconds, so that int32 leaves it alone. *)
FitsInt32(t) == Seconds(t) < Half32

(* An entry says it has expired no later than Redis drops it, whatever the *)
(* defaults and however long the store of it was delayed: who checks       *)
(* ExpiresAt is never misled.  Two cases are outside of this: expirations  *)
(* of 2^31 seconds and more, which SETEX gets cut, and RedisExpireAt,      *)
(* which leaves the ExpiresAt of the entry as it is.                       *)
ExpiresAtFirst ==
  \A k \in Keys : LET v == db[k] IN
    v # None /\ v.dies # FOREVER /\ ~v.moved /\ FitsInt32(Effective(v.asked)) =>
      v.at <= v.dies
=============================================================================
