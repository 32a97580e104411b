---------------------------- MODULE RedisCounter ----------------------------
(***************************************************************************)
(* The counters of a GenericCache over Redis: Increment, Decrement,        *)
(* RedisIncrementAtomic and RedisIncrementCheckSet (generic.go), which     *)
(* call the RedisStore's methods (persistence/redis.go), which send Redis  *)
(* commands one after another.  Redis executes each command atomically;    *)
(* commands of other clients come between, a key with a time to live may   *)
(* expire between any two, and a command or its reply may be lost, which   *)
(* ends the method.                                                        *)
(***************************************************************************)
EXTENDS IntWidth

CONSTANTS
  Keys,
  Clients,
  None,
  Amounts,    \* the amounts given, and the values given to Set
  MayCall,    \* MayCall[c]: the methods client c calls
  Volatile,   \* whether Set stores keys with a time to live
  MaxGiven    \* no call begins once this total was given for its key

Methods ==
  {"Set", "Increment", "IncrementCheckSet", "IncrementAtomic", "Decrement"}

ASSUME CallAssumption ==
  /\ Amounts \subseteq Uints
  /\ MayCall \in [Clients -> SUBSET Methods]
  /\ Volatile \in BOOLEAN
  /\ MaxGiven \in Nat
  /\ None \notin Ints \cup Keys

VARIABLES
  db,       \* the value of each key, or None
  ttl,      \* the keys that have a time to live
  op,       \* the method each client is in
  pc,       \* the command it sends next
  key,      \* its arguments
  amount,
  read,     \* the value its GET returned
  given     \* the total of the amounts added to and set for each key so far

vars == <<db, ttl, op, pc, key, amount, read, given>>

Init ==
  /\ db = [k \in Keys |-> None]
  /\ ttl = {}
  /\ op = [c \in Clients |-> "none"]
  /\ pc = [c \in Clients |-> "idle"]
  /\ key = [c \in Clients |-> None]
  /\ amount = [c \in Clients |-> 0]
  /\ read = [c \in Clients |-> None]
  /\ given = [k \in Keys |-> 0]

-----------------------------------------------------------------------------
FirstCommand(m) ==
  CASE m = "Set" -> "setex"
    [] m = "Increment" -> "get"
    [] m = "IncrementCheckSet" -> "watch"
    [] m = "IncrementAtomic" -> "incrby"
    [] m = "Decrement" -> "exists"

(* Set is given a count, not a negative number. *)
Call(c, m, k, n) ==
  /\ pc[c] = "idle"
  /\ given[k] < MaxGiven
  /\ m = "Set" => n < Half
  /\ op' = [op EXCEPT ![c] = m]
  /\ pc' = [pc EXCEPT ![c] = FirstCommand(m)]
  /\ key' = [key EXCEPT ![c] = k]
  /\ amount' = [amount EXCEPT ![c] = n]
  /\ UNCHANGED <<db, ttl, read, given>>

Goto(c, command) ==
  /\ pc' = [pc EXCEPT ![c] = command]
  /\ UNCHANGED <<op, key, amount, given>>

(* The method returns, having added or set n. *)
Return(c, n) ==
  /\ op' = [op EXCEPT ![c] = "none"]
  /\ pc' = [pc EXCEPT ![c] = "idle"]
  /\ key' = [key EXCEPT ![c] = None]
  /\ amount' = [amount EXCEPT ![c] = 0]
  /\ read' = [read EXCEPT ![c] = None]
  /\ given' = [given EXCEPT ![key[c]] = @ + n]

Store(k, v) == db' = [db EXCEPT ![k] = v]

(* INCRBY and DECRBY take a missing key for 0, which then has no time to   *)
(* live, and refuse a result that overflows.                               *)
Value(k) == IF db[k] = None THEN 0 ELSE db[k]

(* WATCH: the SET that follows is not in a transaction, so nothing depends *)
(* on it.                                                                  *)
Watch(c) ==
  /\ pc[c] = "watch"
  /\ Goto(c, "get")
  /\ UNCHANGED <<db, ttl, read>>

Exists(c) ==
  /\ pc[c] = "exists"
  /\ db[key[c]] # None
  /\ Goto(c, "get")
  /\ UNCHANGED <<db, ttl, read>>

(* GET; only Decrement goes on when the key has gone. *)
Get(c) ==
  /\ pc[c] = "get"
  /\ op[c] # "Decrement" => db[key[c]] # None
  /\ read' = [read EXCEPT ![c] = db[key[c]]]
  /\ Goto(c, IF op[c] = "Decrement" THEN "decrby" ELSE "set")
  /\ UNCHANGED <<db, ttl>>

Miss(c) ==
  /\ \/ pc[c] = "exists"
     \/ pc[c] = "get" /\ op[c] # "Decrement"
  /\ db[key[c]] = None
  /\ Return(c, 0)
  /\ UNCHANGED <<db, ttl>>

(* SETEX, or SET when there is no expiration *)
SetEx(c) ==
  /\ pc[c] = "setex"
  /\ Store(key[c], ToInt(amount[c]))
  /\ ttl' = IF Volatile THEN ttl \cup {key[c]} ELSE ttl \ {key[c]}
  /\ Return(c, amount[c])

(* SET of the sum; it drops the time to live. *)
SetSum(c) ==
  /\ pc[c] = "set"
  /\ Store(key[c], Incremented(read[c], amount[c]))
  /\ ttl' = ttl \ {key[c]}
  /\ Return(c, amount[c])

(* mutant: a command whose reply is lost is sent again *)
IncrByTwice(c) ==
  /\ pc[c] = "incrby"
  /\ amount[c] < Half
  /\ Value(key[c]) + amount[c] < Half
  /\ \E times \in {1, 2} : Store(key[c], Value(key[c]) + times * amount[c])
  /\ Return(c, amount[c])
  /\ UNCHANGED ttl

IncrBy(c) ==
  /\ pc[c] = "incrby"
  /\ amount[c] < Half
  /\ Value(key[c]) + amount[c] < Half
  /\ Store(key[c], Value(key[c]) + amount[c])
  /\ Return(c, amount[c])
  /\ UNCHANGED ttl

(* What Decrement takes off: delta, or all that the GET returned if delta  *)
(* is greater.  The comparison is of uint64s.                              *)
DecrementBy(c) ==
  IF read[c] # None /\ amount[c] > ToUint64(read[c]) THEN read[c] ELSE amount[c]

DecrBy(c) ==
  /\ pc[c] = "decrby"
  /\ DecrementBy(c) \in Ints \ {-Half}
  /\ Value(key[c]) - DecrementBy(c) \in Ints
  /\ Store(key[c], Value(key[c]) - DecrementBy(c))
  /\ Return(c, 0)
  /\ UNCHANGED ttl

(* INCRBY and DECRBY refused *)
Overflow(c) ==
  /\ \/ /\ pc[c] = "incrby"
        /\ amount[c] >= Half \/ Value(key[c]) + amount[c] >= Half
     \/ /\ pc[c] = "decrby"
        /\ \/ DecrementBy(c) \notin Ints \ {-Half}
           \/ Value(key[c]) - DecrementBy(c) \notin Ints
  /\ Return(c, 0)
  /\ UNCHANGED <<db, ttl>>

(* The command does not reach Redis, and the method ends with an error:    *)
(* Decrement goes on after a failed GET, but on a connection that then     *)
(* fails every command.  If only the reply is lost, the command's own      *)
(* action stands for it.                                                   *)
NotExecuted(c) ==
  /\ pc[c] # "idle"
  /\ Return(c, 0)
  /\ UNCHANGED <<db, ttl>>

Expire(k) ==
  /\ k \in ttl
  /\ db' = [db EXCEPT ![k] = None]
  /\ ttl' = ttl \ {k}
  /\ UNCHANGED <<op, pc, key, amount, read, given>>

Next ==
  \/ \E c \in Clients :
       \/ \E m \in MayCall[c], k \in Keys, n \in Amounts : Call(c, m, k, n)
       \/ Watch(c) \/ Exists(c) \/ Get(c) \/ Miss(c)
       \/ SetEx(c) \/ SetSum(c) \/ IncrBy(c) \/ DecrBy(c)
       \/ Overflow(c) \/ NotExecuted(c)
  \/ \E k \in Keys : Expire(k)

Spec == Init /\ [][Next]_vars

-----------------------------------------------------------------------------
(* Properties *)

TypeOK ==
  /\ db \in [Keys -> Ints \cup {None}]
  /\ ttl \in SUBSET Keys
  /\ op \in [Clients -> Methods \cup {"none"}]
  /\ pc \in [Clients -> {"idle", "watch", "exists", "get", "set", "setex",
                         "incrby", "decrby"}]
  /\ key \in [Clients -> Keys \cup {None}]
  /\ amount \in [Clients -> Uints]
  /\ read \in [Clients -> Ints \cup {None}]
  /\ given \in [Keys -> Nat]

(* However the commands of the clients interleave, are lost or find the    *)
(* key expired, a counter never exceeds the total of what was given:       *)
(* racing Increments lose updates, but count none twice.                   *)
NeverOvercounts ==
  (\A n \in Amounts : n < Half) => \A k \in Keys : Value(k) <= given[k]

(* "increment a value ONLY if it doesn't change between your GET and SET"  *)
(* (RedisStore.IncrementCheckSet).                                         *)
CheckSetUnchanged ==
  [][\A c \in Clients : SetSum(c) /\ op[c] = "IncrementCheckSet" =>
       db[key[c]] = read[c]]_vars
=============================================================================
