---------------------------- MODULE InMemoryStore ---------------------------
(***************************************************************************)
(* InMemoryStore (inmemory.go): concurrent calls of its methods and the    *)
(* janitor's DeleteExpired, over an lru that locks each of its own calls   *)
(* and nothing more.  A method is therefore a sequence of steps, one for   *)
(* each call of the lru and each reading of the clock.                     *)
(*                                                                         *)
(* The lru is the lossy map of module LossyMap, which ARC implements.      *)
(* Time is counted in ticks, TPS of them to a second.  The entries hold    *)
(* whole seconds; here they hold the tick a second begins with.            *)
(***************************************************************************)
EXTENDS IntWidth

CONSTANTS
  Keys,
  Procs,        \* the goroutines that call the store
  Janitor,      \* the goroutine that runs DeleteExpired
  None,
  Text,         \* data that is not an int
  Inputs,       \* the data given to Set, Add, Replace and Update
  Amounts,      \* the amounts given to Increment and Decrement
  Ops,          \* the methods called
  TPS,          \* ticks per second
  DefaultExp,   \* DefaultExp, in ticks
  Exps,         \* the finite expirations given, in ticks; 0 is DEFAULT
  Start,        \* the time the store is made, long after 1970
  MaxNow        \* bound on the clock

FOREVER == -1   \* persistence.FOREVER

ASSUME TimeAssumption ==
  /\ TPS \in Nat \ {0}
  /\ DefaultExp \in Nat
  /\ Exps \subseteq Nat
  /\ Start \in Nat /\ Start >= TPS
  /\ MaxNow \in Nat

ASSUME CallAssumption ==
  /\ Inputs \subseteq Ints \cup {Text}
  /\ Amounts \subseteq Uints
  /\ Text \notin Ints
  /\ Janitor \notin Procs
  /\ None \notin Keys

(* by is no field of the program's: the tick by which the caller of Set,   *)
(* Add, Replace or Update asked for the entry to have gone.                *)
Entry ==
  [data : Ints \cup {Text}, exp : Nat, by : Nat \cup {FOREVER}]

ASSUME NoneAssumption == None \notin Entry

VARIABLES
  lru,      \* the entry of each key, or None
  now,      \* the clock
  op,       \* the method each goroutine is in
  pc,       \* the step it takes next
  key,      \* its argument
  read,     \* what its lru.Get found
  new,      \* what its lru.Add is about to store
  todo      \* the keys that DeleteExpired has not looked at yet

vars == <<lru, now, op, pc, key, read, new, todo>>

Map == INSTANCE LossyMap WITH Values <- Entry, store <- lru, last <- read

Writers == {"Set", "Add", "Replace", "Update", "Increment", "Decrement"}

Methods == Writers \cup {"Get", "Delete"}

Calls == Procs \cup {Janitor}

-----------------------------------------------------------------------------
(* Entries *)

Truncate(t) == t - (t % TPS)

(* mutant: FOREVER is an expiration like another *)
EntryAtFinite(data, exp) ==
  LET t == IF exp # 0 THEN exp ELSE DefaultExp
  IN  [data |-> data,
       exp  |-> Truncate(now) + (IF exp = FOREVER THEN 0 ELSE Truncate(t)),
       by   |-> IF exp = FOREVER THEN FOREVER ELSE now + t]

(* mutant: the expiration is rounded up *)
EntryAtRoundedUp(data, exp) ==
  LET t == IF exp # 0 THEN exp ELSE DefaultExp
  IN  IF exp = FOREVER
      THEN [data |-> data, exp |-> 0, by |-> FOREVER]
      ELSE [data |-> data, exp |-> Truncate(now) + Truncate(t) + TPS,
            by |-> now + t]

(* The entry that doAddSet makes, and NewGenericCacheEntry for a finite    *)
(* expiration.                                                             *)
EntryAt(data, exp) ==
  LET t == IF exp # 0 THEN exp ELSE DefaultExp
  IN  IF exp = FOREVER
      THEN [data |-> data, exp |-> 0, by |-> FOREVER]
      ELSE [data |-> data, exp |-> Truncate(now) + Truncate(t), by |-> now + t]

Expired(e) == e.exp # 0 /\ e.exp < now

(* The entry with another value: Increment and Decrement keep its times.   *)
WithData(e, d) == [data |-> d, exp |-> e.exp, by |-> e.by]

Init ==
  /\ lru = [k \in Keys |-> None]
  /\ now = Start
  /\ op = [c \in Calls |-> IF c = Janitor THEN "DeleteExpired" ELSE "none"]
  /\ pc = [c \in Calls |-> "idle"]
  /\ key = [c \in Calls |-> None]
  /\ read = [c \in Calls |-> None]
  /\ new = [c \in Calls |-> None]
  /\ todo = {}

-----------------------------------------------------------------------------
(* The steps of a method *)

(* The method continues at step s with r and n in its local variables. *)
Goto(c, s, r, n) ==
  /\ pc' = [pc EXCEPT ![c] = s]
  /\ read' = [read EXCEPT ![c] = r]
  /\ new' = [new EXCEPT ![c] = n]
  /\ UNCHANGED <<now, op, key, todo>>

(* The method returns; the body of DeleteExpired's loop is done. *)
Return(c) ==
  /\ pc' = [pc EXCEPT ![c] = IF c = Janitor THEN "sweep" ELSE "idle"]
  /\ op' = [op EXCEPT ![c] = IF c = Janitor THEN "DeleteExpired" ELSE "none"]
  /\ key' = [key EXCEPT ![c] = None]
  /\ read' = [read EXCEPT ![c] = None]
  /\ new' = [new EXCEPT ![c] = None]
  /\ UNCHANGED <<now, todo>>

(* A goroutine calls a method.  Set and Update begin with the clock:       *)
(* Update's caller makes the entry with NewGenericCacheEntry.              *)
Call(c, m, k) ==
  /\ c \in Procs
  /\ pc[c] = "idle"
  /\ m \in Ops \cap Methods
  /\ op' = [op EXCEPT ![c] = m]
  /\ key' = [key EXCEPT ![c] = k]
  /\ pc' = [pc EXCEPT ![c] = IF m \in {"Set", "Update"} THEN "clock" ELSE "read"]
  /\ UNCHANGED <<lru, now, read, new, todo>>

LruGet(c) ==
  /\ pc[c] = "read"
  /\ lru' \in Map!Keeps(lru, {key[c]})

Found(c) == lru[key[c]]

(* lru.Get finds what the method needs to go on. *)
ReadToCheck(c) ==
  /\ LruGet(c)
  /\ op[c] \in {"Get", "DeleteExpired"}
  /\ Found(c) # None
  /\ Goto(c, "check", Found(c), None)

ReadToClock(c) ==
  /\ LruGet(c)
  /\ \/ op[c] = "Add" /\ Found(c) = None
     \/ op[c] = "Replace" /\ Found(c) # None
  /\ Goto(c, "clock", Found(c), None)

ReadToUpdate(c) ==
  /\ LruGet(c)
  /\ op[c] = "Update"
  /\ Found(c) # None
  /\ Goto(c, "write", Found(c), new[c])

Increment(c, n) ==
  /\ LruGet(c)
  /\ op[c] = "Increment"
  /\ Found(c) # None
  /\ Found(c).data \in Ints
  /\ Goto(c, "write", Found(c), WithData(Found(c), Incremented(Found(c).data, n)))

Decrement(c, n) ==
  /\ LruGet(c)
  /\ op[c] = "Decrement"
  /\ Found(c) # None
  /\ Found(c).data \in Ints
  /\ Goto(c, "write", Found(c), WithData(Found(c), Decremented(Found(c).data, n)))

ReadToCount(c) == \E n \in Amounts : Increment(c, n) \/ Decrement(c, n)

ReadToDelete(c) ==
  /\ LruGet(c)
  /\ op[c] = "Delete"
  /\ Found(c) # None
  /\ Goto(c, "remove", Found(c), None)

(* It does not: a miss, an Add of a present key, a count of a non-int. *)
ReadToFail(c) ==
  /\ LruGet(c)
  /\ \/ op[c] # "Add" /\ Found(c) = None
     \/ op[c] = "Add" /\ Found(c) # None
     \/ /\ op[c] \in {"Increment", "Decrement"}
        /\ Found(c) # None
        /\ Found(c).data \notin Ints
  /\ Return(c)

Read(c) ==
  \/ ReadToCheck(c) \/ ReadToClock(c) \/ ReadToUpdate(c)
  \/ ReadToCount(c) \/ ReadToDelete(c) \/ ReadToFail(c)

(* time.Now in doAddSet, or in NewGenericCacheEntry for Update. *)
Clock(c) ==
  /\ pc[c] = "clock"
  /\ \E d \in Inputs, exp \in Exps \cup {FOREVER} :
       /\ op[c] = "Update" => exp # FOREVER
       /\ Goto(c, IF op[c] = "Update" THEN "read" ELSE "write",
               read[c], EntryAt(d, exp))
  /\ UNCHANGED lru

(* lru.Add, the end of every method that stores. *)
Write(c) ==
  /\ pc[c] = "write"
  /\ lru' \in Map!Keeps([lru EXCEPT ![key[c]] = new[c]], {key[c]})
  /\ Return(c)

(* Get returns the entry; DeleteExpired goes on to the next key. *)
Hit(c) ==
  /\ pc[c] = "check"
  /\ ~Expired(read[c])
  /\ Return(c)
  /\ UNCHANGED lru

(* mutant: the expired entry is left in the lru *)
JudgeExpiredKeeps(c) ==
  /\ pc[c] = "check"
  /\ Expired(read[c])
  /\ Return(c)
  /\ UNCHANGED lru

JudgeExpired(c) ==
  /\ pc[c] = "check"
  /\ Expired(read[c])
  /\ Goto(c, "remove", read[c], None)
  /\ UNCHANGED lru

LruRemove(c) ==
  /\ pc[c] = "remove"
  /\ lru' = [lru EXCEPT ![key[c]] = None]
  /\ Return(c)

Flush(c) ==
  /\ c \in Procs
  /\ pc[c] = "idle"
  /\ "Flush" \in Ops
  /\ lru' = [k \in Keys |-> None]
  /\ UNCHANGED <<now, op, pc, key, read, new, todo>>

-----------------------------------------------------------------------------
(* DeleteExpired, each time the janitor's ticker fires *)

SweepKeys ==
  /\ pc[Janitor] = "idle"
  /\ pc' = [pc EXCEPT ![Janitor] = "sweep"]
  /\ todo' = {k \in Keys : lru[k] # None}
  /\ UNCHANGED <<lru, now, op, key, read, new>>

SweepNext ==
  /\ pc[Janitor] = "sweep"
  /\ \E k \in todo :
       /\ key' = [key EXCEPT ![Janitor] = k]
       /\ todo' = todo \ {k}
  /\ pc' = [pc EXCEPT ![Janitor] = "read"]
  /\ UNCHANGED <<lru, now, op, read, new>>

SweepEnd ==
  /\ pc[Janitor] = "sweep"
  /\ todo = {}
  /\ pc' = [pc EXCEPT ![Janitor] = "idle"]
  /\ UNCHANGED <<lru, now, op, key, read, new, todo>>

Tick ==
  /\ now < MaxNow
  /\ now' = now + 1
  /\ UNCHANGED <<lru, op, pc, key, read, new, todo>>

-----------------------------------------------------------------------------
Step(c) ==
  Read(c) \/ Clock(c) \/ Write(c) \/ Hit(c) \/ JudgeExpired(c) \/ LruRemove(c)

Sweep == SweepKeys \/ SweepNext \/ SweepEnd \/ Step(Janitor)

Next ==
  \/ \E c \in Procs : Step(c) \/ Flush(c) \/ \E m \in Ops, k \in Keys : Call(c, m, k)
  \/ Sweep
  \/ Tick

Spec == Init /\ [][Next]_vars

(* The ticker goes on firing and the scheduler runs the janitor. *)
FairSpec == Spec /\ WF_vars(Sweep)

-----------------------------------------------------------------------------
(* Properties *)

Steps == {"idle", "read", "check", "clock", "write", "remove", "sweep"}

TypeOK ==
  /\ lru \in [Keys -> Entry \cup {None}]
  /\ now \in Nat
  /\ op \in [Calls -> Methods \cup {"none", "DeleteExpired"}]
  /\ pc \in [Calls -> Steps]
  /\ key \in [Calls -> Keys \cup {None}]
  /\ read \in [Calls -> Entry \cup {None}]
  /\ new \in [Calls -> Entry \cup {None}]
  /\ todo \in SUBSET Keys

(* "Increment wraparound" (generic_test_store.go): the uint64 Increment    *)
(* returns is the value it found plus n, modulo the width, for every n,    *)
(* the amounts whose conversion to int is negative included.               *)
IncrementWraps ==
  [][\A c \in Procs, n \in Amounts : Increment(c, n) =>
       LET sum == ToUint64(Found(c).data) + n
       IN  ToUint64(new'[c].data) \in {sum, sum - 2 * Half}]_vars

(* Decrement by an amount that fits an int never goes below 0, and is      *)
(* exact when the value is large enough.                                   *)
SmallDecrementCapped ==
  [][\A c \in Procs, n \in Amounts : n < Half /\ Decrement(c, n) =>
       new'[c].data = IF n > Found(c).data THEN 0 ELSE Found(c).data - n]_vars

(* Get never returns an entry after the expiration its writer asked for,   *)
(* however long the calls were delayed between their steps.                *)
NeverServedLate ==
  [][\A c \in Procs : Hit(c) =>
       read[c].by = FOREVER \/ now <= read[c].by]_vars

(* An entry is not taken for expired 2 seconds or more before the          *)
(* expiration asked for (doAddSet drops the fraction of the time and of    *)
(* the expiration), and never if that was FOREVER.                         *)
ExpiredAtMostTwoSecondsEarly ==
  [][\A c \in Calls : JudgeExpired(c) =>
       read[c].by # FOREVER /\ now > read[c].by - 2 * TPS]_vars

(* "Delete all expired items from the cache" (DeleteExpired): an expired   *)
(* entry that nobody asks for does not stay.                               *)
ExpiredCollected ==
  \A k \in Keys :
    (lru[k] # None /\ Expired(lru[k])) ~> (lru[k] = None \/ ~Expired(lru[k]))

-----------------------------------------------------------------------------
(* What comments of the program say, and TLC refutes *)

(* "Delete all expired items from the cache" (DeleteExpired): the janitor  *)
(* removes nothing else.                                                   *)
JanitorRemovesOnlyExpired ==
  [][LruRemove(Janitor) =>
       lru[key[Janitor]] = None \/ Expired(lru[key[Janitor]])]_vars

(* "only if an item doesn't already exist for the given key, or if the     *)
(* existing item has expired" (cache_store.go): no Add stores over a live  *)
(* entry.                                                                  *)
AddOnlyIfAbsent ==
  [][\A c \in Procs : Write(c) /\ op[c] = "Add" =>
       lru[key[c]] = None \/ Expired(lru[key[c]])]_vars
=============================================================================
