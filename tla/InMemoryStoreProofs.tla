------------------------ MODULE InMemoryStoreProofs -------------------------
(***************************************************************************)
(* Proofs about InMemoryStore, for every number of keys and callers, every *)
(* resolution of the clock and every expiration.                           *)
(***************************************************************************)
EXTENDS InMemoryStore, TLAPS

(* An entry's expiration is at most two truncations before the one asked   *)
(* for, and never after it; only FOREVER has none.                         *)
Timed(exp, by) ==
  \/ exp = 0 /\ by = FOREVER
  \/ exp > 0 /\ by \in Nat /\ exp <= by /\ by < exp + 2 * TPS

TimedEntry == {e \in Entry : Timed(e.exp, e.by)}

(* What the local variables of a call hold at each of its steps. *)
Frame(c) ==
  /\ c = Janitor => op[c] = "DeleteExpired"
  /\ op[c] \in Writers => key[c] \in Keys
  /\ pc[c] = "clock" => op[c] \in {"Set", "Add", "Replace", "Update"}
  /\ pc[c] = "write" => op[c] \in Writers
  /\ pc[c] \in {"read", "check", "remove"} => key[c] \in Keys
  /\ pc[c] = "check" => read[c] \in TimedEntry
  /\ pc[c] = "write" => new[c] \in TimedEntry
  /\ pc[c] = "read" /\ op[c] = "Update" => new[c] \in TimedEntry

Types ==
  /\ lru \in [Keys -> TimedEntry \cup {None}]
  /\ now \in Nat /\ now >= TPS
  /\ op \in [Calls -> Methods \cup {"none", "DeleteExpired"}]
  /\ pc \in [Calls -> Steps]
  /\ key \in [Calls -> Keys \cup {None}]
  /\ read \in [Calls -> TimedEntry \cup {None}]
  /\ new \in [Calls -> TimedEntry \cup {None}]
  /\ todo \in SUBSET Keys

IndInv == Types /\ (\A c \in Calls : Frame(c))

-----------------------------------------------------------------------------
(* Entries and the lru *)

(* The sum and difference of Increment and Decrement are ints again. *)
LEMMA CountsAreInts ==
  ASSUME NEW i \in Ints, NEW n \in Uints
  PROVE  Incremented(i, n) \in Ints /\ Decremented(i, n) \in Ints
BY HalfAssumption DEF Incremented, Decremented, Wrap, ToInt, Ints, Uints

(* Truncate drops less than a second. *)
LEMMA TruncateFacts ==
  ASSUME NEW t \in Nat
  PROVE  Truncate(t) \in Nat /\ Truncate(t) <= t /\ t < Truncate(t) + TPS
<1>1. t % TPS \in 0..(TPS - 1) /\ t % TPS <= t
  BY TimeAssumption
<1> QED BY <1>1, TimeAssumption DEF Truncate

(* From the first second on, a truncated time is not 0. *)
LEMMA TruncatePositive ==
  ASSUME NEW t \in Nat, t >= TPS
  PROVE  Truncate(t) > 0
<1>1. t % TPS \in 0..(TPS - 1)
  BY TimeAssumption
<1> QED BY <1>1, TimeAssumption DEF Truncate

(* doAddSet makes an entry whose ExpiresAt is at most two seconds before   *)
(* what was asked.                                                         *)
LEMMA EntryAtTimed ==
  ASSUME Types, NEW d \in Inputs, NEW exp \in Exps \cup {FOREVER}
  PROVE  EntryAt(d, exp) \in TimedEntry
<1> DEFINE t == IF exp # 0 THEN exp ELSE DefaultExp
<1>1. d \in Ints \cup {Text}
  BY CallAssumption
<1>2. CASE exp = FOREVER
  BY <1>1, <1>2 DEF EntryAt, TimedEntry, Entry, Timed, FOREVER
<1>3. CASE exp # FOREVER
  <2>1. t \in Nat /\ now \in Nat /\ now >= TPS
    BY <1>3, TimeAssumption DEF Types
  <2>2. Truncate(t) \in Nat /\ Truncate(t) <= t /\ t < Truncate(t) + TPS
    BY <2>1, TruncateFacts
  <2>3. Truncate(now) \in Nat /\ Truncate(now) <= now /\ now < Truncate(now) + TPS
    BY <2>1, TruncateFacts
  <2>4. Truncate(now) > 0
    BY <2>1, TruncatePositive
  <2>5. EntryAt(d, exp) = [data |-> d, exp |-> Truncate(now) + Truncate(t), by |-> now + t]
    BY <1>3 DEF EntryAt
  <2> HIDE DEF t
  <2>6. Timed(Truncate(now) + Truncate(t), now + t)
    BY <2>1, <2>2, <2>3, <2>4, TimeAssumption DEF Timed
  <2> QED BY <1>1, <2>1, <2>2, <2>3, <2>5, <2>6 DEF TimedEntry, Entry
<1> QED BY <1>2, <1>3

(* Increment and Decrement keep the times of an entry. *)
LEMMA WithDataTimed ==
  ASSUME NEW e \in TimedEntry, NEW d \in Ints
  PROVE  WithData(e, d) \in TimedEntry
BY DEF WithData, TimedEntry, Entry

(* Keeps only forgets keys, and none of S. *)
LEMMA KeepsFacts ==
  ASSUME NEW T, NEW m \in [Keys -> T \cup {None}], NEW S, NEW f \in Map!Keeps(m, S)
  PROVE  /\ f \in [Keys -> T \cup {None}]
         /\ \A k \in Keys : f[k] \in {m[k], None}
         /\ \A k \in Keys \cap S : f[k] = m[k]
BY DEF Map!Keeps

-----------------------------------------------------------------------------
(* Every step preserves IndInv *)

(* The local variables of the other calls stay as they are. *)
LEMMA OthersKeepFrame ==
  ASSUME IndInv, NEW c \in Calls, Frame(c)',
         \A d \in Calls \ {c} : /\ pc'[d] = pc[d] /\ op'[d] = op[d]
                                /\ key'[d] = key[d] /\ read'[d] = read[d]
                                /\ new'[d] = new[d]
  PROVE  \A d \in Calls : Frame(d)'
<1> SUFFICES ASSUME NEW d \in Calls \ {c} PROVE Frame(d)'
  OBVIOUS
<1>1. Frame(d)
  BY DEF IndInv
<1> QED BY <1>1 DEF Frame

(* What the return of a method leaves of the invariant, given what it did  *)
(* to the lru.                                                             *)
LEMMA ReturnFacts ==
  ASSUME IndInv, NEW c \in Calls, Return(c), lru' \in [Keys -> TimedEntry \cup {None}]
  PROVE  /\ Types'
         /\ \A d \in Calls : Frame(d)'
<1>1. Types'
  BY DEF IndInv, Types, Return, Steps
<1>2. Frame(c)'
  BY DEF IndInv, Types, Return, Frame, Writers
<1>3. \A d \in Calls \ {c} : /\ pc'[d] = pc[d] /\ op'[d] = op[d]
                             /\ key'[d] = key[d] /\ read'[d] = read[d]
                             /\ new'[d] = new[d]
  BY DEF IndInv, Types, Return
<1> QED BY <1>1, <1>2, <1>3, OthersKeepFrame

(* What a step to another step of the same method leaves of it. *)
LEMMA GotoFacts ==
  ASSUME IndInv, NEW c \in Calls, NEW s \in Steps, NEW r \in TimedEntry \cup {None},
         NEW n \in TimedEntry \cup {None}, Goto(c, s, r, n),
         lru' \in [Keys -> TimedEntry \cup {None}]
  PROVE  /\ Types'
         /\ pc'[c] = s /\ read'[c] = r /\ new'[c] = n /\ op'[c] = op[c] /\ key'[c] = key[c]
         /\ \A d \in Calls \ {c} : /\ pc'[d] = pc[d] /\ op'[d] = op[d]
                                   /\ key'[d] = key[d] /\ read'[d] = read[d]
                                   /\ new'[d] = new[d]
BY DEF IndInv, Types, Goto

(* lru.Get forgets entries, but not the one it finds. *)
LEMMA LruGetFacts ==
  ASSUME IndInv, NEW c \in Calls, LruGet(c)
  PROVE  /\ key[c] \in Keys
         /\ Found(c) \in TimedEntry \cup {None}
         /\ lru' \in [Keys -> TimedEntry \cup {None}]
         /\ \A k \in Keys : lru'[k] \in {lru[k], None}
         /\ lru'[key[c]] = Found(c)
<1>1. key[c] \in Keys
  BY DEF IndInv, Frame, LruGet
<1>2. lru \in [Keys -> TimedEntry \cup {None}] /\ lru' \in Map!Keeps(lru, {key[c]})
  BY DEF IndInv, Types, LruGet
<1>3. /\ lru' \in [Keys -> TimedEntry \cup {None}]
      /\ \A k \in Keys : lru'[k] \in {lru[k], None}
      /\ \A k \in Keys \cap {key[c]} : lru'[k] = lru[k]
  BY <1>2 DEF Map!Keeps
<1> QED BY <1>1, <1>2, <1>3 DEF Found

(* The lru.Get of a method preserves the invariant. *)
LEMMA ReadInv ==
  ASSUME IndInv, NEW c \in Calls, Read(c)
  PROVE  IndInv'
<1>1. LruGet(c)
  BY DEF Read, ReadToCheck, ReadToClock, ReadToUpdate, ReadToCount, Increment, Decrement,
         ReadToDelete, ReadToFail
<1>2. /\ key[c] \in Keys
      /\ Found(c) \in TimedEntry \cup {None}
      /\ lru' \in [Keys -> TimedEntry \cup {None}]
      /\ \A k \in Keys : lru'[k] \in {lru[k], None}
      /\ lru'[key[c]] = Found(c)
  BY <1>1, LruGetFacts
<1>3. Frame(c) /\ pc[c] = "read"
  BY <1>1 DEF IndInv, LruGet
<1>4. ASSUME NEW s \in {"check", "clock", "write", "remove"},
             NEW n \in TimedEntry \cup {None},
             s = "check" => Found(c) # None,
             s = "clock" => op[c] \in {"Set", "Add", "Replace", "Update"},
             s = "write" => op[c] \in Writers,
             s = "write" => n \in TimedEntry,
             Goto(c, s, Found(c), n)
      PROVE  IndInv'
  <2>0. s \in Steps
    BY DEF Steps
  <2>1. /\ Types'
        /\ pc'[c] = s /\ read'[c] = Found(c) /\ new'[c] = n
        /\ op'[c] = op[c] /\ key'[c] = key[c]
        /\ \A d \in Calls \ {c} : /\ pc'[d] = pc[d] /\ op'[d] = op[d]
                                  /\ key'[d] = key[d] /\ read'[d] = read[d]
                                  /\ new'[d] = new[d]
    BY <1>2, <1>4, <2>0 DEF IndInv, Types, Goto
  <2>2. Frame(c)'
    BY <1>2, <1>3, <1>4, <2>1 DEF Frame
  <2>3. \A d \in Calls : Frame(d)'
    BY <2>1, <2>2, OthersKeepFrame
  <2> QED BY <2>1, <2>3 DEF IndInv
<1>5. CASE ReadToCheck(c)
  BY <1>4, <1>5 DEF ReadToCheck
<1>6. CASE ReadToClock(c)
  BY <1>4, <1>6 DEF ReadToClock, Writers
<1>7. CASE ReadToUpdate(c)
  BY <1>3, <1>4, <1>7 DEF ReadToUpdate, Writers, Frame
<1>8. CASE ReadToCount(c)
  <2>1. /\ op[c] \in Writers /\ Found(c) \in TimedEntry /\ Found(c).data \in Ints
    BY <1>2, <1>8 DEF ReadToCount, Increment, Decrement, Writers
  <2>2. PICK n \in Amounts : Increment(c, n) \/ Decrement(c, n)
    BY <1>8 DEF ReadToCount
  <2>3. /\ Incremented(Found(c).data, n) \in Ints
        /\ Decremented(Found(c).data, n) \in Ints
    BY <2>1, CountsAreInts, CallAssumption
  <2>4. PICK d \in Ints : Goto(c, "write", Found(c), WithData(Found(c), d))
    BY <2>2, <2>3 DEF Increment, Decrement
  <2>5. WithData(Found(c), d) \in TimedEntry
    BY <2>1, WithDataTimed
  <2> QED BY <1>4, <2>1, <2>4, <2>5
<1>9. CASE ReadToDelete(c)
  BY <1>4, <1>9 DEF ReadToDelete
<1>10. CASE ReadToFail(c)
  <2>1. Return(c)
    BY <1>10 DEF ReadToFail
  <2> QED BY <1>2, <2>1, ReturnFacts DEF IndInv
<1> QED BY <1>5, <1>6, <1>7, <1>8, <1>9, <1>10 DEF Read

(* The reading of the clock preserves it. *)
LEMMA ClockInv ==
  ASSUME IndInv, NEW c \in Calls, Clock(c)
  PROVE  IndInv'
<1>1. PICK d \in Inputs, exp \in Exps \cup {FOREVER} :
        Goto(c, IF op[c] = "Update" THEN "read" ELSE "write", read[c], EntryAt(d, exp))
  BY DEF Clock
<1> DEFINE s == IF op[c] = "Update" THEN "read" ELSE "write"
           n == EntryAt(d, exp)
<1>2. n \in TimedEntry
  BY EntryAtTimed DEF IndInv
<1>3. s \in Steps /\ read[c] \in TimedEntry \cup {None} /\ lru' = lru
      /\ lru' \in [Keys -> TimedEntry \cup {None}]
  BY DEF Steps, IndInv, Types, Clock
<1>4. Frame(c) /\ pc[c] = "clock"
  BY DEF IndInv, Clock
<1> HIDE DEF n
<1>5. Goto(c, s, read[c], n)
  BY <1>1 DEF n
<1>6. /\ Types'
      /\ pc'[c] = s /\ read'[c] = read[c] /\ new'[c] = n
      /\ op'[c] = op[c] /\ key'[c] = key[c]
      /\ \A e \in Calls \ {c} : /\ pc'[e] = pc[e] /\ op'[e] = op[e]
                                /\ key'[e] = key[e] /\ read'[e] = read[e]
                                /\ new'[e] = new[e]
  <2> HIDE DEF s
  <2> QED BY <1>2, <1>3, <1>5, GotoFacts
<1>7. Frame(c)'
  BY <1>2, <1>4, <1>6 DEF Frame, Writers
<1>8. \A e \in Calls : Frame(e)'
  BY <1>6, <1>7, OthersKeepFrame
<1> QED BY <1>6, <1>8 DEF IndInv

(* lru.Add preserves it. *)
LEMMA WriteInv ==
  ASSUME IndInv, NEW c \in Calls, Write(c)
  PROVE  IndInv'
<1>1. /\ pc[c] = "write" /\ op[c] \in Writers
      /\ key[c] \in Keys /\ new[c] \in TimedEntry
  BY DEF IndInv, Frame, Write
<1> DEFINE m == [lru EXCEPT ![key[c]] = new[c]]
<1>2. m \in [Keys -> TimedEntry \cup {None}]
  BY <1>1 DEF IndInv, Types
<1>3. lru' \in Map!Keeps(m, {key[c]}) /\ Return(c)
  BY DEF Write
<1> HIDE DEF m
<1>4. lru' \in [Keys -> TimedEntry \cup {None}]
  BY <1>2, <1>3, KeepsFacts
<1> QED BY <1>3, <1>4, ReturnFacts DEF IndInv

(* The return of a hit preserves it. *)
LEMMA HitInv ==
  ASSUME IndInv, NEW c \in Calls, Hit(c)
  PROVE  IndInv'
<1>1. Return(c) /\ lru' = lru /\ lru' \in [Keys -> TimedEntry \cup {None}]
  BY DEF Hit, IndInv, Types
<1> QED BY <1>1, ReturnFacts DEF IndInv

(* Finding an entry expired preserves it. *)
LEMMA JudgeExpiredInv ==
  ASSUME IndInv, NEW c \in Calls, JudgeExpired(c)
  PROVE  IndInv'
<1>1. /\ Frame(c) /\ pc[c] = "check"
      /\ Goto(c, "remove", read[c], None) /\ "remove" \in Steps
      /\ read[c] \in TimedEntry
      /\ lru' = lru /\ lru' \in [Keys -> TimedEntry \cup {None}]
  BY DEF JudgeExpired, IndInv, Types, Frame, Steps
<1>2. /\ Types'
      /\ pc'[c] = "remove" /\ op'[c] = op[c] /\ key'[c] = key[c]
      /\ \A e \in Calls \ {c} : /\ pc'[e] = pc[e] /\ op'[e] = op[e]
                                /\ key'[e] = key[e] /\ read'[e] = read[e]
                                /\ new'[e] = new[e]
  BY <1>1, GotoFacts
<1>3. Frame(c)'
  BY <1>1, <1>2 DEF Frame
<1>4. \A e \in Calls : Frame(e)'
  BY <1>2, <1>3, OthersKeepFrame
<1> QED BY <1>2, <1>4 DEF IndInv

(* lru.Remove preserves it. *)
LEMMA LruRemoveInv ==
  ASSUME IndInv, NEW c \in Calls, LruRemove(c)
  PROVE  IndInv'
<1>1. /\ Return(c)
      /\ lru' \in [Keys -> TimedEntry \cup {None}]
  BY DEF LruRemove, IndInv, Types
<1> QED BY <1>1, ReturnFacts DEF IndInv

(* Flush preserves it. *)
LEMMA FlushInv ==
  ASSUME IndInv, NEW c \in Procs, Flush(c)
  PROVE  IndInv'
<1>1. /\ lru' \in [Keys -> TimedEntry \cup {None}]
      /\ UNCHANGED <<now, op, pc, key, read, new, todo>>
  BY DEF Flush
<1> QED BY <1>1 DEF IndInv, Types, Frame

(* The call of a method preserves it. *)
LEMMA CallInv ==
  ASSUME IndInv, NEW c \in Procs, NEW m \in Ops, NEW k \in Keys, Call(c, m, k)
  PROVE  IndInv'
<1>1. c \in Calls /\ c # Janitor
  BY CallAssumption DEF Calls
<1>2. Types'
  BY <1>1 DEF Call, IndInv, Types, Steps
<1>3. /\ pc'[c] = IF m \in {"Set", "Update"} THEN "clock" ELSE "read"
      /\ op'[c] = m /\ key'[c] = k /\ m \in Methods
      /\ \A d \in Calls \ {c} : /\ pc'[d] = pc[d] /\ op'[d] = op[d]
                                /\ key'[d] = key[d] /\ read'[d] = read[d]
                                /\ new'[d] = new[d]
  BY <1>1 DEF Call, IndInv, Types
<1>4. Frame(c)'
  BY <1>1, <1>3 DEF Frame
<1>5. \A d \in Calls : Frame(d)'
  BY <1>1, <1>3, <1>4, OthersKeepFrame
<1> QED BY <1>2, <1>5 DEF IndInv

(* The loop of DeleteExpired preserves it. *)
LEMMA SweepInv ==
  ASSUME IndInv, SweepKeys \/ SweepNext \/ SweepEnd
  PROVE  IndInv'
<1>1. Janitor \in Calls /\ op[Janitor] = "DeleteExpired"
  BY DEF Calls, IndInv, Frame
<1>2. Types'
  BY <1>1 DEF SweepKeys, SweepNext, SweepEnd, IndInv, Types, Steps
<1>3. /\ pc'[Janitor] \in {"idle", "sweep"} \/ (pc'[Janitor] = "read" /\ key'[Janitor] \in Keys)
      /\ op'[Janitor] = "DeleteExpired"
      /\ \A d \in Calls \ {Janitor} : /\ pc'[d] = pc[d] /\ op'[d] = op[d]
                                      /\ key'[d] = key[d] /\ read'[d] = read[d]
                                      /\ new'[d] = new[d]
  BY <1>1 DEF SweepKeys, SweepNext, SweepEnd, IndInv, Types
<1>4. Frame(Janitor)'
  BY <1>3 DEF Frame, Writers
<1>5. \A d \in Calls : Frame(d)'
  BY <1>1, <1>3, <1>4, OthersKeepFrame
<1> QED BY <1>2, <1>5 DEF IndInv

(* NewInMemoryStore establishes the invariant. *)
LEMMA InitInv == Init => IndInv
<1> SUFFICES ASSUME Init PROVE IndInv
  OBVIOUS
<1>1. Types
  BY TimeAssumption DEF Init, Types, Steps
<1>2. \A c \in Calls : Frame(c)
  BY DEF Init, Frame, Writers
<1> QED BY <1>1, <1>2 DEF IndInv

(* Every step of every goroutine preserves it. *)
LEMMA NextInv == IndInv /\ [Next]_vars => IndInv'
<1> SUFFICES ASSUME IndInv, [Next]_vars PROVE IndInv'
  OBVIOUS
<1>1. ASSUME NEW c \in Calls, Step(c) PROVE IndInv'
  BY <1>1, ReadInv, ClockInv, WriteInv, HitInv, JudgeExpiredInv, LruRemoveInv DEF Step
<1>2. ASSUME NEW c \in Procs, Step(c) \/ Flush(c) \/ \E m \in Ops, k \in Keys : Call(c, m, k)
      PROVE  IndInv'
  <2>1. c \in Calls
    BY DEF Calls
  <2> QED BY <1>1, <1>2, <2>1, FlushInv, CallInv
<1>3. CASE Sweep
  <2>1. Janitor \in Calls
    BY DEF Calls
  <2> QED BY <1>1, <1>3, <2>1, SweepInv DEF Sweep
<1>4. CASE Tick
  <2>1. Types' /\ now' \in Nat /\ UNCHANGED <<lru, op, pc, key, read, new, todo>>
    BY <1>4, TimeAssumption DEF Tick, IndInv, Types
  <2> QED BY <2>1 DEF IndInv, Frame
<1>5. CASE UNCHANGED vars
  BY <1>5 DEF vars, IndInv, Types, Frame
<1> QED BY <1>2, <1>3, <1>4, <1>5 DEF Next

-----------------------------------------------------------------------------
(* IndInv holds in every reachable state. *)
THEOREM Invariance == Spec => []IndInv
BY InitInv, NextInv, PTL DEF Spec

(* The variables of the store and of its calls have their types: what an   *)
(* lru.Get returns is an entry, so val.(GenericCacheEntry) never panics.   *)
THEOREM TypeCorrect == Spec => []TypeOK
<1>1. IndInv => TypeOK
  BY DEF IndInv, Types, TypeOK, TimedEntry
<1> QED BY <1>1, Invariance, PTL

(* For every clock resolution and expiration, Get never returns an entry   *)
(* past the time its writer asked for.                                     *)
THEOREM ServedInTime == Spec => NeverServedLate
<1>1. ASSUME IndInv, NEW c \in Procs, Hit(c)
      PROVE  read[c].by = FOREVER \/ now <= read[c].by
  <2>1. c \in Calls
    BY DEF Calls
  <2>2. read[c] \in TimedEntry /\ ~Expired(read[c]) /\ now \in Nat
    BY <1>1, <2>1 DEF IndInv, Frame, Hit, Types
  <2>3. Timed(read[c].exp, read[c].by) /\ read[c].exp \in Nat
    BY <2>2 DEF TimedEntry, Entry
  <2> DEFINE e == read[c].exp
             b == read[c].by
  <2>4. e = 0 \/ now <= e
    BY <2>2, <2>3 DEF Expired
  <2>5. Timed(e, b) /\ e \in Nat
    BY <2>3
  <2> HIDE DEF e, b
  <2>6. b = FOREVER \/ now <= b
    BY <2>2, <2>4, <2>5 DEF Timed
  <2> QED BY <2>6 DEF b
<1>2. IndInv /\ [Next]_vars
      => [\A c \in Procs : Hit(c) => read[c].by = FOREVER \/ now <= read[c].by]_vars
  BY <1>1
<1> QED BY <1>2, Invariance, PTL DEF Spec, NeverServedLate

(* No entry is taken for expired two seconds or more before its time, and  *)
(* none that was stored FOREVER ever is.                                   *)
THEOREM NotExpiredEarly == Spec => ExpiredAtMostTwoSecondsEarly
<1>1. ASSUME IndInv, NEW c \in Calls, JudgeExpired(c)
      PROVE  read[c].by # FOREVER /\ now > read[c].by - 2 * TPS
  <2>1. read[c] \in TimedEntry /\ Expired(read[c]) /\ now \in Nat
    BY <1>1 DEF IndInv, Frame, JudgeExpired, Types
  <2>2. Timed(read[c].exp, read[c].by) /\ read[c].exp \in Nat
    BY <2>1 DEF TimedEntry, Entry
  <2> QED BY <2>1, <2>2, TimeAssumption DEF Timed, Expired, FOREVER
<1>2. IndInv /\ [Next]_vars
      => [\A c \in Calls : JudgeExpired(c) =>
            read[c].by # FOREVER /\ now > read[c].by - 2 * TPS]_vars
  BY <1>1
<1> QED BY <1>2, Invariance, PTL DEF Spec, ExpiredAtMostTwoSecondsEarly

-----------------------------------------------------------------------------
(* A call that counts stores what its arithmetic gave. *)
LEMMA CountedData ==
  ASSUME IndInv, NEW c \in Procs, NEW d, Goto(c, "write", Found(c), WithData(Found(c), d))
  PROVE  new'[c].data = d
BY DEF IndInv, Types, Calls, Goto, WithData

(* What Incremented and Decremented are, as arithmetic without a width *)
LEMMA IntArithmetic ==
  ASSUME NEW i \in Ints, NEW n \in Uints
  PROVE  /\ \/ ToUint64(Incremented(i, n)) = ToUint64(i) + n
            \/ ToUint64(Incremented(i, n)) = (ToUint64(i) + n) - 2 * Half
         /\ n < Half => Decremented(i, n) = IF n > i THEN 0 ELSE i - n
<1>1. Half \in Nat /\ Half > 0 /\ i \in Int /\ -Half <= i /\ i < Half /\ n \in Nat /\ n < 2 * Half
  BY HalfAssumption DEF Ints, Uints
<1>2. \/ ToUint64(Incremented(i, n)) = ToUint64(i) + n
      \/ ToUint64(Incremented(i, n)) = (ToUint64(i) + n) - 2 * Half
  <2>1. CASE n < Half
    BY <1>1, <2>1 DEF Incremented, Wrap, ToInt, ToUint64
  <2>2. CASE n >= Half
    BY <1>1, <2>2 DEF Incremented, Wrap, ToInt, ToUint64
  <2> QED BY <1>1, <2>1, <2>2
<1>3. n < Half => Decremented(i, n) = IF n > i THEN 0 ELSE i - n
  BY <1>1 DEF Decremented, Wrap, ToInt
<1> QED BY <1>2, <1>3

(* For every width, Increment is addition modulo 2^width on the uint64 it  *)
(* returns.                                                                *)
THEOREM IncrementIsModular == Spec => IncrementWraps
<1>1. ASSUME IndInv, NEW c \in Procs, NEW n \in Amounts, Increment(c, n)
      PROVE  LET sum == ToUint64(Found(c).data) + n
             IN  ToUint64(new'[c].data) \in {sum, sum - 2 * Half}
  <2>1. Found(c).data \in Ints /\ new'[c].data = Incremented(Found(c).data, n)
    BY <1>1, CountedData DEF Increment
  <2>2. n \in Uints
    BY CallAssumption
  <2> QED BY <2>1, <2>2, IntArithmetic
<1>2. IndInv /\ [Next]_vars
      => [\A c \in Procs, n \in Amounts : Increment(c, n) =>
            LET sum == ToUint64(Found(c).data) + n
            IN  ToUint64(new'[c].data) \in {sum, sum - 2 * Half}]_vars
  BY <1>1
<1> QED BY <1>2, Invariance, PTL DEF Spec, IncrementWraps

(* For every width, Decrement by an amount that fits an int is subtraction *)
(* capped at 0.                                                            *)
THEOREM DecrementIsCapped == Spec => SmallDecrementCapped
<1>1. ASSUME IndInv, NEW c \in Procs, NEW n \in Amounts, n < Half, Decrement(c, n)
      PROVE  new'[c].data = IF n > Found(c).data THEN 0 ELSE Found(c).data - n
  <2>1. Found(c).data \in Ints /\ new'[c].data = Decremented(Found(c).data, n)
    BY <1>1, CountedData DEF Decrement
  <2> QED BY <1>1, <2>1, CallAssumption, IntArithmetic
<1>2. IndInv /\ [Next]_vars
      => [\A c \in Procs, n \in Amounts : n < Half /\ Decrement(c, n) =>
            new'[c].data = IF n > Found(c).data THEN 0 ELSE Found(c).data - n]_vars
  BY <1>1
<1> QED BY <1>2, Invariance, PTL DEF Spec, SmallDecrementCapped
=============================================================================
