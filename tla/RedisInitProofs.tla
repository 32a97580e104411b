-------------------------- MODULE RedisInitProofs ---------------------------
(***************************************************************************)
(* Proofs about RedisPool and RedisInit, for any number of callers and     *)
(* servers, any limits of the pools, and any number of faults.             *)
(***************************************************************************)
EXTENDS RedisInit, TLAPS, FiniteSetTheorems, SequenceTheorems

Steps ==
  {"out", "wait", "prune", "pruned", "pop", "test", "refused", "dial", "connect",
   "use", "put", "release"}

(* With p.Wait, the callers that have a token *)
Holding == {c \in Callers : pc[c] \notin {"out", "wait"}}

(* What a caller has at each step *)
Frame ==
  \A c \in Callers :
    /\ pc[c] \in {"test", "use", "put"} => conn[c] \in Connections
    /\ pc[c] = "connect" => addr[c] \in Servers
    /\ pc[c] = "wait" => pool.wait /\ pool.maxActive > 0

(* Tokens are neither lost nor made. *)
Tokens ==
  IF pool.wait /\ pool.maxActive > 0
  THEN tokens + Cardinality(Holding) = pool.maxActive
  ELSE tokens = pool.maxActive

(* While the constructor runs it is the only caller; once its first probe, *)
(* a Set, was answered without error, a master has taken a write.          *)
Trying ==
  result = "none" =>
    /\ \A c \in Callers \ {Main} : pc[c] = "out"
    /\ ProbesOf(made) # <<>> =>
         /\ \/ probes = ProbesOf(made) /\ pc[Main] = "out" /\ reply = "none"
            \/ Len(probes) = Len(ProbesOf(made)) - 1 /\ (cmd[Main] = "Set" \/ pc[Main] = "out")
            \/ Len(probes) < Len(ProbesOf(made)) - 1 /\ written
         /\ reply = "ok" => written
         /\ pc[Main] \in {"put", "release", "out"} /\ Len(probes) < Len(ProbesOf(made))
              => reply # "none"

(* The parts of TypeOK that are the pool's and the constructor's *)
PoolTypes ==
  /\ pool \in Pools
  /\ idle \in Seq(Connections) /\ Len(idle) <= pool.maxIdle
  /\ active \in Nat /\ tokens \in 0..pool.maxActive
  /\ pc \in [Callers -> Steps]
  /\ conn \in [Callers -> Connections \cup {None}]
  /\ addr \in [Callers -> Servers \cup {None}]
  /\ cmd \in [Callers -> {"Set", "Get", None}]
  /\ reply \in {"none", "ok", "error"}
  /\ role \in [Servers -> {"master", "replica"}]
  /\ master \in Servers /\ up \subseteq Servers
  /\ faults \in 0..MaxFaults

InitTypes ==
  /\ made \in Calls
  /\ probes \in Seq({"Set", "Get"})
  /\ result \in {"none", "nil", "cache", "cacheAndError"}
  /\ written \in BOOLEAN

(* The inductive invariant: of the pool, whoever made it, and with what    *)
(* the constructor adds                                                    *)
PoolInv ==
  /\ PoolTypes
  /\ Frame
  /\ ActiveBound
  /\ Tokens

IndInv ==
  /\ PoolInv
  /\ InitTypes
  /\ pool = PoolOf(made)
  /\ Trying
  /\ TriedIsWritable

-----------------------------------------------------------------------------
(* Counting *)

OutsidePool(step) == step \in {"out", "wait", "prune", "pop"}
WithoutToken(step) == step \in {"out", "wait"}

(* Callers that have a connection are among those that are in get or put. *)
LEMMA Counts ==
  ASSUME PoolTypes
  PROVE  /\ IsFiniteSet(Busy) /\ Cardinality(Busy) \in Nat
         /\ IsFiniteSet(Holding) /\ Cardinality(Holding) \in Nat
         /\ Cardinality(Busy) <= Cardinality(Holding)
         /\ \A c \in Callers : pc[c] \in {"prune", "pop"} =>
              Cardinality(Busy) + 1 <= Cardinality(Holding)
<1>1. IsFiniteSet(Busy) /\ IsFiniteSet(Holding)
  BY PoolAssumption, FS_Subset DEF Busy, Holding
<1>2. Cardinality(Busy) \in Nat /\ Cardinality(Holding) \in Nat
  BY <1>1, FS_CardinalityType
<1>3. Cardinality(Busy) <= Cardinality(Holding)
  <2>1. Busy \in SUBSET Holding
    BY DEF Busy, Holding
  <2> QED BY <1>1, <2>1, FS_Subset
<1>4. ASSUME NEW c \in Callers, pc[c] \in {"prune", "pop"}
      PROVE  Cardinality(Busy) + 1 <= Cardinality(Holding)
  <2>1. Busy \cup {c} \in SUBSET Holding /\ c \notin Busy
    BY <1>4 DEF Busy, Holding
  <2>2. Cardinality(Busy \cup {c}) = Cardinality(Busy) + 1
    BY <1>1, <2>1, FS_AddElement
  <2> QED BY <1>1, <2>1, <2>2, FS_Subset
<1> QED BY <1>1, <1>2, <1>3, <1>4

(* A step of one caller adds it to a set of callers, or takes it out. *)
LEMMA SetMoves ==
  ASSUME NEW S, NEW T, NEW c, IsFiniteSet(S), \A x : x # c => (x \in S <=> x \in T)
  PROVE  /\ c \in S /\ c \in T => Cardinality(T) = Cardinality(S)
         /\ c \notin S /\ c \notin T => Cardinality(T) = Cardinality(S)
         /\ c \notin S /\ c \in T => Cardinality(T) = Cardinality(S) + 1
         /\ c \in S /\ c \notin T => Cardinality(T) = Cardinality(S) - 1
<1>1. c \in S /\ c \in T => S = T
  OBVIOUS
<1>2. c \notin S /\ c \notin T => S = T
  OBVIOUS
<1>3. c \notin S /\ c \in T => T = S \cup {c}
  OBVIOUS
<1>4. c \in S /\ c \notin T => T = S \ {c}
  OBVIOUS
<1> QED BY <1>1, <1>2, <1>3, <1>4, FS_AddElement, FS_RemoveElement

(* So a step of c changes the number of callers that have a connection, or *)
(* that have a token, by what its old and its new place say.               *)
LEMMA CallerMoves ==
  ASSUME PoolTypes, NEW c \in Callers, NEW step \in Steps, Goto(c, step)
  PROVE  /\ pc' \in [Callers -> Steps]
         /\ pc'[c] = step
         /\ \A d \in Callers \ {c} : pc'[d] = pc[d]
         /\ Cardinality(Busy') =
              IF OutsidePool(pc[c]) <=> OutsidePool(step) THEN Cardinality(Busy)
              ELSE IF OutsidePool(step) THEN Cardinality(Busy) - 1
              ELSE Cardinality(Busy) + 1
         /\ Cardinality(Holding') =
              IF WithoutToken(pc[c]) <=> WithoutToken(step) THEN Cardinality(Holding)
              ELSE IF WithoutToken(step) THEN Cardinality(Holding) - 1
              ELSE Cardinality(Holding) + 1
<1>1. /\ pc' \in [Callers -> Steps]
      /\ pc'[c] = step
      /\ \A d \in Callers \ {c} : pc'[d] = pc[d]
  BY DEF PoolTypes, Goto
<1>2. /\ \A x : x # c => (x \in Busy <=> x \in Busy')
      /\ c \in Busy <=> ~OutsidePool(pc[c])
      /\ c \in Busy' <=> ~OutsidePool(step)
  BY <1>1 DEF Busy, OutsidePool
<1>3. /\ \A x : x # c => (x \in Holding <=> x \in Holding')
      /\ c \in Holding <=> ~WithoutToken(pc[c])
      /\ c \in Holding' <=> ~WithoutToken(step)
  BY <1>1 DEF Holding, WithoutToken
<1>4. IsFiniteSet(Busy) /\ IsFiniteSet(Holding)
  BY Counts
<1>5. Cardinality(Busy') =
        IF OutsidePool(pc[c]) <=> OutsidePool(step) THEN Cardinality(Busy)
        ELSE IF OutsidePool(step) THEN Cardinality(Busy) - 1
        ELSE Cardinality(Busy) + 1
  <2>1. /\ c \in Busy /\ c \in Busy' => Cardinality(Busy') = Cardinality(Busy)
        /\ c \notin Busy /\ c \notin Busy' => Cardinality(Busy') = Cardinality(Busy)
        /\ c \notin Busy /\ c \in Busy' => Cardinality(Busy') = Cardinality(Busy) + 1
        /\ c \in Busy /\ c \notin Busy' => Cardinality(Busy') = Cardinality(Busy) - 1
    BY <1>2, <1>4, SetMoves, Zenon
  <2> QED BY <1>2, <2>1, Zenon
<1>6. Cardinality(Holding') =
        IF WithoutToken(pc[c]) <=> WithoutToken(step) THEN Cardinality(Holding)
        ELSE IF WithoutToken(step) THEN Cardinality(Holding) - 1
        ELSE Cardinality(Holding) + 1
  <2>1. /\ c \in Holding /\ c \in Holding' => Cardinality(Holding') = Cardinality(Holding)
        /\ c \notin Holding /\ c \notin Holding' => Cardinality(Holding') = Cardinality(Holding)
        /\ c \notin Holding /\ c \in Holding' => Cardinality(Holding') = Cardinality(Holding) + 1
        /\ c \in Holding /\ c \notin Holding' => Cardinality(Holding') = Cardinality(Holding) - 1
    BY <1>3, <1>4, SetMoves, Zenon
  <2> QED BY <1>3, <2>1, Zenon
<1> QED BY <1>1, <1>5, <1>6

-----------------------------------------------------------------------------
(* The steps of a caller *)

(* popBack takes one connection off the idle list. *)
LEMMA PopBackFacts ==
  ASSUME NEW S, NEW s \in Seq(S), s # <<>>
  PROVE  popBack(s) \in Seq(S) /\ Len(popBack(s)) = Len(s) - 1
<1>1. PICK n \in Nat : Len(s) = n + 1
  <2>1. Len(s) \in Nat /\ Len(s) > 0
    BY EmptySeq
  <2>2. Len(s) - 1 \in Nat /\ Len(s) = (Len(s) - 1) + 1
    BY <2>1
  <2> QED BY <2>2
<1>2. \A i \in 1..n : s[i] \in S
  BY <1>1, ElementOfSeq
<1>3. SubSeq(s, 1, n) \in Seq(S) /\ Len(SubSeq(s, 1, n)) = n
  BY <1>2, SubSeqProperties
<1> QED BY <1>1, <1>3 DEF popBack

(* put adds the caller's connection to the idle list. *)
LEMMA PushFacts ==
  ASSUME PoolTypes, NEW c \in Callers, conn[c] \in Connections
  PROVE  /\ Push(c) \in Seq(Connections) /\ Push(c) # <<>>
         /\ Len(Push(c)) = Len(idle) + 1
<1> DEFINE x == [conn[c] EXCEPT !.age = 0]
<1>1. x \in Connections
  BY DEF Connections
<1> HIDE DEF x
<1>2. <<x>> \in Seq(Connections) /\ Len(<<x>>) = 1
  BY <1>1
<1>3. /\ <<x>> \o idle \in Seq(Connections)
      /\ Len(<<x>> \o idle) = 1 + Len(idle)
  BY <1>2, ConcatProperties DEF PoolTypes
<1>4. Len(idle) \in Nat
  BY DEF PoolTypes
<1>5. Push(c) = <<x>> \o idle
  BY DEF Push, x
<1>6. Push(c) # <<>>
  BY <1>3, <1>4, <1>5
<1> QED BY <1>3, <1>4, <1>5, <1>6

(* What a step that moves c to a place must do to the count and to the     *)
(* tokens, given what becomes of the idle list                             *)
Balanced(c, step) ==
  /\ pool' = pool
  /\ idle' \in Seq(Connections)
  /\ active' \in Int
  /\ active' - Len(idle') = active - Len(idle) +
       (IF OutsidePool(pc[c]) <=> OutsidePool(step) THEN 0
        ELSE IF OutsidePool(step) THEN -1 ELSE 1)
  /\ active' <= active \/ (pc[c] \in {"prune", "pop"} /\ idle = <<>> /\ ~Exhausted
                             /\ active' = active + 1)
  /\ tokens' = tokens +
       (IF WithoutToken(pc[c]) <=> WithoutToken(step) THEN 0
        ELSE IF WithoutToken(step) THEN Token ELSE -Token)
  /\ tokens' >= 0

Settled ==
  ActiveBound' /\ Tokens' /\ active' \in Nat /\ tokens' \in 0..pool.maxActive

(* A step that does so keeps the counts right. *)
LEMMA Ledger ==
  ASSUME PoolInv, NEW c \in Callers, NEW step \in Steps, Goto(c, step), Balanced(c, step)
  PROVE  Settled
<1> USE DEF Balanced
<1> DEFINE B == Cardinality(Busy)
           H == Cardinality(Holding)
           B2 == Cardinality(Busy')
           H2 == Cardinality(Holding')
<1>1. /\ PoolTypes /\ ActiveBound /\ Tokens
      /\ pool.maxActive \in Nat /\ pool.wait \in BOOLEAN
      /\ Len(idle) \in Nat /\ Len(idle') \in Nat
      /\ active \in Nat /\ tokens \in Nat /\ tokens <= pool.maxActive
  BY DEF PoolInv, PoolTypes, Pools
<1>2. /\ B \in Nat /\ H \in Nat /\ B <= H
      /\ pc[c] \in {"prune", "pop"} => B + 1 <= H
  BY <1>1, Counts
<1>3. /\ pc' \in [Callers -> Steps]
      /\ B2 = IF OutsidePool(pc[c]) <=> OutsidePool(step) THEN B
              ELSE IF OutsidePool(step) THEN B - 1 ELSE B + 1
      /\ H2 = IF WithoutToken(pc[c]) <=> WithoutToken(step) THEN H
              ELSE IF WithoutToken(step) THEN H - 1 ELSE H + 1
  BY <1>1, CallerMoves
<1>4. B2 \in Nat /\ H2 \in Nat
  <2>1. IsFiniteSet(Busy') /\ IsFiniteSet(Holding')
    BY PoolAssumption, FS_Subset DEF Busy, Holding
  <2> QED BY <2>1, FS_CardinalityType
<1>5. active = Len(idle) + B /\ (pool.maxActive > 0 => active <= pool.maxActive)
  BY <1>1 DEF ActiveBound
<1>6. IF pool.wait /\ pool.maxActive > 0
      THEN tokens + H = pool.maxActive ELSE tokens = pool.maxActive
  BY <1>1 DEF Tokens
<1> HIDE DEF B, H, B2, H2
<1>7. active' = Len(idle') + B2 /\ active' \in Nat
  <2>1. active' - Len(idle') = B2
    BY <1>1, <1>2, <1>3, <1>5
  <2> QED BY <1>1, <1>4, <2>1
<1>8. pool.maxActive > 0 => active' <= pool.maxActive
  <2>1. CASE active' <= active
    BY <1>1, <1>5, <1>7, <2>1
  <2>2. CASE pc[c] \in {"prune", "pop"} /\ idle = <<>> /\ ~Exhausted /\ active' = active + 1
    <3>1. CASE pool.wait
      BY <1>1, <1>2, <1>5, <1>6, <2>2, <3>1
    <3>2. CASE ~pool.wait
      BY <1>1, <2>2, <3>2 DEF Exhausted
    <3> QED BY <3>1, <3>2
  <2> QED BY <2>1, <2>2
<1>9. IF pool.wait /\ pool.maxActive > 0
      THEN tokens' + H2 = pool.maxActive ELSE tokens' = pool.maxActive
  BY <1>1, <1>2, <1>3, <1>6 DEF Token
<1>10. tokens' \in 0..pool.maxActive
  <2>1. CASE pool.wait /\ pool.maxActive > 0
    <3>1. tokens' \in Int
      BY <1>1 DEF Token
    <3> QED BY <1>1, <1>4, <1>9, <2>1, <3>1
  <2>2. CASE ~(pool.wait /\ pool.maxActive > 0)
    BY <1>1, <1>9, <2>2
  <2> QED BY <2>1, <2>2
<1>11. ActiveBound'
  BY <1>7, <1>8 DEF ActiveBound, B2
<1>12. Tokens'
  BY <1>9 DEF Tokens, H2
<1> QED BY <1>7, <1>10, <1>11, <1>12 DEF Settled

(* Each section under the pool's lock, and each command, preserves the     *)
(* invariant.                                                              *)
LEMMA RunPreserves ==
  ASSUME PoolInv, NEW c \in Callers, Run(c) \/ Acquire(c)
  PROVE  PoolInv'
<1> USE DEF Steps, OutsidePool, WithoutToken
<1>1. /\ PoolTypes /\ Frame
      /\ pool.maxActive \in Nat /\ pool.maxIdle \in Nat /\ pool.wait \in BOOLEAN
      /\ idle \in Seq(Connections) /\ Len(idle) \in Nat /\ active \in Nat /\ tokens \in Nat
      /\ Token \in {0, 1}
  BY DEF PoolInv, PoolTypes, Pools, Token
<1>2. CASE Acquire(c)
  <2>1. Goto(c, "prune")
    BY <1>2 DEF Acquire
  <2>2. Settled
    <3>1. Balanced(c, "prune")
      BY <1>1, <1>2, <2>1 DEF Acquire, Frame, Token, Balanced
    <3> QED BY <2>1, <3>1, Ledger
  <2>3. Frame'
    BY <1>1, <1>2, <2>1 DEF Acquire, Goto, Holds, PoolTypes, Frame
  <2>4. PoolTypes'
    BY <1>1, <1>2, <2>1, <2>2 DEF Acquire, Goto, Holds, PoolTypes, Frame, servers, Settled
  <2> QED BY <1>1, <1>2, <2>2, <2>3, <2>4 DEF Acquire, PoolInv, servers, Settled
<1>3. CASE Prune(c)
  <2>1. Goto(c, "pruned")
    BY <1>3 DEF Prune, BackIsStale
  <2>2. idle' \in Seq(Connections) /\ Len(idle') = Len(idle) - 1
    BY <1>1, <1>3, PopBackFacts DEF Prune, BackIsStale, PoolTypes, Frame
  <2>3. Settled
    <3>1. Balanced(c, "pruned")
      BY <1>1, <1>3, <2>1, <2>2 DEF Prune, BackIsStale, Token, Balanced
    <3> QED BY <2>1, <3>1, Ledger
  <2>4. Frame'
    BY <1>1, <1>3, <2>1, <2>2 DEF Prune, BackIsStale, Goto, Holds, PoolTypes, Frame
  <2>5. PoolTypes'
    BY <1>1, <1>3, <2>1, <2>3, <2>2 DEF Prune, BackIsStale, Goto, Holds, PoolTypes, Frame, servers, Settled
  <2> QED BY <1>1, <1>3, <2>3, <2>4, <2>5 DEF Prune, PoolInv, servers, Settled
<1>4. CASE Closed(c)
  <2>1. PICK step \in {"prune", "pop"} : Goto(c, step)
    BY <1>4 DEF Closed
  <2>2. Settled
    <3>1. Balanced(c, step)
      BY <1>1, <1>4, <2>1 DEF Closed, Token, Balanced
    <3> QED BY <2>1, <3>1, Ledger
  <2>3. Frame'
    BY <1>1, <1>4, <2>1 DEF Closed, Goto, Holds, PoolTypes, Frame
  <2>4. PoolTypes'
    BY <1>1, <1>4, <2>1, <2>2 DEF Closed, Goto, Holds, PoolTypes, Frame, servers, Settled
  <2> QED BY <1>1, <1>4, <2>2, <2>3, <2>4 DEF Closed, PoolInv, servers, Settled
<1>5. CASE PopFront(c)
  <2>1. Goto(c, "test")
    BY <1>5 DEF PopFront, Pruned
  <2>2. idle' \in Seq(Connections) /\ Len(idle') = Len(idle) - 1
    BY <1>1, <1>5, HeadTailProperties DEF PopFront, Pruned, PoolTypes, Frame
  <2>3. Settled
    <3>1. Balanced(c, "test")
      BY <1>1, <1>5, <2>1, <2>2 DEF PopFront, Pruned, Token, Balanced
    <3> QED BY <2>1, <3>1, Ledger
  <2>4. Frame'
    BY <1>1, <1>5, <2>1, <2>2, HeadTailProperties DEF PopFront, Pruned, Goto, Holds, PoolTypes, Frame
  <2>5. PoolTypes'
    BY <1>1, <1>5, <2>1, <2>3, <2>2, HeadTailProperties DEF PopFront, Pruned, Goto, Holds, PoolTypes, Frame, servers, Settled
  <2> QED BY <1>1, <1>5, <2>3, <2>4, <2>5 DEF PopFront, PoolInv, servers, Settled
<1>6. CASE NewConnection(c)
  <2>1. Goto(c, "dial")
    BY <1>6 DEF NewConnection, Pruned, Exhausted
  <2>2. Settled
    <3>1. Balanced(c, "dial")
      BY <1>1, <1>6, <2>1 DEF NewConnection, Pruned, Exhausted, Token, Balanced
    <3> QED BY <2>1, <3>1, Ledger
  <2>3. Frame'
    BY <1>1, <1>6, <2>1 DEF NewConnection, Pruned, Exhausted, Goto, Holds, PoolTypes, Frame
  <2>4. PoolTypes'
    BY <1>1, <1>6, <2>1, <2>2 DEF NewConnection, Pruned, Exhausted, Goto, Holds, PoolTypes, Frame, servers, Settled
  <2> QED BY <1>1, <1>6, <2>2, <2>3, <2>4 DEF NewConnection, PoolInv, servers, Settled
<1>7. CASE Refuse(c)
  <2>1. Goto(c, "out")
    BY <1>7 DEF Refuse, Pruned, Exhausted
  <2>2. Settled
    <3>1. Balanced(c, "out")
      BY <1>1, <1>7, <2>1 DEF Refuse, Pruned, Exhausted, Token, Balanced
    <3> QED BY <2>1, <3>1, Ledger
  <2>3. Frame'
    BY <1>1, <1>7, <2>1 DEF Refuse, Pruned, Exhausted, Goto, Holds, PoolTypes, Frame
  <2>4. PoolTypes'
    BY <1>1, <1>7, <2>1, <2>2 DEF Refuse, Pruned, Exhausted, Goto, Holds, PoolTypes, Frame, servers, Settled
  <2> QED BY <1>1, <1>7, <2>2, <2>3, <2>4 DEF Refuse, PoolInv, servers, Settled
<1>8. CASE TestPasses(c)
  <2>1. Goto(c, "use")
    BY <1>8 DEF TestPasses
  <2>2. PICK x \in Connections : conn' = [conn EXCEPT ![c] = x]
    <3>1. conn[c] \in Connections
      BY <1>1, <1>8 DEF TestPasses, Frame
    <3>2. [conn[c] EXCEPT !.age = 0] \in Connections
      BY <3>1 DEF Connections
    <3> QED BY <1>8, <3>2 DEF TestPasses, Holds
  <2>3. Settled
    <3>1. Balanced(c, "use")
      <4>1. pc[c] = "test" /\ UNCHANGED <<pool, idle, active, tokens>>
        BY <1>8 DEF TestPasses
      <4> QED BY <1>1, <4>1 DEF Balanced
    <3> QED BY <2>1, <3>1, Ledger
  <2>4. Frame'
    BY <1>1, <1>8, <2>1, <2>2 DEF TestPasses, Goto, PoolTypes, Frame
  <2>5. PoolTypes'
    BY <1>1, <1>8, <2>1, <2>3, <2>2 DEF TestPasses, Goto, PoolTypes, servers, Settled
  <2> QED BY <1>1, <1>8, <2>3, <2>4, <2>5 DEF TestPasses, PoolInv, servers, Settled
<1>9. CASE TestFails(c)
  <2>1. Goto(c, "refused")
    BY <1>9 DEF TestFails
  <2>2. Settled
    <3>1. Balanced(c, "refused")
      <4>1. pc[c] = "test" /\ UNCHANGED <<pool, idle, active, tokens>>
        BY <1>9 DEF TestFails
      <4> QED BY <1>1, <4>1 DEF Balanced
    <3> QED BY <2>1, <3>1, Ledger
  <2>3. Frame'
    BY <1>1, <1>9, <2>1 DEF TestFails, Goto, Holds, PoolTypes, Frame
  <2>4. PoolTypes'
    BY <1>1, <1>9, <2>1, <2>2 DEF TestFails, Goto, Holds, PoolTypes, Frame, servers, Settled
  <2> QED BY <1>1, <1>9, <2>2, <2>3, <2>4 DEF TestFails, PoolInv, servers, Settled
<1>10. CASE FindServer(c)
  <2>1. Goto(c, "connect")
    BY <1>10 DEF FindServer
  <2>2. Settled
    <3>1. Balanced(c, "connect")
      <4>1. pc[c] = "dial" /\ UNCHANGED <<pool, idle, active, tokens>>
        BY <1>10 DEF FindServer
      <4> QED BY <1>1, <4>1 DEF Balanced
    <3> QED BY <2>1, <3>1, Ledger
  <2>3. Frame'
    BY <1>1, <1>10, <2>1, PoolAssumption DEF FindServer, Goto, Holds, PoolTypes, Frame
  <2>4. PoolTypes'
    BY <1>1, <1>10, <2>1, <2>2, PoolAssumption DEF FindServer, Goto, Holds, PoolTypes, Frame, servers, Settled
  <2> QED BY <1>1, <1>10, <2>2, <2>3, <2>4 DEF FindServer, PoolInv, servers, Settled
<1>11. CASE Connect(c)
  <2>1. Goto(c, "use")
    BY <1>11 DEF Connect
  <2>2. PICK x \in Connections : conn' = [conn EXCEPT ![c] = x]
    <3>1. addr[c] \in Servers
      BY <1>1, <1>11 DEF Connect, Frame
    <3>2. [srv |-> addr[c], age |-> 0, link |-> "up"] \in Connections
      BY <3>1 DEF Connections
    <3> QED BY <1>11, <3>2 DEF Connect, Holds
  <2>3. Settled
    <3>1. Balanced(c, "use")
      <4>1. pc[c] = "connect" /\ UNCHANGED <<pool, idle, active, tokens>>
        BY <1>11 DEF Connect
      <4> QED BY <1>1, <4>1 DEF Balanced
    <3> QED BY <2>1, <3>1, Ledger
  <2>4. Frame'
    BY <1>1, <1>11, <2>1, <2>2 DEF Connect, Goto, PoolTypes, Frame
  <2>5. PoolTypes'
    BY <1>1, <1>11, <2>1, <2>3, <2>2 DEF Connect, Goto, PoolTypes, servers, Settled
  <2> QED BY <1>1, <1>11, <2>3, <2>4, <2>5 DEF Connect, PoolInv, servers, Settled
<1>12. CASE DialFails(c)
  <2>1. Goto(c, "out")
    BY <1>12 DEF DialFails
  <2>2. Settled
    <3>1. Balanced(c, "out")
      BY <1>1, <1>12, <2>1 DEF DialFails, Token, Balanced
    <3> QED BY <2>1, <3>1, Ledger
  <2>3. Frame'
    BY <1>1, <1>12, <2>1 DEF DialFails, Goto, Holds, PoolTypes, Frame
  <2>4. PoolTypes'
    BY <1>1, <1>12, <2>1, <2>2 DEF DialFails, Goto, Holds, PoolTypes, Frame, servers, Settled
  <2> QED BY <1>1, <1>12, <2>2, <2>3, <2>4 DEF DialFails, PoolInv, servers, Settled
<1>13. CASE PutIdle(c)
  <2>1. Goto(c, "out")
    BY <1>13 DEF PutIdle, Return
  <2>2. idle' \in Seq(Connections) /\ Len(idle') = Len(idle) + 1
    BY <1>1, <1>13, PushFacts DEF PutIdle, Return, PoolTypes, Frame
  <2>3. Settled
    <3>0. pc[c] = "put" /\ pool' = pool /\ active' = active /\ tokens' = tokens + Token
      BY <1>13 DEF PutIdle
    <3>1. Balanced(c, "out")
      <4>1. Len(idle) \in Nat /\ active \in Nat /\ tokens \in Nat /\ Token \in {0, 1}
        BY <1>1
      <4>2. active' - Len(idle') = active - Len(idle) + (-1) /\ tokens' >= 0
        BY <2>2, <3>0, <4>1
      <4> QED BY <2>2, <3>0, <4>1, <4>2 DEF Balanced
    <3> QED BY <2>1, <3>1, Ledger
  <2>4. Frame'
    BY <1>1, <1>13, <2>1, <2>2 DEF PutIdle, Return, Goto, Holds, PoolTypes, Frame
  <2>5. PoolTypes'
    <3>0. Len(idle) < pool.maxIdle /\ UNCHANGED <<pool, addr, reply, servers>>
      BY <1>13 DEF PutIdle
    <3>1. Len(idle') <= pool.maxIdle /\ UNCHANGED <<pool, addr, reply, servers>>
      BY <1>1, <2>2, <3>0
    <3>2. /\ cmd' = [cmd EXCEPT ![c] = None] /\ conn' = [conn EXCEPT ![c] = None]
          /\ pc' = [pc EXCEPT ![c] = "out"]
      BY <1>13 DEF PutIdle, Return, Goto, Holds
    <3> QED BY <1>1, <2>2, <2>3, <3>1, <3>2 DEF PoolTypes, servers, Settled
  <2> QED BY <1>1, <1>13, <2>3, <2>4, <2>5 DEF PutIdle, PoolInv, servers, Settled
<1>14. CASE PutFull(c)
  <2>1. Goto(c, "release")
    BY <1>14 DEF PutFull
  <2>2. idle' \in Seq(Connections) /\ Len(idle') = Len(idle)
    <3>1. conn[c] \in Connections /\ idle' = popBack(Push(c))
      BY <1>1, <1>14 DEF PutFull, Frame
    <3>2. Push(c) \in Seq(Connections) /\ Push(c) # <<>> /\ Len(Push(c)) = Len(idle) + 1
      BY <1>1, <3>1, PushFacts
    <3>3. idle' \in Seq(Connections) /\ Len(idle') = Len(Push(c)) - 1
      BY <3>1, <3>2, PopBackFacts
    <3> QED BY <1>1, <3>2, <3>3
  <2>3. Settled
    <3>1. Balanced(c, "release")
      <4>1. pc[c] = "put" /\ UNCHANGED <<pool, active, tokens>>
        BY <1>14 DEF PutFull
      <4> QED BY <1>1, <2>2, <4>1 DEF Balanced
    <3> QED BY <2>1, <3>1, Ledger
  <2>4. Frame'
    BY <1>1, <1>14, <2>1, <2>2 DEF PutFull, Goto, Holds, PoolTypes, Frame
  <2>5. PoolTypes'
    BY <1>1, <1>14, <2>1, <2>3, <2>2 DEF PutFull, Goto, Holds, PoolTypes, Frame, servers, Settled
  <2> QED BY <1>1, <1>14, <2>3, <2>4, <2>5 DEF PutFull, PoolInv, servers, Settled
<1>15. CASE PutBroken(c)
  <2>1. Goto(c, "release")
    BY <1>15 DEF PutBroken
  <2>2. Settled
    <3>1. Balanced(c, "release")
      <4>1. pc[c] = "put" /\ UNCHANGED <<pool, idle, active, tokens>>
        BY <1>15 DEF PutBroken
      <4> QED BY <1>1, <4>1 DEF Balanced
    <3> QED BY <2>1, <3>1, Ledger
  <2>3. Frame'
    BY <1>1, <1>15, <2>1 DEF PutBroken, Goto, Holds, PoolTypes, Frame
  <2>4. PoolTypes'
    BY <1>1, <1>15, <2>1, <2>2 DEF PutBroken, Goto, Holds, PoolTypes, Frame, servers, Settled
  <2> QED BY <1>1, <1>15, <2>2, <2>3, <2>4 DEF PutBroken, PoolInv, servers, Settled
<1>16. CASE Release(c)
  <2>1. Goto(c, "out")
    BY <1>16 DEF Release, Return
  <2>2. Settled
    <3>1. Balanced(c, "out")
      BY <1>1, <1>16, <2>1 DEF Release, Return, Token, Balanced
    <3> QED BY <2>1, <3>1, Ledger
  <2>3. Frame'
    BY <1>1, <1>16, <2>1 DEF Release, Return, Goto, Holds, PoolTypes, Frame
  <2>4. PoolTypes'
    BY <1>1, <1>16, <2>1, <2>2 DEF Release, Return, Goto, Holds, PoolTypes, Frame, servers, Settled
  <2> QED BY <1>1, <1>16, <2>2, <2>3, <2>4 DEF Release, PoolInv, servers, Settled
<1>17. CASE Use(c)
  <2>1. PICK r \in {"ok", "error"}, link \in {"up", "broken"} : Do(c, r, link)
    BY <1>17 DEF Use, SetOnMaster, SetOnReplica, GetValue, NoAnswer
  <2>2. pc[c] = "use" /\ Goto(c, "put")
    BY <1>17, <2>1 DEF Use, SetOnMaster, SetOnReplica, GetValue, NoAnswer, Do
  <2>3. Settled
    <3>1. Balanced(c, "put")
      BY <1>1, <2>1, <2>2 DEF Do, Balanced
    <3> QED BY <2>2, <3>1, Ledger
  <2>4. conn[c] \in Connections /\ conn \in [Callers -> Connections \cup {None}]
    BY <1>1, <2>2 DEF Frame, PoolTypes
  <2>5. [conn[c] EXCEPT !.link = link] \in Connections
    BY <2>4 DEF Connections
  <2>6. conn' = [conn EXCEPT ![c] = [conn[c] EXCEPT !.link = link]]
    BY <2>1 DEF Do
  <2>7. conn' \in [Callers -> Connections \cup {None}] /\ conn'[c] \in Connections
    BY <2>4, <2>5, <2>6
  <2>8. Frame'
    BY <1>1, <2>1, <2>2, <2>4, <2>6, <2>7 DEF Do, Goto, PoolTypes, Frame
  <2>9. PoolTypes'
    BY <1>1, <2>1, <2>2, <2>3, <2>7 DEF Do, Goto, PoolTypes, servers, Settled
  <2> QED BY <1>1, <2>1, <2>3, <2>8, <2>9 DEF Do, PoolInv, servers, Settled
<1> QED
  BY <1>2, <1>3, <1>4, <1>5, <1>6, <1>7, <1>8, <1>9, <1>10, <1>11, <1>12, <1>13, <1>14,
     <1>15, <1>16, <1>17
  DEF Run, Get, Put

(* So does the beginning of a method. *)
LEMMA StartPreserves ==
  ASSUME PoolInv, NEW c \in Callers, NEW m \in {"Set", "Get"}, Start(c, m)
  PROVE  PoolInv'
<1> USE DEF Steps, OutsidePool, WithoutToken
<1>1. /\ PoolTypes /\ Frame
      /\ idle \in Seq(Connections) /\ Len(idle) \in Nat /\ active \in Nat /\ tokens \in Nat
  BY DEF PoolInv, PoolTypes
<1>2. CASE pool.wait /\ pool.maxActive > 0
  <2>1. Goto(c, "wait")
    BY <1>2 DEF Start
  <2>2. Settled
    <3>1. Balanced(c, "wait")
      BY <1>1, <2>1 DEF Start, Balanced
    <3> QED BY <2>1, <3>1, Ledger
  <2>3. Frame'
    BY <1>1, <1>2, <2>1 DEF Start, Goto, PoolTypes, Frame
  <2>4. PoolTypes'
    BY <1>1, <2>1, <2>2 DEF Start, Goto, PoolTypes, servers, Settled
  <2> QED BY <1>1, <2>2, <2>3, <2>4 DEF Start, PoolInv, servers, Settled
<1>3. CASE ~(pool.wait /\ pool.maxActive > 0)
  <2>1. Goto(c, "prune") /\ Token = 0
    BY <1>3 DEF Start, Token
  <2>2. Settled
    <3>1. Balanced(c, "prune")
      BY <1>1, <2>1 DEF Start, Balanced
    <3> QED BY <2>1, <3>1, Ledger
  <2>3. Frame'
    BY <1>1, <2>1 DEF Start, Goto, PoolTypes, Frame
  <2>4. PoolTypes'
    BY <1>1, <2>1, <2>2 DEF Start, Goto, PoolTypes, servers, Settled
  <2> QED BY <1>1, <2>2, <2>3, <2>4 DEF Start, PoolInv, servers, Settled
<1> QED BY <1>2, <1>3

-----------------------------------------------------------------------------
(* The servers *)

(* What happens to connections from outside, one by one, leaves the counts *)
(* as they are.                                                            *)
LEMMA ConnectionsChange ==
  ASSUME PoolInv, UNCHANGED <<pool, active, tokens, pc, addr, cmd, reply>>,
         idle' \in Seq(Connections), Len(idle') = Len(idle),
         conn' \in [Callers -> Connections \cup {None}],
         \A c \in Callers : conn[c] \in Connections => conn'[c] \in Connections,
         role' \in [Servers -> {"master", "replica"}],  master' \in Servers,
         up' \subseteq Servers, faults' \in 0..MaxFaults
  PROVE  PoolInv'
<1>1. PoolTypes /\ Frame /\ ActiveBound /\ Tokens
  BY DEF PoolInv
<1>2. Busy' = Busy /\ Holding' = Holding
  BY DEF Busy, Holding
<1>3. PoolTypes'
  BY <1>1 DEF PoolTypes
<1>4. Frame'
  BY <1>1 DEF Frame
<1>5. ActiveBound' /\ Tokens'
  BY <1>1, <1>2 DEF ActiveBound, Tokens
<1> QED BY <1>3, <1>4, <1>5 DEF PoolInv

(* A connection that is cut by a server's crash is still a connection. *)
LEMMA CutFacts ==
  ASSUME NEW x \in Connections, NEW s \in Servers
  PROVE  Cut(x, s) \in Connections
BY DEF Cut, Connections

(* A crash changes no connection's place, only how it is. *)
LEMMA CutAllFacts ==
  ASSUME PoolTypes, NEW s \in Servers, CutAll(s)
  PROVE  /\ idle' \in Seq(Connections) /\ Len(idle') = Len(idle)
         /\ conn' \in [Callers -> Connections \cup {None}]
         /\ \A c \in Callers : conn[c] \in Connections => conn'[c] \in Connections
<1>1. \A i \in 1..Len(idle) : Cut(idle[i], s) \in Connections
  BY CutFacts, ElementOfSeq DEF PoolTypes
<1>2. idle' = [i \in 1..Len(idle) |-> Cut(idle[i], s)] /\ Len(idle) \in Nat
  <2>1. idle \in Seq(Connections)
    BY DEF PoolTypes
  <2> QED BY <2>1, LenProperties DEF CutAll
<1>3. idle' \in Seq(Connections) /\ Len(idle') = Len(idle)
  BY <1>1, <1>2
<1>4. conn' \in [Callers -> Connections \cup {None}]
  BY CutFacts DEF CutAll, PoolTypes
<1>5. \A c \in Callers : conn[c] \in Connections => conn'[c] \in Connections
  BY CutFacts DEF CutAll, PoolTypes
<1> QED BY <1>3, <1>4, <1>5

(* Crashes, restarts, failovers and the clock preserve the invariant. *)
LEMMA EnvironmentPreserves ==
  ASSUME PoolInv, Environment
  PROVE  PoolInv'
<1>1. PoolTypes
  BY DEF PoolInv
<1>2. /\ idle \in Seq(Connections)
      /\ conn \in [Callers -> Connections \cup {None}]
      /\ role \in [Servers -> {"master", "replica"}]
      /\ master \in Servers /\ up \subseteq Servers
      /\ faults \in 0..MaxFaults /\ MaxFaults \in Nat
  BY <1>1, PoolAssumption DEF PoolTypes
<1>3. ASSUME NEW s \in Servers, Crash(s)
      PROVE  PoolInv'
  <2>1. CutAll(s) /\ faults' \in 0..MaxFaults
    BY <1>2, <1>3 DEF Crash
  <2> QED BY <1>1, <1>2, <1>3, <2>1, CutAllFacts, ConnectionsChange DEF Crash
<1>4. ASSUME NEW s \in Servers, Restart(s)
      PROVE  PoolInv'
  BY <1>1, <1>2, <1>4, ConnectionsChange DEF Restart, callers
<1>5. ASSUME NEW s \in Servers, Promote(s)
      PROVE  PoolInv'
  BY <1>1, <1>2, <1>5, ConnectionsChange DEF Promote, callers
<1>6. ASSUME NEW s \in Servers, Demote(s)
      PROVE  PoolInv'
  <2>1. /\ idle' \in Seq(Connections) /\ Len(idle') = Len(idle)
        /\ conn' \in [Callers -> Connections \cup {None}]
        /\ \A c \in Callers : conn[c] \in Connections => conn'[c] \in Connections
    BY <1>1, <1>2, <1>6, CutAllFacts DEF Demote
  <2> QED BY <1>1, <1>2, <1>6, <2>1, ConnectionsChange DEF Demote
<1>7. ASSUME Tick
      PROVE  PoolInv'
  <2>1. \A x \in Connections : Older(x) \in Connections
    BY PoolAssumption DEF Older, Connections
  <2>2. idle' = [i \in 1..Len(idle) |-> Older(idle[i])] /\ Len(idle) \in Nat
    BY <1>2, <1>7 DEF Tick
  <2>3. idle' \in Seq(Connections) /\ Len(idle') = Len(idle)
    BY <1>2, <2>1, <2>2, ElementOfSeq
  <2>4. /\ conn' \in [Callers -> Connections \cup {None}]
        /\ \A c \in Callers : conn[c] \in Connections => conn'[c] \in Connections
    BY <1>2, <1>7, <2>1 DEF Tick, PoolInv, Frame
  <2> QED BY <1>1, <1>2, <1>7, <2>3, <2>4, ConnectionsChange DEF Tick, servers
<1> QED BY <1>3, <1>4, <1>5, <1>6, <1>7 DEF Environment

-----------------------------------------------------------------------------
(* The constructor *)

(* On a sentinel pool the probes are a Set and those of testCache. *)
LEMMA SentinelProbes ==
  LET q == <<"Set">> \o testCache
  IN  q \in Seq({"Set", "Get"}) /\ Len(q) = 3 /\ Head(q) = "Set"
<1> DEFINE a == <<"Set">>
           q == a \o testCache
<1>1. /\ a \in Seq({"Set", "Get"}) /\ Len(a) = 1 /\ a[1] = "Set"
      /\ testCache \in Seq({"Set", "Get"}) /\ Len(testCache) = 2
  BY DEF testCache
<1> HIDE DEF a
<1>2. /\ q \in Seq({"Set", "Get"}) /\ Len(q) = 3
      /\ q[1] = "Set"
  <2>1. /\ a \o testCache \in Seq({"Set", "Get"})
        /\ Len(a \o testCache) = Len(a) + Len(testCache)
        /\ \A i \in 1..Len(a) + Len(testCache) :
             (a \o testCache)[i] = IF i <= Len(a) THEN a[i] ELSE testCache[i - Len(a)]
    BY <1>1, ConcatProperties, Zenon
  <2>2. Len(a) + Len(testCache) = 3 /\ 1 \in 1..Len(a) + Len(testCache) /\ 1 <= Len(a)
    BY <1>1
  <2> QED BY <1>1, <2>1, <2>2
<1> HIDE DEF q
<1>3. Head(q) = q[1]
  BY <1>2
<1> QED BY <1>2, <1>3 DEF q, a

(* The probes, if there are any, are two or three, the first a Set. *)
LEMMA ProbesFacts ==
  ASSUME InitTypes, ProbesOf(made) # <<>>
  PROVE  /\ ProbesOf(made) \in Seq({"Set", "Get"})
         /\ Head(ProbesOf(made)) = "Set"
         /\ Len(ProbesOf(made)) = IF made.useSentinel THEN 3 ELSE 2
         /\ Len(testCache) = 2
<1>1. \/ ProbesOf(made) = <<"Set">> \o testCache /\ made.useSentinel
      \/ ProbesOf(made) = testCache /\ ~made.useSentinel
  BY DEF ProbesOf
<1>2. /\ testCache \in Seq({"Set", "Get"}) /\ Len(testCache) = 2
      /\ Head(testCache) = "Set"
  BY DEF testCache
<1> QED BY <1>1, <1>2, SentinelProbes, Zenon

(* What each constructor makes is a pool. *)
LEMMA PoolsMade ==
  ASSUME NEW m \in Calls
  PROVE  PoolOf(m) \in Pools
BY PoolAssumption, InitAssumption
DEF PoolOf, Pools, NewSentinelPool, NewRedisCache, ReadOnlyPool, Calls

(* The invariant holds of a pool that was just made. *)
LEMMA InitHolds == InitAll => IndInv
<1> SUFFICES ASSUME InitAll PROVE IndInv
  OBVIOUS
<1> USE DEF InitAll, Init
<1>1. InitTypes
  <2>1. ProbesOf(made) \in {<<>>, testCache, <<"Set">> \o testCache}
    BY DEF ProbesOf
  <2>2. testCache \in Seq({"Set", "Get"}) /\ <<>> \in Seq({"Set", "Get"})
    BY DEF testCache
  <2> QED BY <2>1, <2>2, SentinelProbes DEF InitTypes
<1>2. pool \in Pools
  BY PoolsMade
<1>3. PoolTypes
  <2>1. <<>> \in Seq(Connections)
    BY EmptySeq
  <2> QED BY <1>2, <2>1, PoolAssumption DEF PoolTypes, Pools, Steps
<1>4. Busy = {} /\ Holding = {}
  BY DEF Busy, Holding
<1>5. ActiveBound /\ Tokens
  BY <1>2, <1>4, FS_EmptySet DEF ActiveBound, Tokens, Pools
<1>6. Frame
  BY PoolAssumption DEF Frame
<1>7. Trying
  BY <1>1, ProbesFacts, InitAssumption DEF Trying
<1> QED BY <1>1, <1>3, <1>5, <1>6, <1>7 DEF IndInv, PoolInv, TriedIsWritable

(* What a caller's step does to the answer it waits for *)
LEMMA RunFacts ==
  ASSUME PoolTypes, NEW c \in Callers, Run(c) \/ Acquire(c)
  PROVE  /\ pool' = pool
         /\ pc[c] # "out"
         /\ \A d \in Callers \ {c} : pc'[d] = pc[d]
         /\ cmd'[c] = cmd[c] \/ pc'[c] = "out"
         /\ \/ reply' = reply /\ (pc'[c] \in {"put", "release", "out"} =>
                                    pc[c] \in {"put", "release"})
            \/ reply' = "error"
            \/ reply' = "ok" /\ pc[c] = "use"
<1> USE DEF PoolTypes, Goto, Holds
<1>1. CASE Acquire(c)
  BY <1>1 DEF Acquire
<1>2. CASE Get(c)
  BY <1>2 DEF Get, Prune, Closed, PopFront, NewConnection, Refuse, TestPasses, TestFails,
              FindServer, Connect, DialFails, Pruned
<1>3. CASE Use(c)
  BY <1>3 DEF Use, SetOnMaster, SetOnReplica, GetValue, NoAnswer, Do
<1>4. CASE Put(c)
  BY <1>4 DEF Put, PutIdle, PutFull, PutBroken, Release, Return
<1> QED BY <1>1, <1>2, <1>3, <1>4 DEF Run

(* What happens outside moves no caller and answers none. *)
LEMMA EnvironmentFacts ==
  ASSUME Environment
  PROVE  UNCHANGED <<pool, pc, cmd, reply>>
BY DEF Environment, Crash, Restart, Promote, Demote, Tick, callers

(* A step of any caller preserves the invariant, also what it says of the  *)
(* probes that the constructor waits for.                                  *)
LEMMA StepPreserves ==
  ASSUME IndInv, NEW c \in Callers, Step(c) \/ Wake(c)
  PROVE  IndInv'
<1>1. PoolTypes /\ PoolInv /\ InitTypes /\ (Run(c) \/ Acquire(c))
  BY DEF IndInv, PoolInv, Step, Wake
<1>2. PoolInv'
  BY <1>1, RunPreserves
<1>3. /\ UNCHANGED <<made, probes, result>>
      /\ written' \in BOOLEAN
      /\ written => written'
      /\ reply' = "ok" /\ pc[c] = "use" /\ cmd[c] = "Set" => written'
  BY <1>1 DEF Step, Wake, InitTypes, Acquire, initVars
<1>4. pool' = pool
  BY <1>1, RunFacts
<1>5. Trying'
  <2> SUFFICES ASSUME result = "none"
               PROVE  Trying'
    BY <1>3 DEF Trying
  <2>1. c = Main
    BY <1>1, RunFacts DEF IndInv, Trying
  <2>2. \A d \in Callers \ {Main} : pc'[d] = "out"
    BY <1>1, <2>1, RunFacts DEF IndInv, Trying
  <2>3. ASSUME ProbesOf(made) # <<>>
        PROVE  /\ \/ Len(probes) = Len(ProbesOf(made)) - 1
                       /\ (cmd'[Main] = "Set" \/ pc'[Main] = "out")
                  \/ Len(probes) < Len(ProbesOf(made)) - 1 /\ written'
               /\ reply' = "ok" => written'
               /\ pc'[Main] \in {"put", "release", "out"} => reply' # "none"
    <3>1. /\ \/ Len(probes) = Len(ProbesOf(made)) - 1 /\ cmd[Main] = "Set"
             \/ Len(probes) < Len(ProbesOf(made)) - 1 /\ written
          /\ reply = "ok" => written
          /\ pc[Main] \in {"put", "release"} /\ Len(probes) < Len(ProbesOf(made))
               => reply # "none"
      BY <1>1, <2>1, <2>3, RunFacts DEF IndInv, Trying
    <3>2. Len(probes) < Len(ProbesOf(made))
      <4>1. Len(probes) \in Nat /\ Len(ProbesOf(made)) \in Nat
        BY <1>1, <2>3, ProbesFacts DEF InitTypes
      <4> QED BY <3>1, <4>1
    <3> QED BY <1>1, <1>3, <2>1, <3>1, <3>2, RunFacts
  <2> QED BY <1>3, <2>2, <2>3 DEF Trying
<1>6. TriedIsWritable'
  BY <1>3 DEF IndInv, TriedIsWritable
<1> QED BY <1>2, <1>3, <1>4, <1>5, <1>6 DEF IndInv, InitTypes

(* Every step preserves the inductive invariant. *)
LEMMA NextPreserves == IndInv /\ [Next]_allVars => IndInv'
<1> SUFFICES ASSUME IndInv, [Next]_allVars PROVE IndInv'
  OBVIOUS
<1>1. PoolInv /\ PoolTypes /\ InitTypes
  BY DEF IndInv, PoolInv
<1>2. ASSUME UNCHANGED vars
      PROVE  PoolInv'
  BY <1>1, <1>2
  DEF PoolInv, PoolTypes, Frame, ActiveBound, Tokens, Busy, Holding, vars, callers, servers
<1>3. ASSUME UNCHANGED allVars
      PROVE  IndInv'
  <2>1. UNCHANGED <<vars, pool, pc, cmd, reply, made, probes, result, written>>
    BY <1>3 DEF allVars, vars, callers, initVars
  <2> QED BY <1>2, <2>1 DEF IndInv, InitTypes, Trying, TriedIsWritable
<1>4. ASSUME NEW r \in {"nil", "cache", "cacheAndError"}, Returns(r),
             r # "nil" /\ ProbesOf(made) # <<>> => written
      PROVE  IndInv'
  <2>1. UNCHANGED <<vars, pool, made, probes, written>> /\ result' = r
    BY <1>4 DEF Returns, vars
  <2> QED BY <1>2, <1>4, <2>1 DEF IndInv, InitTypes, Trying, TriedIsWritable
<1>5. CASE BadURL
  BY <1>4, <1>5 DEF BadURL
<1>6. CASE ProbeFails
  <2>1. PICK r \in {"nil", "cacheAndError"} :
          /\ Returns(r)
          /\ r # "nil" => made.useSentinel /\ Len(probes) < Len(testCache)
    BY <1>6 DEF ProbeFails
  <2>2. ASSUME r # "nil", ProbesOf(made) # <<>>
        PROVE  written
    <3>1. result = "none" /\ reply = "error"
      BY <1>6 DEF ProbeFails, Building
    <3>2. Len(testCache) = 2 /\ Len(ProbesOf(made)) = 3
      BY <1>1, <2>1, <2>2, ProbesFacts
    <3>3. /\ probes # ProbesOf(made)
          /\ Len(probes) # Len(ProbesOf(made)) - 1
      BY <1>1, <2>1, <2>2, <3>2 DEF InitTypes
    <3> QED BY <2>2, <3>1, <3>3 DEF IndInv, Trying
  <2> QED BY <1>4, <2>1, <2>2
<1>7. CASE Success
  <2>1. Returns("cache") /\ result = "none" /\ reply # "error" /\ probes = <<>> /\ pc[Main] = "out"
    BY <1>7 DEF Success, Building
  <2>2. ASSUME ProbesOf(made) # <<>>
        PROVE  written
    <3>1. Len(probes) = 0 /\ Len(ProbesOf(made)) \in {2, 3}
      BY <1>1, <2>1, <2>2, ProbesFacts
    <3>2. reply \in {"none", "ok", "error"}
      BY <1>1 DEF PoolTypes
    <3>3. /\ probes # ProbesOf(made) /\ Len(probes) # Len(ProbesOf(made)) - 1
          /\ Len(probes) # Len(ProbesOf(made))
      BY <2>1, <2>2, <3>1
    <3> QED BY <2>1, <2>2, <3>2, <3>3 DEF IndInv, Trying
  <2> QED BY <1>4, <2>1, <2>2
<1>8. CASE Probe
  <2>1. /\ Start(Main, Head(probes)) /\ probes # <<>> /\ probes' = Tail(probes)
        /\ result = "none" /\ reply # "error" /\ pc[Main] = "out"
        /\ UNCHANGED <<made, result, written>>
    BY <1>8 DEF Probe, Building
  <2>2. /\ Head(probes) \in {"Set", "Get"} /\ Tail(probes) \in Seq({"Set", "Get"})
        /\ Len(Tail(probes)) = Len(probes) - 1 /\ Len(probes) \in Nat
    BY <1>1, <2>1, HeadTailProperties DEF InitTypes
  <2>3. PoolInv'
    BY <1>1, <2>1, <2>2, InitAssumption, StartPreserves
  <2>4. /\ pool' = pool /\ reply' = "none"
        /\ cmd'[Main] = Head(probes)
        /\ pc'[Main] \in {"wait", "prune"}
        /\ \A d \in Callers \ {Main} : pc'[d] = pc[d]
    BY <1>1, <2>1, InitAssumption DEF Start, Goto, PoolTypes
  <2>5. ASSUME ProbesOf(made) # <<>>
        PROVE  \/ Len(probes') = Len(ProbesOf(made)) - 1 /\ cmd'[Main] = "Set"
               \/ Len(probes') < Len(ProbesOf(made)) - 1 /\ written
    <3>1. CASE probes = ProbesOf(made)
      BY <1>1, <2>1, <2>2, <2>4, <2>5, <3>1, ProbesFacts
    <3>2. CASE Len(probes) <= Len(ProbesOf(made)) - 1
      <4>1. Len(ProbesOf(made)) \in Nat
        BY <1>1, <2>5, ProbesFacts
      <4>2. reply \in {"none", "ok", "error"}
        BY <1>1 DEF PoolTypes
      <4>3. Len(probes) < Len(ProbesOf(made))
        BY <2>2, <3>2, <4>1
      <4>4. written
        BY <2>1, <2>5, <4>2, <4>3 DEF IndInv, Trying
      <4> QED BY <2>1, <2>2, <3>2, <4>1, <4>4
    <3> QED
      <4>1. Len(ProbesOf(made)) \in Nat
        BY <1>1, <2>5, ProbesFacts
      <4>2. probes = ProbesOf(made) \/ Len(probes) <= Len(ProbesOf(made)) - 1
        <5>1. \/ probes = ProbesOf(made)
              \/ Len(probes) = Len(ProbesOf(made)) - 1
              \/ Len(probes) < Len(ProbesOf(made)) - 1
          BY <2>1, <2>5 DEF IndInv, Trying
        <5> QED BY <2>2, <4>1, <5>1
      <4> QED BY <3>1, <3>2, <4>2
  <2>6. Trying'
    BY <2>1, <2>4, <2>5 DEF IndInv, Trying
  <2> QED BY <1>1, <2>1, <2>2, <2>3, <2>4, <2>6 DEF IndInv, InitTypes, TriedIsWritable
<1>9. ASSUME NEW c \in Callers, Step(c) \/ Wake(c)
      PROVE  IndInv'
  BY <1>9, StepPreserves
<1>10. ASSUME NEW c \in Callers, NEW m \in {"Set", "Get"}, Call(c, m)
       PROVE  IndInv'
  <2>1. PoolInv'
    BY <1>1, <1>10, StartPreserves DEF Call
  <2>2. pool' = pool /\ UNCHANGED <<made, probes, result, written>> /\ result # "none"
    BY <1>10 DEF Call, Start, initVars
  <2> QED BY <2>1, <2>2 DEF IndInv, InitTypes, Trying, TriedIsWritable
<1>11. CASE Environment /\ UNCHANGED initVars
  <2>1. PoolInv'
    BY <1>1, <1>11, EnvironmentPreserves
  <2>2. UNCHANGED <<pool, pc, cmd, reply, made, probes, result, written>>
    BY <1>11, EnvironmentFacts DEF initVars
  <2> QED BY <2>1, <2>2 DEF IndInv, InitTypes, Trying, TriedIsWritable
<1> QED BY <1>3, <1>5, <1>6, <1>7, <1>8, <1>9, <1>10, <1>11 DEF Next

-----------------------------------------------------------------------------
(* The theorems *)

(* The inductive invariant holds. *)
THEOREM Invariance == Spec => []IndInv
BY InitHolds, NextPreserves, PTL DEF Spec

(* TypeOK: among the rest, no idle list longer than MaxIdle, and no more   *)
(* tokens in p.ch than it was made for, whatever fails.                    *)
THEOREM TypeCorrect == Spec => []TypeOK
<1>1. IndInv => TypeOK
  BY DEF IndInv, PoolInv, PoolTypes, InitTypes, TypeOK, Steps
<1> QED BY <1>1, Invariance, PTL

(* ActiveBound: p.active is the number of connections, and within          *)
(* MaxActive, for every number of callers and every order of failures.     *)
THEOREM CountIsExact == Spec => []ActiveBound
<1>1. IndInv => ActiveBound
  BY DEF IndInv, PoolInv
<1> QED BY <1>1, Invariance, PTL

(* TriedIsWritable: a cache that New or InitRedisCache was to try, and     *)
(* that it returned, has taken a write.                                    *)
THEOREM ReturnedIsWritable == Spec => []TriedIsWritable
<1>1. IndInv => TriedIsWritable
  BY DEF IndInv
<1> QED BY <1>1, Invariance, PTL
=============================================================================
