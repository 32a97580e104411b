----------------------- MODULE JanitorLifecycleProofs -----------------------
(***************************************************************************)
(* For any number of stores: a finalizer never stops the janitor of a      *)
(* store that is still in use.                                             *)
(***************************************************************************)
EXTENDS JanitorLifecycle, TLAPS

Types ==
  /\ handle \in [Stores -> {"unmade", "held", "dropped", "collected"}]
  /\ run \in [Stores -> {"none", "started", "select", "sweep", "returned"}]
  /\ stop \in [Stores -> {"nil", "made"}]

(* s has its finalizer queued or running. *)
Finalized(s) == s \in pending \/ s = finalizer

(* A store whose finalizer is queued or runs was collected, and its        *)
(* janitor has not returned.  The send of a finalizer ends the janitor of  *)
(* the same store, since the channel is the store's own.                   *)
FinalizedOnce ==
  /\ pending \subseteq Stores
  /\ finalizer # None => finalizer \in Stores /\ finalizer \notin pending
  /\ \A s \in Stores : Finalized(s) =>
       handle[s] = "collected" /\ run[s] \notin {"none", "returned"}

(* No store has a janitor before it is made.  Once Run made the channel,   *)
(* the janitor is in its loop.  The channel that is sent on is the store's *)
(* whose finalizer runs.                                                   *)
ChannelOf ==
  /\ \A s \in Stores : handle[s] = "unmade" => run[s] = "none"
  /\ \A s \in Stores : stop[s] = "made" => run[s] \in {"select", "sweep", "returned"}
  /\ channel = "made" => finalizer # None /\ stop[finalizer] = "made"

IndInv == Types /\ FinalizedOnce /\ ChannelOf /\ HeldStoreIsSwept

(* No janitor has been started yet. *)
LEMMA InitHolds == Init => IndInv
<1> SUFFICES ASSUME Init PROVE IndInv
  OBVIOUS
<1>1. Types /\ ChannelOf /\ HeldStoreIsSwept
  BY NoneAssumption DEF Init, Types, ChannelOf, HeldStoreIsSwept
<1>2. ASSUME NEW s \in Stores PROVE ~Finalized(s)
  BY NoneAssumption DEF Init, Finalized
<1>3. FinalizedOnce
  BY <1>2 DEF Init, FinalizedOnce
<1> QED BY <1>1, <1>3 DEF IndInv

(* Every step preserves the invariant. *)
LEMMA NextPreserves == IndInv /\ [Next]_vars => IndInv'
<1> SUFFICES ASSUME IndInv, [Next]_vars PROVE IndInv'
  OBVIOUS
<1> USE NoneAssumption DEF IndInv, Types, FinalizedOnce, Finalized, ChannelOf, HeldStoreIsSwept
<1>1. CASE UNCHANGED vars
  BY <1>1 DEF vars
<1>2. ASSUME NEW s \in Stores, NEW cleanup \in BOOLEAN, NewInMemoryStore(s, cleanup)
      PROVE  IndInv'
  BY <1>2 DEF NewInMemoryStore
<1>3. ASSUME NEW s \in Stores, MakeStop(s)
      PROVE  IndInv'
  BY <1>3 DEF MakeStop
<1>4. ASSUME NEW s \in Stores, TickCase(s)
      PROVE  IndInv'
  BY <1>4 DEF TickCase
<1>5. ASSUME NEW s \in Stores, SweepDone(s)
      PROVE  IndInv'
  BY <1>5 DEF SweepDone
<1>6. ASSUME NEW s \in Stores, Drop(s)
      PROVE  IndInv'
  BY <1>6 DEF Drop
<1>7. ASSUME NEW s \in Stores, Collect(s)
      PROVE  IndInv'
  BY <1>7 DEF Collect
<1>8. ASSUME NEW s \in Stores, StopJanitor(s)
      PROVE  IndInv'
  BY <1>8 DEF StopJanitor
<1>9. ASSUME NEW s \in Stores, Send(s)
      PROVE  IndInv'
  <2>1. /\ run' = [run EXCEPT ![s] = "returned"] /\ finalizer' = None /\ channel' = None
        /\ UNCHANGED <<handle, stop, pending>> /\ finalizer = s
    BY <1>9 DEF Send
  <2>2. ASSUME NEW q \in Stores, Finalized(q)'
        PROVE  q # s /\ Finalized(q)
    BY <2>1, <2>2
  <2>3. FinalizedOnce'
    BY <2>1, <2>2
  <2>4. handle[s] = "collected"
    BY <2>1
  <2> QED BY <2>1, <2>3, <2>4
<1> QED BY <1>1, <1>2, <1>3, <1>4, <1>5, <1>6, <1>7, <1>8, <1>9 DEF Next

(* HeldStoreIsSwept, for any number of stores whose finalizers wait for    *)
(* one another: stopJanitor ends the janitor of its own store only, and    *)
(* only after the store was collected.                                     *)
THEOREM SweptWhileHeld == Spec => []HeldStoreIsSwept
<1>1. IndInv => HeldStoreIsSwept
  BY DEF IndInv
<1> QED BY <1>1, InitHolds, NextPreserves, PTL DEF Spec

(* SendMeetsJanitor, for any number of stores: the janitor that stopJanitor *)
(* sends to is there to receive.                                           *)
THEOREM SendIsReceived == Spec => []SendMeetsJanitor
<1>1. IndInv => SendMeetsJanitor
  BY DEF IndInv, FinalizedOnce, Finalized, ChannelOf, SendMeetsJanitor
<1> QED BY <1>1, InitHolds, NextPreserves, PTL DEF Spec
=============================================================================
