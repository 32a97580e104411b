-------------------------- MODULE JanitorLifecycle --------------------------
(***************************************************************************)
(* The life of the janitor goroutines of several in-memory stores          *)
(* (inmemory.go): NewInMemoryStore starts one for each store, the ticker   *)
(* drives it, and the store's finalizer is to stop it.  The Go runtime     *)
(* runs all finalizers one after another in one goroutine, so one that     *)
(* blocks holds up the janitors of every store collected after it.         *)
(***************************************************************************)
CONSTANTS
  Stores,
  None

ASSUME NoneAssumption == None \notin Stores \cup {"nil", "made"}

VARIABLES
  handle,    \* the *InMemoryStore: "unmade", "held", "dropped", "collected"
  run,       \* its janitor: "none", "started", "select", "sweep", "returned"
  stop,      \* j.stop: "nil" or "made"
  pending,   \* the stores whose finalizer is queued
  finalizer, \* the store whose finalizer runs, or None
  channel    \* the c.janitor.stop it sends on: "nil", "made" or None

vars == <<handle, run, stop, pending, finalizer, channel>>

Init ==
  /\ handle = [s \in Stores |-> "unmade"]
  /\ run = [s \in Stores |-> "none"]
  /\ stop = [s \in Stores |-> "nil"]
  /\ pending = {}
  /\ finalizer = None
  /\ channel = None

(* NewInMemoryStore: with a cleanupInterval it starts a janitor and sets   *)
(* the finalizer, without one it does neither.                             *)
NewInMemoryStore(s, cleanup) ==
  /\ handle[s] = "unmade"
  /\ handle' = [handle EXCEPT ![s] = "held"]
  /\ run' = [run EXCEPT ![s] = IF cleanup THEN "started" ELSE "none"]
  /\ UNCHANGED <<stop, pending, finalizer, channel>>

(* Run makes the channel it is to be stopped through. *)
MakeStop(s) ==
  /\ run[s] = "started"
  /\ stop' = [stop EXCEPT ![s] = "made"]
  /\ run' = [run EXCEPT ![s] = "select"]
  /\ UNCHANGED <<handle, pending, finalizer, channel>>

(* case <-tick *)
TickCase(s) ==
  /\ run[s] = "select"
  /\ run' = [run EXCEPT ![s] = "sweep"]
  /\ UNCHANGED <<handle, stop, pending, finalizer, channel>>

(* DeleteExpired returns. *)
SweepDone(s) ==
  /\ run[s] = "sweep"
  /\ run' = [run EXCEPT ![s] = "select"]
  /\ UNCHANGED <<handle, stop, pending, finalizer, channel>>

(* The program forgets the store. *)
Drop(s) ==
  /\ handle[s] = "held"
  /\ handle' = [handle EXCEPT ![s] = "dropped"]
  /\ UNCHANGED <<run, stop, pending, finalizer, channel>>

(* mutant: no finalizer is set *)
CollectOnly(s) ==
  /\ handle[s] = "dropped"
  /\ handle' = [handle EXCEPT ![s] = "collected"]
  /\ UNCHANGED <<run, stop, pending, finalizer, channel>>

(* The garbage collector finds it and queues its finalizer. *)
Collect(s) ==
  /\ handle[s] = "dropped"
  /\ handle' = [handle EXCEPT ![s] = "collected"]
  /\ pending' = IF run[s] = "none" THEN pending ELSE pending \cup {s}
  /\ UNCHANGED <<run, stop, finalizer, channel>>

(* mutant: the finalizer is left set, and queued again *)
StopJanitorAgain(s) ==
  /\ finalizer = None
  /\ s \in pending
  /\ finalizer' = s
  /\ channel' = stop[s]
  /\ UNCHANGED <<handle, run, stop, pending>>

(* stopJanitor begins: it evaluates c.janitor.stop. *)
StopJanitor(s) ==
  /\ finalizer = None
  /\ s \in pending
  /\ pending' = pending \ {s}
  /\ finalizer' = s
  /\ channel' = stop[s]
  /\ UNCHANGED <<handle, run, stop>>

(* mutant: all stores share one stop channel *)
SendShared(s) ==
  /\ finalizer # None
  /\ channel = "made"
  /\ run[s] = "select"
  /\ run' = [run EXCEPT ![s] = "returned"]
  /\ finalizer' = None
  /\ channel' = None
  /\ UNCHANGED <<handle, stop, pending>>

(* The send meets case <-j.stop.  On a nil channel it blocks for ever. *)
Send(s) ==
  /\ finalizer = s
  /\ channel = "made"
  /\ run[s] = "select"
  /\ run' = [run EXCEPT ![s] = "returned"]
  /\ finalizer' = None
  /\ channel' = None
  /\ UNCHANGED <<handle, stop, pending>>

Next ==
  \E s \in Stores :
    \/ \E cleanup \in BOOLEAN : NewInMemoryStore(s, cleanup)
    \/ MakeStop(s) \/ TickCase(s) \/ SweepDone(s)
    \/ Drop(s) \/ Collect(s) \/ StopJanitor(s) \/ Send(s)

Spec == Init /\ [][Next]_vars

(* Goroutines that can run do run, and select chooses at random between    *)
(* cases that are ready, so it does not ignore one of them for ever.       *)
FairSpec ==
  /\ Spec
  /\ \A s \in Stores : /\ WF_vars(MakeStop(s)) /\ WF_vars(SweepDone(s))
                       /\ SF_vars(StopJanitor(s)) /\ SF_vars(Send(s))

-----------------------------------------------------------------------------
(* The janitor of a store that the program still holds has not returned,   *)
(* whatever happens to other stores.                                       *)
HeldStoreIsSwept ==
  \A s \in Stores : run[s] = "returned" => handle[s] = "collected"

(* A finalizer that sends on a channel finds the store's own janitor at    *)
(* its select or on the way back to it: none sends to a goroutine that has *)
(* returned, which would block all finalizers for ever.                    *)
SendMeetsJanitor ==
  channel = "made" =>
    finalizer \in Stores /\ run[finalizer] \in {"select", "sweep"}

HasJanitor(s) == run[s] \notin {"none", "returned"}

(* "When it is garbage collected, the finalizer stops the janitor          *)
(* goroutine" (NewInMemoryStore).                                          *)
FinalizerStopsJanitor ==
  \A s \in Stores : (handle[s] = "collected" /\ HasJanitor(s)) ~> (run[s] = "returned")

(* If no finalizer ever finds j.stop still nil, every collected store's    *)
(* janitor returns: late ticks and the finalizers of other stores do not   *)
(* prevent it.                                                             *)
StoppedUnlessNil == [](channel # "nil") => FinalizerStopsJanitor
=============================================================================
