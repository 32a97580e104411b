------------------------------ MODULE RedisInit -----------------------------
(***************************************************************************)
(* The constructors of redispool.go (RedisConnectionInfo.New,              *)
(* InitRedisCache, InitReadOnlyRedisCache) and the callers of the cache    *)
(* they return, over the pool of module RedisPool.                         *)
(***************************************************************************)
EXTENDS RedisPool

CONSTANTS
  Main,             \* the caller that makes the cache
  SentinelMaxIdle,  \* the limits of NewSentinelPool
  SentinelMaxActive,
  DirectMaxIdle,    \* the limit of NewRedisCache
  maxConnections    \* the argument of InitReadOnlyRedisCache

ASSUME InitAssumption ==
  /\ Main \in Callers
  /\ SentinelMaxIdle \in Nat /\ SentinelMaxActive \in Nat \ {0}
  /\ DirectMaxIdle \in Nat /\ maxConnections \in Nat

VARIABLES
  made,     \* the constructor called and its arguments
  probes,   \* the commands it has yet to try the cache with
  result,   \* what it returned
  written   \* whether a master took a Set (no variable of the program's)

initVars == <<made, probes, result, written>>
allVars == <<vars, initVars>>

(* InitRedisCache is New with testWriteRead and the arguments from the     *)
(* environment.                                                            *)
Calls ==
  [new : {"New"}, useSentinel : BOOLEAN, testWriteRead : BOOLEAN, goodURL : BOOLEAN]
    \cup [new : {"InitReadOnlyRedisCache"}, goodURL : BOOLEAN]

NewSentinelPool ==
  [maxIdle |-> SentinelMaxIdle, maxActive |-> SentinelMaxActive, wait |-> TRUE,
   test |-> "role", trust |-> Minute, sentinel |-> TRUE]

(* persistence.NewRedisCache *)
NewRedisCache ==
  [maxIdle |-> DirectMaxIdle, maxActive |-> 0, wait |-> FALSE,
   test |-> "ping", trust |-> 0, sentinel |-> FALSE]

ReadOnlyPool ==
  [maxIdle |-> maxConnections, maxActive |-> maxConnections, wait |-> FALSE,
   test |-> "ping", trust |-> Minute, sentinel |-> FALSE]

PoolOf(m) ==
  IF m.new = "InitReadOnlyRedisCache" THEN ReadOnlyPool
  ELSE IF m.useSentinel THEN NewSentinelPool ELSE NewRedisCache

testCache == <<"Set", "Get">>

ProbesOf(m) ==
  IF m.new = "InitReadOnlyRedisCache" THEN <<>>
  ELSE IF ~m.testWriteRead THEN <<>>
  ELSE IF m.useSentinel THEN <<"Set">> \o testCache ELSE testCache

InitAll ==
  /\ made \in Calls
  /\ pool = PoolOf(made)
  /\ probes = ProbesOf(made)
  /\ result = "none"
  /\ written = FALSE
  /\ Init

-----------------------------------------------------------------------------
Returns(r) ==
  /\ result' = r
  /\ UNCHANGED <<vars, made, probes, written>>

(* A URL cannot be parsed, or has no host: nil and an error. *)
BadURL ==
  /\ result = "none"
  /\ ~made.goodURL
  /\ Returns("nil")

Building == result = "none" /\ made.goodURL /\ pc[Main] = "out"

(* The next Set or Get that the new cache is tried with *)
Probe ==
  /\ Building
  /\ reply # "error"
  /\ probes # <<>>
  /\ Start(Main, Head(probes))
  /\ probes' = Tail(probes)
  /\ UNCHANGED <<made, result, written>>

(* mutant: whatever fails, the cache is returned with the error *)
ProbeFailsCache ==
  /\ Building
  /\ reply = "error"
  /\ Returns("cacheAndError")

(* One failed: nil and the error, except that after the first Set on a     *)
(* sentinel pool the cache is returned with the error of testCache.        *)
ProbeFails ==
  /\ Building
  /\ reply = "error"
  /\ Returns(IF made.useSentinel /\ Len(probes) < Len(testCache)
             THEN "cacheAndError" ELSE "nil")

Success ==
  /\ Building
  /\ reply # "error"
  /\ probes = <<>>
  /\ Returns("cache")

(* A caller uses the cache, if there is one. *)
Call(c, m) ==
  /\ result \in {"cache", "cacheAndError"}
  /\ Start(c, m)
  /\ UNCHANGED initVars

-----------------------------------------------------------------------------
Step(c) ==
  /\ Run(c)
  /\ written' = (written \/ (pc[c] = "use" /\ cmd[c] = "Set" /\ reply' = "ok"))
  /\ UNCHANGED <<made, probes, result>>

Wake(c) == Acquire(c) /\ UNCHANGED initVars

Next ==
  \/ BadURL \/ Probe \/ ProbeFails \/ Success
  \/ \E c \in Callers : Step(c) \/ Wake(c) \/ \E m \in {"Set", "Get"} : Call(c, m)
  \/ Environment /\ UNCHANGED initVars

Spec == InitAll /\ [][Next]_allVars

(* Every caller goes on with its method: servers answer, or a timeout of   *)
(* DialTimeout ends the command.  (NewRedisCache sets no timeout, but only *)
(* the callers of NewSentinelPool wait for each other.)  A Go channel      *)
(* serves those who wait on it in turn.                                    *)
FairSpec ==
  Spec /\ \A c \in Callers : WF_allVars(Step(c)) /\ SF_allVars(Wake(c))

-----------------------------------------------------------------------------
(* Properties *)

Connections == [srv : Servers, age : Nat, link : {"up", "cut", "broken"}]

TypeOK ==
  /\ pool \in Pools /\ made \in Calls
  /\ probes \in Seq({"Set", "Get"})
  /\ result \in {"none", "nil", "cache", "cacheAndError"}
  /\ written \in BOOLEAN
  /\ idle \in Seq(Connections) /\ Len(idle) <= pool.maxIdle
  /\ active \in Nat /\ tokens \in 0..pool.maxActive
  /\ pc \in [Callers -> {"out", "wait", "prune", "pruned", "pop", "test", "refused",
                         "dial", "connect", "use", "put", "release"}]
  /\ conn \in [Callers -> Connections \cup {None}]
  /\ addr \in [Callers -> Servers \cup {None}]
  /\ cmd \in [Callers -> {"Set", "Get", None}]
  /\ reply \in {"none", "ok", "error"}
  /\ role \in [Servers -> {"master", "replica"}]
  /\ master \in Servers /\ up \subseteq Servers
  /\ faults \in 0..MaxFaults

(* The callers that have, open or close a connection *)
Busy == {c \in Callers : pc[c] \notin {"out", "wait", "prune", "pop"}}

(* Neither failed dials and tests nor broken connections nor pruning make  *)
(* the pool lose count: p.active is the number of its connections, and not *)
(* above MaxActive, though with Wait only p.ch limits it.                  *)
ActiveBound ==
  /\ active = Len(idle) + Cardinality(Busy)
  /\ pool.maxActive > 0 => active <= pool.maxActive

(* A cache that was to be tried, and that a caller has got, with an error  *)
(* or without, has taken a write.                                          *)
TriedIsWritable ==
  result \in {"cache", "cacheAndError"} /\ ProbesOf(made) # <<>> => written

(* No caller waits for ever for a connection: a token comes back from      *)
(* every Get, also from one whose Dial fails, and from every Close.        *)
GetReturns ==
  \A c \in Callers : (pc[c] = "wait") ~> (pc[c] \in {"use", "out"})
=============================================================================
