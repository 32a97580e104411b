------------------------------ MODULE RedisPool -----------------------------
(***************************************************************************)
(* The connection pools of redispool.go: callers of a RedisStore borrow a  *)
(* connection from redigo's redis.Pool, send a command and give it back,   *)
(* while Redis servers crash, restart and change roles.  The pool's Dial,  *)
(* TestOnBorrow and limits are those of NewSentinelPool, NewRedisCache or  *)
(* InitReadOnlyRedisCache, which module RedisInit chooses from.            *)
(*                                                                         *)
(* One step is one section under the pool's lock, one command to a server  *)
(* or one answer of a sentinel.  A connection has the time it has been     *)
(* idle for, counted until it is too old for the pool.                     *)
(***************************************************************************)
EXTENDS Integers, Sequences, FiniteSets

CONSTANTS
  Callers,      \* the goroutines that use the store
  Servers,      \* the Redis servers
  Primary,      \* the master at first, and the address of a pool without
                \* sentinel
  None,
  Minute,       \* for how long TestOnBorrow trusts an idle connection
  IdleTimeout,
  MaxFaults     \* bound on crashes and promotions

ASSUME PoolAssumption ==
  /\ IsFiniteSet(Callers)
  /\ Primary \in Servers
  /\ Minute \in Nat /\ IdleTimeout \in Nat /\ MaxFaults \in Nat

(* How a pool is made: its limits (maxActive = 0: none), what TestOnBorrow *)
(* asks and for how long it does not ask, and whether Dial asks a sentinel *)
(* for the master.                                                         *)
Pools ==
  [maxIdle : Nat, maxActive : Nat, wait : BOOLEAN, test : {"role", "ping"},
   trust : Nat, sentinel : BOOLEAN]

VARIABLES
  pool,     \* the limits and functions of the pool
  idle,     \* the idle connections, the last used first
  active,   \* p.active
  tokens,   \* what p.ch holds
  pc,       \* the next step of each caller
  conn,     \* its connection
  addr,     \* the address it is about to dial
  cmd,      \* its command
  reply,    \* how the last command ended
  role,     \* the role of each server
  master,   \* the server that the sentinels call master
  up,       \* the servers that run
  faults    \* how many crashes and promotions there were

callers == <<pc, conn, addr, cmd, reply>>
servers == <<role, master, up, faults>>
vars == <<pool, idle, active, tokens, callers, servers>>

Init ==
  /\ idle = <<>>
  /\ active = 0
  /\ tokens = pool.maxActive
  /\ pc = [c \in Callers |-> "out"]
  /\ conn = [c \in Callers |-> None]
  /\ addr = [c \in Callers |-> None]
  /\ cmd = [c \in Callers |-> None]
  /\ reply = "none"
  /\ role = [s \in Servers |-> IF s = Primary THEN "master" ELSE "replica"]
  /\ master = Primary
  /\ up = Servers
  /\ faults = 0

-----------------------------------------------------------------------------
(* redis.Pool.get *)

Goto(c, step) == pc' = [pc EXCEPT ![c] = step]

Holds(c, x) == conn' = [conn EXCEPT ![c] = x]

(* The method begins: with p.Wait the caller waits for a token. *)
Start(c, m) ==
  /\ pc[c] = "out"
  /\ cmd' = [cmd EXCEPT ![c] = m]
  /\ reply' = "none"
  /\ Goto(c, IF pool.wait /\ pool.maxActive > 0 THEN "wait" ELSE "prune")
  /\ UNCHANGED <<pool, idle, active, tokens, conn, addr, servers>>

Acquire(c) ==
  /\ pc[c] = "wait"
  /\ tokens > 0
  /\ tokens' = tokens - 1
  /\ Goto(c, "prune")
  /\ UNCHANGED <<pool, idle, active, conn, addr, cmd, reply, servers>>

BackIsStale == idle # <<>> /\ idle[Len(idle)].age > IdleTimeout

(* idleList.popBack *)
popBack(list) == SubSeq(list, 1, Len(list) - 1)

(* The last idle connection has been idle for too long.  (That the loop    *)
(* takes no more than were idle at its start matters only if others become *)
(* too old while it closes one, and is left out.)                          *)
Prune(c) ==
  /\ pc[c] = "prune"
  /\ BackIsStale
  /\ idle' = popBack(idle)
  /\ Goto(c, "pruned")
  /\ UNCHANGED <<pool, active, tokens, conn, addr, cmd, reply, servers>>

(* Having closed a connection, the caller locks the pool again. *)
Closed(c) ==
  /\ pc[c] \in {"pruned", "refused"}
  /\ active' = active - 1
  /\ Goto(c, IF pc[c] = "pruned" THEN "prune" ELSE "pop")
  /\ UNCHANGED <<pool, idle, tokens, conn, addr, cmd, reply, servers>>

Pruned(c) == pc[c] = "pop" \/ (pc[c] = "prune" /\ ~BackIsStale)

PopFront(c) ==
  /\ Pruned(c)
  /\ idle # <<>>
  /\ Holds(c, Head(idle))
  /\ idle' = Tail(idle)
  /\ Goto(c, "test")
  /\ UNCHANGED <<pool, active, tokens, addr, cmd, reply, servers>>

Exhausted == ~pool.wait /\ pool.maxActive > 0 /\ active >= pool.maxActive

(* mutant: the limit is off by one *)
NewConnectionOver(c) ==
  /\ Pruned(c)
  /\ idle = <<>>
  /\ ~pool.wait /\ pool.maxActive > 0 => active <= pool.maxActive
  /\ active' = active + 1
  /\ Goto(c, "dial")
  /\ UNCHANGED <<pool, idle, tokens, conn, addr, cmd, reply, servers>>

NewConnection(c) ==
  /\ Pruned(c)
  /\ idle = <<>>
  /\ ~Exhausted
  /\ active' = active + 1
  /\ Goto(c, "dial")
  /\ UNCHANGED <<pool, idle, tokens, conn, addr, cmd, reply, servers>>

(* ErrPoolExhausted: the command is answered with that error. *)
Refuse(c) ==
  /\ Pruned(c)
  /\ idle = <<>>
  /\ Exhausted
  /\ reply' = "error"
  /\ cmd' = [cmd EXCEPT ![c] = None]
  /\ Goto(c, "out")
  /\ UNCHANGED <<pool, idle, active, tokens, conn, addr, servers>>

-----------------------------------------------------------------------------
(* TestOnBorrow and Dial *)

Answers(x) == x.link = "up"

Trusted(x) == x.age < pool.trust

Passes(x) ==
  \/ Trusted(x)
  \/ Answers(x) /\ (pool.test = "role" => role[x.srv] = "master")

TestPasses(c) ==
  /\ pc[c] = "test"
  /\ Passes(conn[c])
  /\ Holds(c, [conn[c] EXCEPT !.age = 0])
  /\ Goto(c, "use")
  /\ UNCHANGED <<pool, idle, active, tokens, addr, cmd, reply, servers>>

(* The test fails, as it also may for want of an answer in time. *)
TestFails(c) ==
  /\ pc[c] = "test"
  /\ ~Trusted(conn[c])
  /\ Holds(c, None)
  /\ Goto(c, "refused")
  /\ UNCHANGED <<pool, idle, active, tokens, addr, cmd, reply, servers>>

(* sntnl.MasterAddr, or the host of a URL *)
FindServer(c) ==
  /\ pc[c] = "dial"
  /\ addr' = [addr EXCEPT ![c] = IF pool.sentinel THEN master ELSE Primary]
  /\ Goto(c, "connect")
  /\ UNCHANGED <<pool, idle, active, tokens, conn, cmd, reply, servers>>

(* DialTimeout, then AUTH or PING, then SELECT *)
Connect(c) ==
  /\ pc[c] = "connect"
  /\ addr[c] \in up
  /\ Holds(c, [srv |-> addr[c], age |-> 0, link |-> "up"])
  /\ addr' = [addr EXCEPT ![c] = None]
  /\ Goto(c, "use")
  /\ UNCHANGED <<pool, idle, active, tokens, cmd, reply, servers>>

(* mutant: a failed Dial keeps its token *)
DialFailsNoToken(c) ==
  /\ pc[c] \in {"dial", "connect"}
  /\ active' = active - 1
  /\ addr' = [addr EXCEPT ![c] = None]
  /\ reply' = "error"
  /\ cmd' = [cmd EXCEPT ![c] = None]
  /\ Goto(c, "out")
  /\ UNCHANGED <<pool, idle, tokens, conn, servers>>

Token == IF pool.wait /\ pool.maxActive > 0 THEN 1 ELSE 0

(* Dial fails, at any of its commands. *)
DialFails(c) ==
  /\ pc[c] \in {"dial", "connect"}
  /\ active' = active - 1
  /\ tokens' = tokens + Token
  /\ addr' = [addr EXCEPT ![c] = None]
  /\ reply' = "error"
  /\ cmd' = [cmd EXCEPT ![c] = None]
  /\ Goto(c, "out")
  /\ UNCHANGED <<pool, idle, conn, servers>>

-----------------------------------------------------------------------------
(* The command *)

Do(c, r, link) ==
  /\ reply' = r
  /\ conn' = [conn EXCEPT ![c].link = link]
  /\ Goto(c, "put")
  /\ UNCHANGED <<pool, idle, active, tokens, addr, cmd, servers>>

SetOnMaster(c) ==
  /\ pc[c] = "use" /\ cmd[c] = "Set"
  /\ Answers(conn[c])
  /\ role[conn[c].srv] = "master"
  /\ Do(c, "ok", "up")

(* A replica refuses it: an error reply, which leaves the connection good. *)
SetOnReplica(c) ==
  /\ pc[c] = "use" /\ cmd[c] = "Set"
  /\ Answers(conn[c])
  /\ role[conn[c].srv] = "replica"
  /\ Do(c, "error", "up")

(* Every server answers a Get, the value being there or not: it may have   *)
(* expired, or been set on a server that was the master then.              *)
GetValue(c) ==
  /\ pc[c] = "use" /\ cmd[c] = "Get"
  /\ Answers(conn[c])
  /\ \E r \in {"ok", "error"} : Do(c, r, "up")

(* No answer, or none in time: the connection is broken. *)
NoAnswer(c) == pc[c] = "use" /\ Do(c, "error", "broken")

-----------------------------------------------------------------------------
(* redis.Pool.put *)

Return(c) ==
  /\ Holds(c, None)
  /\ cmd' = [cmd EXCEPT ![c] = None]
  /\ Goto(c, "out")

Push(c) == <<[conn[c] EXCEPT !.age = 0]>> \o idle

PutIdle(c) ==
  /\ pc[c] = "put"
  /\ conn[c].link # "broken"
  /\ Len(idle) < pool.maxIdle
  /\ idle' = Push(c)
  /\ tokens' = tokens + Token
  /\ Return(c)
  /\ UNCHANGED <<pool, active, addr, reply, servers>>

(* mutant: the one too many is not taken off the list *)
PutFullKeeps(c) ==
  /\ pc[c] = "put"
  /\ conn[c].link # "broken"
  /\ Len(idle) >= pool.maxIdle
  /\ idle' = Push(c)
  /\ Goto(c, "release")
  /\ Holds(c, None)
  /\ UNCHANGED <<pool, active, tokens, addr, cmd, reply, servers>>

(* One connection too many: the one idle for longest is closed. *)
PutFull(c) ==
  /\ pc[c] = "put"
  /\ conn[c].link # "broken"
  /\ Len(idle) >= pool.maxIdle
  /\ idle' = popBack(Push(c))
  /\ Goto(c, "release")
  /\ Holds(c, None)
  /\ UNCHANGED <<pool, active, tokens, addr, cmd, reply, servers>>

PutBroken(c) ==
  /\ pc[c] = "put"
  /\ conn[c].link = "broken"
  /\ Goto(c, "release")
  /\ Holds(c, None)
  /\ UNCHANGED <<pool, idle, active, tokens, addr, cmd, reply, servers>>

(* The connection is closed, and the caller locks the pool again. *)
Release(c) ==
  /\ pc[c] = "release"
  /\ active' = active - 1
  /\ tokens' = tokens + Token
  /\ Return(c)
  /\ UNCHANGED <<pool, idle, addr, reply, servers>>

-----------------------------------------------------------------------------
(* The servers and the sentinels *)

Cut(x, s) == IF x # None /\ x.srv = s THEN [x EXCEPT !.link = "cut"] ELSE x

CutAll(s) ==
  /\ idle' = [i \in DOMAIN idle |-> Cut(idle[i], s)]
  /\ conn' = [c \in Callers |-> IF conn[c] # None /\ conn[c].link = "up"
                                THEN Cut(conn[c], s) ELSE conn[c]]

Crash(s) ==
  /\ s \in up
  /\ faults < MaxFaults
  /\ faults' = faults + 1
  /\ up' = up \ {s}
  /\ CutAll(s)
  /\ UNCHANGED <<pool, active, tokens, pc, addr, cmd, reply, role, master>>

Restart(s) ==
  /\ s \notin up
  /\ up' = up \cup {s}
  /\ UNCHANGED <<pool, idle, active, tokens, callers, role, master, faults>>

(* The sentinels make s the master; the old one does not know it yet. *)
Promote(s) ==
  /\ s \in up /\ s # master
  /\ faults < MaxFaults
  /\ faults' = faults + 1
  /\ role' = [role EXCEPT ![s] = "master"]
  /\ master' = s
  /\ UNCHANGED <<pool, idle, active, tokens, callers, up>>

(* The old master becomes a replica; its clients may be disconnected. *)
Demote(s) ==
  /\ s \in up /\ s # master /\ role[s] = "master"
  /\ role' = [role EXCEPT ![s] = "replica"]
  /\ CutAll(s) \/ UNCHANGED <<idle, conn>>
  /\ UNCHANGED <<pool, active, tokens, pc, addr, cmd, reply, master, up, faults>>

(* Time passes for the connections that are idle or about to be lent. *)
Older(x) == [x EXCEPT !.age = IF @ > IdleTimeout THEN @ ELSE @ + 1]

Tick ==
  /\ idle' = [i \in DOMAIN idle |-> Older(idle[i])]
  /\ conn' = [c \in Callers |-> IF pc[c] = "test" THEN Older(conn[c]) ELSE conn[c]]
  /\ <<idle, conn>> # <<idle', conn'>>
  /\ UNCHANGED <<pool, active, tokens, pc, addr, cmd, reply, servers>>

-----------------------------------------------------------------------------
Get(c) ==
  \/ Prune(c) \/ Closed(c) \/ PopFront(c) \/ NewConnection(c) \/ Refuse(c)
  \/ TestPasses(c) \/ TestFails(c) \/ FindServer(c) \/ Connect(c) \/ DialFails(c)

Use(c) == SetOnMaster(c) \/ SetOnReplica(c) \/ GetValue(c) \/ NoAnswer(c)

Put(c) == PutIdle(c) \/ PutFull(c) \/ PutBroken(c) \/ Release(c)

Run(c) == Get(c) \/ Use(c) \/ Put(c)

Environment ==
  \/ \E s \in Servers : \/ Crash(s) \/ Restart(s) \/ Promote(s) \/ Demote(s)
  \/ Tick
=============================================================================
