# A TLA+ verification of go-cache

go-cache is a Go library with one caching interface and two stores behind it: an
in-memory store that holds its entries in an adaptive replacement cache (ARC), and
a Redis store. This directory holds TLA+ models of its parts, the TLC
configurations that check them on small instances, and proofs, checked by TLAPS,
that hold for every instance. `PROJECT.json` lists the runs, the source lines each
definition models, the hazards and the theorems.

    tlc -workers 2 -config ARC.cfg MCARC     # a run
    tlapm ARCProofs.tla                      # a proof module

## 1. The system

| Part | Source | State | Operations that change it |
|---|---|---|---|
| ARC cache | `vendor/.../golang-lru/arc.go`, `simplelru/lru.go` | lists `t1 t2 b1 b2`, target `p`, values | `Get`, `Add`, `Remove`, `Purge` |
| In-memory store | `inmemory.go` | its `lru`, the entries' expirations | `Set Add Replace Update Get Delete Increment Decrement Flush DeleteExpired` |
| Janitor | `inmemory.go` | the goroutine, `j.stop`, the finalizer | `runJanitor`, `Run`, `stopJanitor` |
| GenericCache | `generic.go` | `Cache`, `ReadCache`, `EncryptData` | the store's methods, encryption, `AddExistingEntry`, the `Redis...` methods |
| Redis store | `vendor/.../persistence/redis.go` | keys in Redis and their time to live | one or several Redis commands per method |
| Connection pools | `redispool.go`, `vendor/.../redigo/redis/pool.go` | idle and lent connections, their count, the tokens of those who may wait | `get`, `put`, `TestOnBorrow`, `Dial` |
| Initialisation | `redispool.go` | what was tried so far | `RedisConnectionInfo.New`, `InitRedisCache`, `InitReadOnlyRedisCache`, `testCache` |
| Page cache | `galapagos_gin/cache/cache.go` | cached pages, the mutex of a route | `cachedWriter.Write`, `WriteString`, `CachePage`, `CachePageAtomic`, `SiteCache` |
| PKCS padding | `pkcs.go` | none | `Padding`, `Unpadding` |

How they interact: a `GenericCache` calls a store. `InMemoryStore` calls its ARC
cache; ARC locks each of its own calls, and `InMemoryStore` locks nothing, so a
method that makes two calls of the lru can be interrupted between them by any
other goroutine, the janitor included. `RedisStore` sends one command after
another; Redis executes each atomically, and other clients' commands, expirations
and lost connections come between. `Exists` may ask a replica. Every command of a
`RedisStore` borrows a connection from the pool its constructor made and gives it
back. The page cache calls a store from the goroutines of concurrent requests.

What is hard to test here, and what the models are for: the windows between two
lru calls or two Redis commands; the janitor sweeping while others write; a store
collected while its janitor starts; expirations cut to whole seconds and compared
with a full clock; amounts of 64 bits without sign added to signed ones; commands
that are lost or executed without a reply; keys that expire within a method; the
adaptive lists of ARC after long sequences of calls; failovers while connections
lie idle, are being made or are in use; error paths that must give back a token or
a mutex; requests that meet in the page cache.

## 2. The modules

| Module | Models |
|---|---|
| `LossyMap` | the promise of the lru: a map that invents nothing and may forget other keys |
| `ARC` | the ARC cache, one action per branch of a method |
| `IntWidth` | the arithmetic of `Increment` and `Decrement` |
| `InMemoryStore` | concurrent methods and the janitor's sweep, over a `LossyMap` |
| `JanitorLifecycle` | start and stop of several stores' janitors |
| `RedisCounter` | the counting methods over Redis, command by command |
| `GenericCache` | the storing and reading methods over Redis, command by command; encryption and padding |
| `RedisPool` | callers, connections and servers of a connection pool |
| `RedisInit` | the constructors of Redis caches, and the use of what they return, over `RedisPool` |
| `PageCache` | concurrent requests through the page cache |
| `ARCProofs`, `InMemoryStoreProofs`, `JanitorLifecycleProofs`, `RedisCounterProofs`, `GenericCacheProofs`, `RedisInitProofs`, `PageCacheProofs` | theorems |
| `MC...` | small instances for TLC |

**ARC.** A `simplelru` list is the sequence of its keys, oldest first. Each method
holds ARC's mutex throughout, so each branch of a method is one action: `GetFromT1`
is the promotion to `t2`, `AddGhostB1` and `AddGhostB2` are the ghost hits that
move `p`, `AddNew` trims the ghost lists. `replace` and `MakeRoom` return the four
lists, as the code's calls leave them. `Abstract` maps ARC to `LossyMap`: the map
is `val`, the values of the cached keys. Both modules record the last call with its
key and value, so that a call which has no effect on the map cannot pass for a
stuttering step.

**InMemoryStore.** A method is a sequence of steps: `Call`, `Clock` (the reading of
`time.Now` in `doAddSet` or `NewGenericCacheEntry`), one of the `ReadTo...` actions
(its `lru.Get`, by what the method does next), `Write` (`lru.Add`), `Hit` or
`JudgeExpired` (`Expired()`), `LruRemove`. `DeleteExpired` is `SweepKeys`
(`lru.Keys`), then for each key `SweepNext` and the same steps, then `SweepEnd`.
Between any two of them every other goroutine can take steps, and time can pass.
The lru is the abstract map: each `lru.Get` and `lru.Add` may evict any other keys
(`Keeps`), which is what the refinement theorem of `ARC` justifies. Entries carry
one field that the program does not have, `by`: the time the caller asked for.
`Update` is given entries made with finite expirations only:
`NewGenericCacheEntry` does not know `FOREVER`, and an entry it makes with it
expires within the second.

**JanitorLifecycle.** The Go runtime runs all finalizers in one goroutine.
`stopJanitor` first evaluates `c.janitor.stop` (`StopJanitor`), then sends (`Send`),
which needs the janitor at its `select`. A channel read as nil stays nil for the send.

**RedisCounter.** `pc` is the Redis command a client sends next. `NotExecuted` is a
command that does not reach Redis, `Expire` a key that goes between two commands.
A command that is executed but whose reply is lost is that command's own action:
the method ends either way. `given` is history: what was added or set so far.

**GenericCache.** `Begin` is the part of a method before its first command: the
entry is made, encrypted by `Set` only, and the expiration fixed. `Store` is
`invoke`: `SETEX` with whole seconds, `SET` when there is no expiration; `SETEX` of
0 or fewer seconds is refused (`StoreRefused`). The seconds are cut to an `int32`
(`Int32`). `conf` is how the cache was made: the length of its secret and its two
default expirations, the `GenericCache`'s own and its `RedisStore`'s, which `invoke`
takes for `DEFAULT`. They are whatever the constructors were given; the tests give 0,
which means that nothing expires by default. `Replicate` is the replica following the
primary, `ExpireAt` the command of `RedisExpireAt`. The counting methods are in
`RedisCounter`. Data is the length of its
encoding: `Padding` adds between one byte and a block, `Unpads` is the check of
`Unpadding`, and `Get` gives back the data if what is left has its length. A
secret that is too short makes `Set` of an entry fail before any command. A value
records, besides what Redis holds, the method that stored it, the data and the
expiration given, and whether `RedisExpireAt` changed its time to live.

**RedisPool.** `get` and `put` of redigo's pool unlock the pool while they close,
test or dial a connection, so each section under the lock is an action: `Acquire`
(the token from `p.ch`), `Prune`, `PopFront`, `NewConnection`, `Refuse`
(`ErrPoolExhausted`), `PutIdle`, `PutFull`, `PutBroken`, and `Closed` or `Release`
when the lock is taken again. `Passes` is `TestOnBorrow`, `FindServer` and `Connect`
are `Dial`, and any of their commands can fail. A connection counts how long it has
been idle (`Tick`), until it is older than `IdleTimeout`. Around the pool, servers
crash, restart and change roles, and the old master of a failover learns of it
later (`Promote`, then `Demote`), with or without closing its connections.

**RedisInit.** `made` is the constructor called and its arguments, which decide
on the pool (`PoolOf`) and on the commands the new cache is tried with
(`ProbesOf`). The probes run one by one through the pool, and the constructor
returns nil, the cache, or the cache with an error. Then all callers use it.
`InitRedisCache` is `New` with `testWriteRead`. Which host name and database are
used is left out, as is the check of the host that only `New` makes.

**PageCache.** A request goes through `SiteCache` (if the route has it), the lookup
of `CachePage`, and then either `ServeCached` or the handler, whose every write goes
to the client (`Write`) and then to the store (`SetPage`, or one of its failures).
`Lock` and `End` are the mutex of `CachePageAtomic`. The handler is arbitrary: it
may set `x-okay-to-cache` and a status, write several pieces, or panic. What matters
of gin is that a chain goes on after a middleware that neither calls `Next` nor
aborts, that the first write sends the status, that `Render` panics on the error that
`WriteString` returns, and that `Recovery` answers a panic with a 500, or, if the
connection is broken, with nothing. The status reaches the cache (`CachedStatus`) only
if the handler gave it to `c.Writer` (`Direct`): `c.Status`, `c.JSON` and `c.String`
set it on gin's own writer, past `cachedWriter.WriteHeader`.
With `ByReference` the store keeps the slice it was given, as `InMemoryStore` does,
and the buffers that handlers fill are used again.

Redis, Sentinel and the Go runtime are external: `INCRBY`, expiration,
replication, failover and the finalizer goroutine are modelled from how the code
uses them.

## 3. The runs

Runs that pass:

| Run | Instance | Distinct states | Shows |
|---|---|---|---|
| `arc` | 4 keys, 2 values, size 2 | 31,540 | `p` within 0..size (`TypeOK`); a key in one list only (`OneHome`); at most size + 1 entries (`AtMostOneOver`); a lookup within the size evicts nothing (`GetKeepsEntries`); ARC is a `LossyMap` (`ImplementsLossyMap`) |
| `store` | 1 key, 1 caller and the janitor, all methods, half seconds, ints of 2 bits | 640,995 | `Increment` is addition modulo the width (`IncrementWraps`); `Decrement` by what fits an int is capped at 0 (`SmallDecrementCapped`); never served after the expiration asked for (`NeverServedLate`); never dropped 2 seconds early (`ExpiredAtMostTwoSecondsEarly`); every expired entry is collected (`ExpiredCollected`) |
| `janitor` | 3 stores, with and without janitor | 5,684 | no janitor of a held store stops (`HeldStoreIsSwept`); no finalizer sends to a janitor that has returned (`SendMeetsJanitor`); if no finalizer meets a nil channel, each collected store's janitor returns |
| `redis_counter` | 1 key, 3 clients, all methods | 590,875 | a counter never exceeds what was given for it |
| `cache` | encryption and read cache on, three ways to make the cache (long and short secret, with and without defaults), data of a whole block, all storing and reading methods, an `int32` of 2 bits | 2,197,931 | what `Set` stores is read back (`CryptoTransparent`); a value is without time to live only for `FOREVER`, for a default that is none, or after an `AddExistingEntry` that came too late (`MortalUnlessAsked`); `ExpiresAt` comes no later than Redis's own expiration, except for expirations that do not fit an `int32` of seconds and after `RedisExpireAt` (`ExpiresAtFirst`) |
| `redis_pool` | every constructor, 2 callers, 2 servers, 2 faults, limits of 1 | 231,078 | `p.active` counts the connections and stays within `MaxActive` (`ActiveBound`); a cache that was to be tried and is returned has taken a write (`TriedIsWritable`); who waits for a connection gets one, or an error (`GetReturns`) |
| `page_cache` | 3 requests, 2 pages, one under `CachePageAtomic` and written in two pieces | 328,574 | an answer from the cache is one write of one run of the handler, with the status that run gave to `c.Writer`, or 200 (`HitReplaysOneRun`); under `CachePageAtomic` no page in the making is served (`NoHalfMadePage`) and no handler runs though a page came in after its lookup (`NoStampede`); who is answered by a handler gets all it wrote, whatever the store does (`OwnAnswerWhole`); after `SiteCache` a client gets at most one cached page before the whole answer of the route (`SiteThenRoute`); every request is answered (`AllAnswered`) |

Runs whose property, taken from a comment of the code, TLC refutes:

| Run | The comment | What happens |
|---|---|---|
| `store_janitor_race` | "Delete all expired items from the cache" | a live entry set between `lru.Get` and `lru.Remove` is removed too |
| `store_add_race` | "only if an item doesn't already exist for the given key, or if the existing item has expired" | two `Add`s of a key both find it absent, and the second stores over the live entry of the first |
| `janitor_nil_stop` | "the finalizer stops the janitor goroutine" | the store is collected before `Run` made `j.stop`: the finalizer goroutine blocks for ever |
| `redis_check_set` | "ONLY if it doesn't change between your GET and SET" | there is no `MULTI` and `EXEC`, so `WATCH` has no effect |
| `page_by_reference` | "to be used to cache pages in thread-safe manner" | the page is stored as the slice that `Write` was given; its buffer is filled again for another response, and the cached page with it |

Other limits that the models make visible and the properties are stated around:
ARC may hold one entry more than its size; `Decrement` by 2^63 or more adds;
concurrent increments in memory are lost; two concurrent `Add`s of a key both succeed
over Redis too; `Add` refuses a key whose
entry has expired but is not collected; `Flush` of a `GenericCache` returns nil
after an error; with `EncryptData`, `Get` panics on entries that `Add`, `Replace`
or `AddExistingEntry` stored in the clear; `Decrement` over Redis makes a counter
negative if the key expires, or another client lowers it, between its `GET` and its
`DECRBY` (a comment says "you can only go to 0"); `AddExistingEntry` of an entry
past its `ExpiresAt` stores it for good; an expiration of 2^31 seconds or more is cut,
and then refused by Redis or too short; `RedisExpireAt` of a missing key succeeds, and
the `ExpiresAt` of an entry does not follow it;
a pool in steady use goes on lending the connections of a demoted master, and a connection may be made to
a replica if the master changes while it is dialled; when a
probe after the first fails on a sentinel pool, `New` and `InitRedisCache` return
the cache with the error; `New` without sentinel ignores `SelectDatabase`; a page
written in several pieces is cached as its last one; an error page written with
`c.JSON` or `c.String` is replayed from the cache with status 200; `SiteCache` does not abort the
chain, so after a hit the route answers too; requests of all methods to a URI share
one page.

**Bounds.** Size 2 and four keys are enough for all branches of ARC: both ghost
lists filled, both cases of `replace`, and the one that evicts nothing. One key is
enough for the stores, as the properties are about one key at a time and methods
on different keys meet only through evictions; these are in `LossyMap`, and to a
method an eviction is no different from a removal by the janitor. One caller is enough in
`store`: its properties are about one call at a time, and the janitor comes between
its steps; `store_add_race` has two. The proofs are for any set of keys and callers. The width is 2 or 3 bits, so that sums overflow.
`MaxNow` lets an entry of every expiration be made, expire, and be made
again. `MaxGiven` stops new calls, not the ones under way. `MaxLag` 1 means that
the primary waits for the replica, which leaves the replica one write behind.
Blocks of two bytes and data of two have the padding that is a block, the case at the
limit of `Unpadding`; the proof is for every length. Half a second, a second and five
seconds are an expiration that `SETEX` refuses, one that it takes and one that the
`int32` of 2 bits cuts to one. Limits of 1 and two callers make a caller wait, be refused
and find the idle list full; two faults are a failover and a crash, in either order.
Three requests are one that fills the cache, one that is served from it, and one
that interferes; two pieces are the fewest that can be torn apart. One buffer is
enough in `page_by_reference`, as the requests write one after the other.
Clients are symmetric in `redis_counter`: all may call the same methods, and the
run checks only invariants.

**Deadlock** is checked in `arc`, `store` and `cache`. Janitors come to rest
once all stores are collected, the clients of `RedisCounter` once `MaxGiven` is
reached, requests once they are answered, and there is nothing left to do when a
constructor has returned nil. For these parts, that nobody waits for ever is what
`StoppedUnlessNil`, `AllAnswered` and `GetReturns` state.

**Fairness.** `InMemoryStore!FairSpec`: the janitor's goroutine is run
(`WF(Sweep)`), as its ticker goes on firing. Callers have no fairness: a call may
be delayed for ever. `JanitorLifecycle!FairSpec`: a goroutine that can run does
(`WF` of `MakeStop` and `SweepDone`); `StopJanitor` and `Send` are enabled only
from time to time, the one while no other finalizer runs, the other while the
janitor is at its `select`. `SF` of them is justified by the finalizer queue being
served in turn, and by `select` choosing at random among the cases that are ready.
There is no fairness of `TickCase`: the ticker may be slow.
`RedisInit!FairSpec`: a caller goes on with its method (`WF(Step)`), since
`NewSentinelPool`, the only pool whose callers wait for each other, dials with
timeouts (which its caller must set: 0 is none); those who wait for a token get one
if tokens come again and again (`SF(Wake)`), as a Go channel serves its receivers in
turn. `PageCache!FairSpec`: likewise `WF` of a request's steps, as handlers return
or panic, and `SF` of `Lock`, as Go's mutex hands itself over to who has waited for
a millisecond. Neither has fairness of the environment: servers need not restart,
pages need not be forgotten.

## 4. What is proved

For every value of the constants that satisfies the modules' assumptions:

- **`ARCProofs`** (`Size` positive, `None` no value): `TypeCorrect`,
  `ListsDisjoint`, `CapacityBound`, `GetEvictsNothing` and `Refinement`
  (`Spec => ImplementsLossyMap`). The inductive invariant adds to the properties
  that `t1` and `t2` are each within `Size`, and that keys that are not cached have
  no value. The bound of size + 1 needs the first: an `Add` that meets a cache
  of size + 1 must find something to evict, and it does because the entries cannot
  all be in `t1`. The lemmas say what `simplelru`'s operations and `replace` do to a
  list; then there is one lemma per action.
- **`InMemoryStoreProofs`** (a clock of at least one tick per second that starts
  after the first second of 1970; entries, amounts and inputs of the right kind):
  `TypeCorrect`, `ServedInTime`, `NotExpiredEarly`, and, for every
  width (`Half` is 2^63 in the program), `IncrementIsModular` and
  `DecrementIsCapped`. The inductive
  invariant `IndInv` says of every entry, in the lru or in a local variable, that its
  expiration is no later than the one asked for and less than two seconds earlier
  (`Timed`: two truncations lose less than a second each), and says what a call's
  local variables hold at each step (`Frame`): what a method stores or judges some
  steps after it read it is still such an entry.
- **`JanitorLifecycleProofs`** (`None` is neither a store nor a channel):
  `SweptWhileHeld` (`HeldStoreIsSwept`) and `SendIsReceived` (`SendMeetsJanitor`). The
  inductive invariant says that a store whose finalizer is queued or runs was collected
  and has a janitor that has not returned (`FinalizedOnce`), and that the channel a
  finalizer sends on is its own store's, made by a janitor that is in its loop
  (`ChannelOf`).
- **`RedisCounterProofs`** (amounts are uint64s): `TypeCorrect` and
  `CountedAtMostOnce` (`NeverOvercounts`). `Value(k) <= given[k]` is not inductive: a
  `SET` writes a sum whose first term was read some commands ago. `Bounded` adds that
  what a client read is at most what was given so far. This stays true because the
  total only grows; cutting a sum to the width never makes it greater (`Sums`), and
  what `Decrement` takes off is never negative (`TakesOff`): a count below 2^63 that
  is above `uint64(value)` shows that the value is not negative.
- **`GenericCacheProofs`** (at least two ticks per second, any integers as defaults and
  expirations, data of at least one byte, a block that fits a byte, an `int32` of any
  width):
  `DataReadBack` (`CryptoTransparent`), `ImmortalOnRequest` (`MortalUnlessAsked`) and
  `EntryExpiresFirst` (`ExpiresAtFirst`). The inductive invariant speaks of every value
  in the primary, in the replica, on the way to it, and in a method that is yet to store
  it. `Readable`: an entry that `Set` made is its data and at most a block of padding,
  and the secret that encrypted it was long enough. `Timely`: whenever the command
  comes, `ExpiresAt` is not after the time it sets, because `NewGenericCacheEntry` and
  `invoke` cut the same expiration to seconds and the clock of the entry starts first;
  for `AddExistingEntry` because whole seconds survive the conversion to ticks and back
  (`WholeSeconds`). `Excused` is what may be stored without time to live: what was asked
  for, or an `AddExistingEntry` whose remaining time is up, which time never undoes.
  An `int32` leaves alone the seconds that fit it (`Int32Facts`). `Stored` is what `Timely` becomes by the store (`StoreFacts`).
- **`RedisInitProofs`** (finitely many callers; `MaxActive` of the sentinel pool
  positive): `TypeCorrect`, `CountIsExact` (`ActiveBound`), and
  `ReturnedIsWritable` (`TriedIsWritable`). The argument is a ledger:
  `p.active` is the number of idle connections and of callers between the steps that
  count them, and, where callers wait, the tokens in `p.ch` and the callers that have
  one add up to `MaxActive` (`Tokens`). With `Wait` nothing else limits `p.active`, so
  the bound needs both. `Ledger` says what a step that moves one caller must do to the
  two counts; `RunPreserves` applies it to each section under the lock. `Trying` says
  what the constructor knows while it runs: it is the only caller, and once its first
  probe was answered, a master has taken a write.
- **`PageCacheProofs`** (at least one piece per page; buffers are not pieces):
  `MutexHidesPage` (`NoHalfMadePage`), `MutexPreventsStampede`
  (`NoStampede`), `AnswersWhole` (`OwnAnswerWhole`) and, only for stores that copy what
  they are given (`~ByReference`), `HitsReplay` (`HitReplaysOneRun`). The inductive
  invariant says that a request is inside `CachePageAtomic` only with the mutex
  (`Exclusion`), what a request and its client have at each step (`Progress`), and of each page in
  the store or in a local variable that a request to its URI wrote it and is past that
  write (`Cached`), which stays true because requests only go forward.

Every invariant and action property of the passing runs is proved but one. Only
model-checked: `SiteThenRoute`, and liveness (`ExpiredCollected`, `StoppedUnlessNil`, `GetReturns`, `AllAnswered`), as
fairness and `ENABLED` are out of the prover's reach, and of course the refutations.
The run `cache` has one key and one client, for its state space: what concurrent clients
do to each other's values is in the proof.

## 5. Not modelled

- Prometheus metrics (`metrics.go`), logging, tracing and the example service have no
  effect on cached data; `generic_test_store.go` is a suite of tests.
- Reading environment variables, parsing URLs and `inCluster` only choose an address.
- AES, HMAC signatures and gob encoding belong to the standard library: they are
  taken to be injective, and encryption to be undone by decryption with the same
  secret. `urlEscape` is taken to keep URIs apart (beyond 200 characters by SHA-1).
- The type switch of `GenericCache.Get` calls the store in the same way for each type
  it supports, and is modelled for entries and for everything else.
- `RedisGetExpiresIn` only reads. `MSetNX` and `Mget` of `RedisStore`, `Contains` and
  `Peek` of ARC and `Close` of the pool are not called by this repository.
- A `GenericCache` over an `InMemoryStore` adds nothing to the store's methods but
  encryption; that a service puts it in front of one over Redis is up to the service,
  and the level (`L1`, `L2`) is only logged.
- `NewGenericCacheEntry` with `FOREVER` followed by `Update` (see `InMemoryStore`).

## 6. Plan

- The page cache over the steps of `InMemoryStore`, whose lookups may take an expired
  page away.
