------------------------------ MODULE PageCache -----------------------------
(***************************************************************************)
(* The page cache of galapagos_gin/cache/cache.go: concurrent requests to  *)
(* handlers under CachePage or CachePageAtomic, some of which pass the     *)
(* SiteCache middleware first.  A step of a request is a call of the       *)
(* store, a write to the client, or taking the mutex of CachePageAtomic.   *)
(*                                                                         *)
(* The pieces a handler writes are <<r, 1>>, <<r, 2>>, ...: r is the       *)
(* request it answers.  The key of a page is its URI: urlEscape keeps      *)
(* different URIs apart.                                                   *)
(***************************************************************************)
EXTENDS Integers, Sequences

CONSTANTS
  Requests,
  Uris,
  None,
  Atomic,       \* the URIs of a route under CachePageAtomic; the others are
                \* under CachePage
  ViaSite,      \* the requests that pass SiteCache
  Pieces,       \* Pieces[u]: the number of writes the handler of u makes
  ByString,     \* the URIs whose handler uses WriteString and not Write
  Buffers,      \* the buffers that are given to Write, and used again
  ByReference,  \* the store keeps the slice it is given (InMemoryStore) and
                \* does not serialize it (RedisStore)
  Code,         \* Code[r]: the status r's handler sets, 0 if it sets none
  Direct        \* the requests whose handler sets it with c.Writer.WriteHeader;
                \* the others use gin's Context (c.Status, c.JSON, c.String)

ASSUME RouteAssumption ==
  /\ Atomic \subseteq Uris /\ ByString \subseteq Uris /\ ViaSite \subseteq Requests
  /\ Direct \subseteq Requests
  /\ Pieces \in [Uris -> Nat \ {0}]
  /\ Code \in [Requests -> Nat]
  /\ Buffers # {} /\ Buffers \cap (Requests \X Nat) = {}
  /\ None \notin Requests /\ ByReference \in BOOLEAN

VARIABLES
  store,    \* the ResponseCache of each URI, or None
  buf,      \* the contents of each buffer
  mutex,    \* the request that has CachePageAtomic's mutex, or None
  pc,       \* the next step of each request
  uri,      \* what it asks for
  found,    \* what its store.Get found: a ResponseCache, None or Lost
  okay,     \* whether its response has the header x-okay-to-cache
  piece,    \* how many pieces its handler has written
  using,    \* the buffer its Write was given
  sent,     \* the status the client got, 0 before the first write
  body      \* the pieces the client got

vars ==
  <<store, buf, mutex, pc, uri, found, okay, piece, using, sent, body>>

handler == <<okay, piece>>

Lost == [lost |-> TRUE]

Init ==
  /\ store = [u \in Uris |-> None]
  /\ buf = [b \in Buffers |-> None]
  /\ mutex = None
  /\ pc = [r \in Requests |-> "new"]
  /\ uri = [r \in Requests |-> None]
  /\ found = [r \in Requests |-> None]
  /\ okay = [r \in Requests |-> FALSE]
  /\ piece = [r \in Requests |-> 0]
  /\ using = [r \in Requests |-> None]
  /\ sent = [r \in Requests |-> 0]
  /\ body = [r \in Requests |-> <<>>]

-----------------------------------------------------------------------------
(* What a client gets *)

(* gin: WriteHeader(0) does nothing, and the status is 200 by default. *)
Status(c) == IF c = 0 THEN 200 ELSE c

(* w.status, which goes into the cache: gin's Context writes the status to *)
(* its own writer, past cachedWriter.WriteHeader.                          *)
CachedStatus(r) == IF r \in Direct THEN Code[r] ELSE 0

(* A write sends the status, unless one was sent already. *)
Send(r, c, p) ==
  /\ sent' = [sent EXCEPT ![r] = IF @ = 0 THEN Status(c) ELSE @]
  /\ body' = [body EXCEPT ![r] = Append(@, p)]

(* The bytes of a cached page: those now in the buffer, if Data is one. *)
Bytes(data) == IF data \in Buffers THEN buf[data] ELSE data

Goto(r, step) == pc' = [pc EXCEPT ![r] = step]

-----------------------------------------------------------------------------
(* SiteCache and the lookup of CachePage *)

Arrive(r, u) ==
  /\ pc[r] = "new"
  /\ uri' = [uri EXCEPT ![r] = u]
  /\ Goto(r, IF r \in ViaSite THEN "site" ELSE "route")
  /\ UNCHANGED <<store, buf, mutex, found, handler, using, sent, body>>

(* store.Get, which can fail *)
Lookup(r) ==
  /\ found' = [found EXCEPT ![r] = store[uri[r]]]
  /\ UNCHANGED <<store, buf, mutex, uri, handler, using, sent, body>>

LookupFails(r) ==
  /\ found' = [found EXCEPT ![r] = Lost]
  /\ UNCHANGED <<store, buf, mutex, uri, handler, using, sent, body>>

Page(x) == x \notin {None, Lost}

(* The cached page goes to the client, with the headers it has; after      *)
(* SiteCache, gin goes on to the route, for the middleware does not abort  *)
(* the chain.                                                              *)
Serve(r, step) ==
  /\ Send(r, found[r].status, Bytes(found[r].data))
  /\ okay' = [okay EXCEPT ![r] = @ \/ found[r].okay]
  /\ found' = [found EXCEPT ![r] = None]
  /\ Goto(r, step)
  /\ UNCHANGED <<store, buf, mutex, uri, piece, using>>

SiteGet(r) ==
  /\ pc[r] = "site"
  /\ Lookup(r) \/ LookupFails(r)
  /\ Goto(r, IF Page(found'[r]) THEN "siteServe" ELSE "route")

(* mutant: the page is written before its status *)
SiteServeUnset(r) ==
  /\ pc[r] = "siteServe"
  /\ Send(r, 0, Bytes(found[r].data))
  /\ okay' = [okay EXCEPT ![r] = @ \/ found[r].okay]
  /\ found' = [found EXCEPT ![r] = None]
  /\ Goto(r, "route")
  /\ UNCHANGED <<store, buf, mutex, uri, piece, using>>

SiteServe(r) == pc[r] = "siteServe" /\ Serve(r, "route")

(* mutant: CachePageAtomic does not wait for the mutex *)
LockAtOnce(r) ==
  /\ pc[r] = "route"
  /\ mutex' = IF uri[r] \in Atomic THEN r ELSE mutex
  /\ Goto(r, "get")
  /\ UNCHANGED <<store, buf, uri, found, handler, using, sent, body>>

Lock(r) ==
  /\ pc[r] = "route"
  /\ uri[r] \in Atomic => mutex = None
  /\ mutex' = IF uri[r] \in Atomic THEN r ELSE mutex
  /\ Goto(r, "get")
  /\ UNCHANGED <<store, buf, uri, found, handler, using, sent, body>>

(* mutant: CachePage does not look at x-okay-to-cache *)
GetAny(r) ==
  /\ pc[r] = "get"
  /\ Lookup(r) \/ LookupFails(r)
  /\ Goto(r, IF Page(found'[r]) THEN "serve" ELSE "handle")

Get(r) ==
  /\ pc[r] = "get"
  /\ Lookup(r) \/ LookupFails(r)
  /\ Goto(r, IF Page(found'[r]) /\ found'[r].okay THEN "serve" ELSE "handle")

ServeCached(r) == pc[r] = "serve" /\ Serve(r, "end")

-----------------------------------------------------------------------------
(* The handler, behind a cachedWriter *)

Handle(r) ==
  /\ pc[r] = "handle"
  /\ \E ok \in BOOLEAN : okay' = [okay EXCEPT ![r] = @ \/ ok]
  /\ found' = [found EXCEPT ![r] = None]
  /\ Goto(r, "write")
  /\ UNCHANGED <<store, buf, mutex, uri, piece, using, sent, body>>

Free == {b \in Buffers : \A r \in Requests : using[r] # b}

(* Write or WriteString, up to the call of the store.  A handler fills a   *)
(* buffer from a pool for Write and has a string for WriteString; which    *)
(* buffer matters only to a store that keeps it.                           *)
Write(r) ==
  LET p == <<r, piece[r] + 1>>
  IN  /\ pc[r] = "write"
      /\ piece' = [piece EXCEPT ![r] = @ + 1]
      /\ Send(r, Code[r], p)
      /\ IF uri[r] \in ByString \/ ~ByReference
         THEN UNCHANGED <<buf, using>>
         ELSE \E b \in Free : /\ buf' = [buf EXCEPT ![b] = p]
                              /\ using' = [using EXCEPT ![r] = b]
      /\ Goto(r, "set")
      /\ UNCHANGED <<store, mutex, uri, found, okay>>

(* The ResponseCache that is stored: this piece only, with all the headers *)
(* set so far.  by is no field of the program's: whose handler wrote it.   *)
Response(r) ==
  [by |-> r, status |-> CachedStatus(r), okay |-> okay[r],
   data |-> IF using[r] # None THEN using[r] ELSE <<r, piece[r]>>]

(* The write returns, and the buffer may be used again. *)
Written(r) ==
  /\ Goto(r, IF piece[r] < Pieces[uri[r]] THEN "write" ELSE "end")
  /\ using' = [using EXCEPT ![r] = None]
  /\ UNCHANGED <<buf, mutex, uri, found, handler, sent, body>>

SetPage(r) ==
  /\ pc[r] = "set"
  /\ store' = [store EXCEPT ![uri[r]] = Response(r)]
  /\ Written(r)

(* mutant: Write reports that the store failed, and the handler gives up *)
SetIgnoredNot(r) ==
  /\ pc[r] = "set"
  /\ Goto(r, "end")
  /\ using' = [using EXCEPT ![r] = None]
  /\ UNCHANGED <<store, buf, mutex, uri, found, handler, sent, body>>

(* store.Set fails: Write says nothing, and after WriteString the handler  *)
(* may go on too.                                                          *)
SetIgnored(r) ==
  /\ pc[r] = "set"
  /\ Written(r)
  /\ UNCHANGED store

(* store.Set fails: WriteString returns the error, and gin panics. *)
SetPanics(r) ==
  /\ pc[r] = "set"
  /\ uri[r] \in ByString
  /\ Goto(r, "panicked")
  /\ UNCHANGED <<store, buf, mutex, uri, found, handler, using, sent, body>>

(* The handler panics.  gin's Recovery answers with a 500 if nothing was   *)
(* sent, or, if the connection is broken, not at all.                      *)
HandlerPanics(r) ==
  /\ pc[r] = "write"
  /\ \E answer \in {500, 0} : sent' = [sent EXCEPT ![r] = IF @ = 0 THEN answer ELSE @]
  /\ Goto(r, "panicked")
  /\ UNCHANGED <<store, buf, mutex, uri, found, handler, using, body>>

-----------------------------------------------------------------------------
(* mutant: Unlock is not deferred, so a panic skips it *)
EndNotDeferred(r) ==
  /\ pc[r] \in {"end", "panicked"}
  /\ mutex' = IF mutex = r /\ pc[r] = "end" THEN None ELSE mutex
  /\ Goto(r, IF pc[r] = "end" THEN "done" ELSE "failed")
  /\ UNCHANGED <<store, buf, uri, found, handler, using, sent, body>>

(* The request is over; CachePageAtomic has deferred m.Unlock. *)
End(r) ==
  /\ pc[r] \in {"end", "panicked"}
  /\ mutex' = IF mutex = r THEN None ELSE mutex
  /\ Goto(r, IF pc[r] = "end" THEN "done" ELSE "failed")
  /\ UNCHANGED <<store, buf, uri, found, handler, using, sent, body>>

(* A page expires, or is evicted or deleted. *)
Forget(u) ==
  /\ store[u] # None
  /\ store' = [store EXCEPT ![u] = None]
  /\ UNCHANGED <<buf, mutex, pc, uri, found, handler, using, sent, body>>

Run(r) ==
  \/ SiteGet(r) \/ SiteServe(r) \/ Get(r) \/ ServeCached(r) \/ Handle(r)
  \/ Write(r) \/ SetPage(r) \/ SetIgnored(r) \/ SetPanics(r) \/ HandlerPanics(r)
  \/ End(r)

Next ==
  \/ \E r \in Requests : Lock(r) \/ Run(r) \/ \E u \in Uris : Arrive(r, u)
  \/ \E u \in Uris : Forget(u)

Spec == Init /\ [][Next]_vars

(* Handlers, the store and the client answer, and a Go mutex starves no    *)
(* goroutine.                                                              *)
FairSpec ==
  Spec /\ \A r \in Requests : WF_vars(Run(r)) /\ SF_vars(Lock(r))

-----------------------------------------------------------------------------
(* Properties *)

(* CachePage answered r from the cache. *)
FromCache(r) == pc[r] \in {"end", "done"} /\ piece[r] = 0

(* The answer of r is a piece that the handler wrote for q, who asked for  *)
(* the same URI, with the x-okay-to-cache of that run, and the status it   *)
(* gave to c.Writer: one that it gave to gin's Context is lost, and r gets *)
(* a 200 instead.                                                          *)
Replays(r, q) ==
  /\ uri[q] = uri[r]
  /\ okay[q]
  /\ sent[r] = Status(CachedStatus(q))
  /\ \E i \in 1..piece[q] : body[r] = <<<<q, i>>>>

(* "function to be used to cache pages in thread-safe manner"              *)
(* (CachePageAtomic), and as much for CachePage: an answer from the cache  *)
(* is what one run of the page's handler wrote in one call, whatever the   *)
(* other requests do meanwhile.  (After SiteCache there may be two.)       *)
HitReplaysOneRun ==
  \A r \in Requests \ ViaSite : FromCache(r) => \E q \in Requests : Replays(r, q)

(* CachePageAtomic serves no page in the making: the handler that wrote it *)
(* has returned.  Header and Data of a ResponseCache in an InMemoryStore   *)
(* are those of that handler's response, which it could still change.      *)
NoHalfMadePage ==
  \A r \in Requests : pc[r] = "serve" /\ uri[r] \in Atomic =>
    pc[found[r].by] \in {"done", "failed"}

(* Under CachePageAtomic a handler runs only for want of a page: none that *)
(* is okay to cache came into the store after its lookup.                  *)
NoStampede ==
  \A r \in Requests : pc[r] = "handle" /\ uri[r] \in Atomic =>
    \/ found[r] = Lost
    \/ store[uri[r]] = None
    \/ ~store[uri[r]].okay

(* Whatever becomes of the store's calls, who is answered by a handler     *)
(* that does not panic gets all it wrote, in order.  (If Set fails within  *)
(* WriteString, gin makes it panic.)                                       *)
OwnAnswerWhole ==
  \A r \in Requests \ ViaSite : pc[r] = "done" /\ piece[r] > 0 =>
    body[r] = [i \in 1..Pieces[uri[r]] |-> <<r, i>>]

(* Who passed SiteCache is answered by it, by the route, or by both, one   *)
(* after the other, as SiteCache does not end the chain: at most one page  *)
(* of the URI asked for, whose status is then the status of it all, and    *)
(* the whole of what CachePage found or its handler wrote.                 *)
SiteThenRoute ==
  \A r \in ViaSite : pc[r] = "done" =>
    LET route == IF piece[r] = 0 THEN 1 ELSE piece[r]
        site == Len(body[r]) - route
        Of(i) == body[r][i][1]
    IN  /\ site \in {0, 1}
        /\ site = 1 => uri[Of(1)] = uri[r] /\ sent[r] = Status(CachedStatus(Of(1)))
        /\ IF piece[r] = 0
           THEN uri[Of(site + 1)] = uri[r] /\ okay[Of(site + 1)]
           ELSE SubSeq(body[r], site + 1, Len(body[r]))
                  = [i \in 1..Pieces[uri[r]] |-> <<r, i>>]

Waiting(r) == pc[r] \notin {"new", "done", "failed"}

(* Every request is answered, whichever handlers panic: the mutex comes    *)
(* free again, and in the end nobody waits.                                *)
AllAnswered ==
  (\E r \in Requests : Waiting(r)) ~> (\A r \in Requests : ~Waiting(r))
=============================================================================
