-------------------------- MODULE PageCacheProofs ---------------------------
(***************************************************************************)
(* Proofs about PageCache, for any number of requests, pages and pieces.   *)
(***************************************************************************)
EXTENDS PageCache, TLAPS, SequenceTheorems

Places ==
  {"new", "site", "siteServe", "route", "get", "serve", "handle", "write", "set",
   "end", "panicked", "done", "failed"}

Pages ==
  [by : Requests, status : Nat, okay : BOOLEAN,
   data : Buffers \cup (Requests \X Nat)]

TypeOK ==
  /\ store \in [Uris -> Pages \cup {None}]
  /\ buf \in [Buffers -> (Requests \X Nat) \cup {None}]
  /\ mutex \in Requests \cup {None}
  /\ pc \in [Requests -> Places]
  /\ uri \in [Requests -> Uris \cup {None}]
  /\ found \in [Requests -> Pages \cup {None, Lost}]
  /\ okay \in [Requests -> BOOLEAN]
  /\ piece \in [Requests -> Nat]
  /\ using \in [Requests -> Buffers \cup {None}]
  /\ sent \in [Requests -> Nat]
  /\ body \in [Requests -> Seq(Requests \X Nat)]

(* Between Lock and Unlock of CachePageAtomic *)
Inside == {"get", "serve", "handle", "write", "set", "end", "panicked"}

(* Before the handler, or the page from the cache, has written *)
Silent == {"new", "site", "siteServe", "route", "get", "serve", "handle"}

(* From the handler's first write on *)
Past == {"write", "set", "end", "panicked", "done", "failed"}

(* A request to a route under CachePageAtomic is inside only with the      *)
(* mutex.                                                                  *)
Exclusion ==
  \A r \in Requests : pc[r] \in Inside /\ uri[r] \in Atomic => mutex = r

(* The pieces of the handler of r *)
Whole(r, n) == [i \in 1..n |-> <<r, i>>]

(* What a request has, by where it is *)
PlaceOf(r) ==
  /\ IF pc[r] = "new" THEN found[r] = None ELSE uri[r] \in Uris
  /\ pc[r] \in Silent => piece[r] = 0
  /\ pc[r] = "write" => piece[r] < Pieces[uri[r]]
  /\ pc[r] = "set" => piece[r] > 0 /\ piece[r] <= Pieces[uri[r]]
  /\ pc[r] \in {"end", "done"} => piece[r] = 0 \/ piece[r] = Pieces[uri[r]]
  /\ pc[r] \in {"site", "siteServe"} => r \in ViaSite
  /\ pc[r] \in {"siteServe", "serve"} => Page(found[r])
  /\ pc[r] = "serve" => found[r].okay

(* What its client has got *)
AnswerOf(r) ==
  r \notin ViaSite =>
    /\ pc[r] \in Silent => body[r] = <<>> /\ sent[r] = 0
    /\ pc[r] \in {"write", "set"} \/ (pc[r] \in {"end", "done"} /\ piece[r] > 0) =>
         body[r] = Whole(r, piece[r])

ProgressOf(r) == PlaceOf(r) /\ AnswerOf(r)

Progress == \A r \in Requests : ProgressOf(r)

(* x is of the page u: a request to u wrote it, and is past its first      *)
(* write; its headers were those of that response.                         *)
Cached(x, u) ==
  /\ uri[x.by] = u
  /\ pc[x.by] \in Past
  /\ piece[x.by] > 0
  /\ x.okay => okay[x.by]
  /\ x.status = CachedStatus(x.by)
  /\ Bytes(x.data) \in Requests \X Nat
  /\ ~ByReference => \E i \in 1..piece[x.by] : x.data = <<x.by, i>>

AllCached ==
  /\ \A u \in Uris : store[u] # None => Cached(store[u], u)
  /\ \A r \in Requests : Page(found[r]) => Cached(found[r], uri[r])
  /\ \A r \in Requests : using[r] # None => buf[using[r]] \in Requests \X Nat
  /\ ~ByReference => \A r \in Requests : using[r] = None

(* The inductive invariant *)
IndInv ==
  /\ TypeOK
  /\ Exclusion
  /\ Progress
  /\ AllCached
  /\ NoHalfMadePage
  /\ NoStampede
  /\ ~ByReference => HitReplaysOneRun

-----------------------------------------------------------------------------
(* What every step leaves alone *)

Moves(r) == Lock(r) \/ Run(r) \/ \E u \in Uris : Arrive(r, u)

(* Only r's own variables change when r moves. *)
LEMMA OthersStay ==
  ASSUME TypeOK, NEW r \in Requests, Moves(r), NEW q \in Requests, q # r
  PROVE  /\ pc'[q] = pc[q] /\ uri'[q] = uri[q] /\ found'[q] = found[q]
         /\ okay'[q] = okay[q] /\ piece'[q] = piece[q] /\ using'[q] = using[q]
         /\ sent'[q] = sent[q] /\ body'[q] = body[q]
<1> USE DEF TypeOK, Places, Goto, handler
<1>1. CASE Lock(r) \/ \E u \in Uris : Arrive(r, u)
  BY <1>1 DEF Lock, Arrive
<1>2. CASE SiteGet(r) \/ Get(r)
  BY <1>2 DEF SiteGet, Get, Lookup, LookupFails
<1>3. CASE SiteServe(r) \/ ServeCached(r)
  BY <1>3 DEF SiteServe, ServeCached, Serve, Send
<1>4. CASE Handle(r) \/ HandlerPanics(r) \/ SetPanics(r) \/ End(r)
  BY <1>4 DEF Handle, HandlerPanics, SetPanics, End
<1>5. CASE Write(r)
  BY <1>5 DEF Write, Send
<1>6. CASE SetPage(r) \/ SetIgnored(r)
  BY <1>6 DEF SetPage, SetIgnored, Written
<1> QED BY <1>1, <1>2, <1>3, <1>4, <1>5, <1>6 DEF Moves, Run

(* A request goes forward. *)
LEMMA Forward ==
  ASSUME TypeOK, NEW r \in Requests, Moves(r)
  PROVE  /\ pc[r] # "new" => uri'[r] = uri[r]
         /\ okay[r] => okay'[r]
         /\ piece[r] \in Nat /\ piece'[r] \in Nat /\ piece[r] <= piece'[r]
         /\ pc[r] \in Past => pc'[r] \in Past
<1> USE DEF Goto, handler, Past
<1>0. /\ DOMAIN pc = Requests /\ DOMAIN uri = Requests /\ DOMAIN okay = Requests
      /\ DOMAIN piece = Requests /\ piece[r] \in Nat
  BY DEF TypeOK
<1>1. CASE Lock(r) \/ \E u \in Uris : Arrive(r, u)
  BY <1>0, <1>1 DEF Lock, Arrive
<1>2. CASE SiteGet(r) \/ Get(r)
  BY <1>0, <1>2 DEF SiteGet, Get, Lookup, LookupFails
<1>3. CASE SiteServe(r) \/ ServeCached(r)
  <2>1. okay' = [okay EXCEPT ![r] = @ \/ found[r].okay]
    BY <1>3 DEF SiteServe, ServeCached, Serve
  <2>2. okay[r] => okay'[r]
    BY <1>0, <2>1, Zenon
  <2>3. UNCHANGED <<uri, piece>> /\ (pc[r] \in Past => FALSE)
    BY <1>3 DEF SiteServe, ServeCached, Serve
  <2> QED BY <1>0, <2>2, <2>3
<1>4. CASE Handle(r)
  <2>1. PICK ok \in BOOLEAN : okay' = [okay EXCEPT ![r] = @ \/ ok]
    BY <1>4 DEF Handle
  <2>2. okay[r] => okay'[r]
    BY <1>0, <2>1, Zenon
  <2>3. UNCHANGED <<uri, piece>> /\ (pc[r] \in Past => FALSE)
    BY <1>4 DEF Handle
  <2> QED BY <1>0, <2>2, <2>3
<1>5. CASE Write(r)
  BY <1>0, <1>5 DEF Write, Send
<1>6. CASE SetPage(r) \/ SetIgnored(r)
  BY <1>0, <1>6 DEF SetPage, SetIgnored, Written
<1>7. CASE HandlerPanics(r) \/ SetPanics(r) \/ End(r)
  BY <1>0, <1>7 DEF HandlerPanics, SetPanics, End
<1> QED BY <1>1, <1>2, <1>3, <1>4, <1>5, <1>6, <1>7 DEF Moves, Run

(* A buffer that was filled stays so. *)
LEMMA BuffersFilled ==
  ASSUME TypeOK, NEW r \in Requests, Moves(r),
         NEW b \in Buffers, buf[b] \in Requests \X Nat
  PROVE  buf'[b] \in Requests \X Nat
<1>1. CASE Write(r)
  BY <1>1 DEF Write, TypeOK
<1>2. CASE ~Write(r)
  BY <1>2
  DEF Moves, Run, Lock, Arrive, SiteGet, Get, Lookup, LookupFails, SiteServe, ServeCached,
      Serve, Handle, SetPage, SetIgnored, Written, SetPanics, HandlerPanics, End
<1> QED BY <1>1, <1>2

(* So a page of the cache stays one, whoever moves. *)
LEMMA CachedStays ==
  ASSUME TypeOK, Progress, NEW r \in Requests, Moves(r),
         NEW x \in Pages, NEW u, Cached(x, u)
  PROVE  Cached(x, u)'
<1> DEFINE q == x.by
<1>1. q \in Requests
  BY DEF Pages
<1>2. /\ pc[q] # "new" => uri'[q] = uri[q]
      /\ okay[q] => okay'[q]
      /\ piece[q] \in Nat /\ piece'[q] \in Nat /\ piece[q] <= piece'[q]
      /\ pc[q] \in Past => pc'[q] \in Past
  <2>1. CASE q = r
    BY <1>1, <2>1, Forward
  <2>2. CASE q # r
    <3>1. piece[q] \in Nat
      BY <1>1 DEF TypeOK
    <3> QED BY <1>1, <2>2, <3>1, OthersStay
  <2> QED BY <2>1, <2>2
<1>3. Bytes(x.data)' \in Requests \X Nat
  BY BuffersFilled DEF Cached, Bytes
<1>4. /\ uri[q] = u /\ pc[q] \in Past /\ piece[q] > 0 /\ (x.okay => okay[q])
      /\ x.status = CachedStatus(q)
      /\ ~ByReference => \E i \in 1..piece[q] : x.data = <<q, i>>
  BY DEF Cached
<1>5. pc[q] # "new"
  BY <1>4 DEF Past
<1>6. /\ uri'[q] = u /\ pc'[q] \in Past /\ piece'[q] > 0 /\ (x.okay => okay'[q])
  BY <1>2, <1>4, <1>5
<1>7. ~ByReference => \E i \in 1..piece'[q] : x.data = <<q, i>>
  BY <1>2, <1>4
<1> HIDE DEF q
<1> QED BY <1>3, <1>4, <1>6, <1>7 DEF Cached, q

-----------------------------------------------------------------------------
(* The steps of a request *)

(* One piece more, written behind the others *)
LEMMA WholeAppend ==
  ASSUME NEW r \in Requests, NEW n \in Nat
  PROVE  /\ Append(Whole(r, n), <<r, n + 1>>) = Whole(r, n + 1)
         /\ Whole(r, 0) = <<>>
<1> DEFINE S == Requests \X Nat
<1>1. Whole(r, n) \in Seq(S) /\ Len(Whole(r, n)) = n
  BY DEF Whole
<1>2. Whole(r, n + 1) \in Seq(S) /\ Len(Whole(r, n + 1)) = n + 1
  BY DEF Whole
<1>3. <<r, n + 1>> \in S
  OBVIOUS
<1> DEFINE a == Append(Whole(r, n), <<r, n + 1>>)
<1>4. /\ a \in Seq(S) /\ Len(a) = n + 1
      /\ \A i \in 1..n : a[i] = Whole(r, n)[i]
      /\ a[n + 1] = <<r, n + 1>>
  BY <1>1, <1>3, AppendProperties
<1>5. \A i \in 1..n+1 : a[i] = Whole(r, n + 1)[i]
  <2> SUFFICES ASSUME NEW i \in 1..n+1 PROVE a[i] = Whole(r, n + 1)[i]
    OBVIOUS
  <2> HIDE DEF a
  <2>1. CASE i = n + 1
    BY <1>4, <2>1 DEF Whole
  <2>2. CASE i \in 1..n
    BY <1>4, <2>2 DEF Whole
  <2> QED BY <2>1, <2>2
<1> HIDE DEF a
<1>6. a = Whole(r, n + 1)
  BY <1>2, <1>4, <1>5, SeqEqual
<1>7. Whole(r, 0) = <<>>
  BY DEF Whole
<1> QED BY <1>6, <1>7 DEF a

(* What Write sends on keeps the types of sent and body. *)
LEMMA SendTypes ==
  ASSUME TypeOK, NEW r \in Requests, NEW c \in Nat, NEW p \in Requests \X Nat, Send(r, c, p)
  PROVE  sent' \in [Requests -> Nat] /\ body' \in [Requests -> Seq(Requests \X Nat)]
<1>1. Append(body[r], p) \in Seq(Requests \X Nat)
  BY AppendProperties DEF TypeOK
<1> QED BY <1>1 DEF TypeOK, Send, Status

(* Each step of a request keeps the types. *)
LEMMA TypesStep ==
  ASSUME TypeOK, Progress, AllCached, NEW r \in Requests, Moves(r)
  PROVE  TypeOK'
<1> USE DEF TypeOK, Places, Goto, handler
<1>1. CASE Lock(r) \/ \E u \in Uris : Arrive(r, u)
  <2>1. CASE Lock(r)
    BY <2>1 DEF Lock
  <2>2. ASSUME NEW u \in Uris, Arrive(r, u)
        PROVE  TypeOK'
    BY <2>2 DEF Arrive
  <2> QED BY <1>1, <2>1, <2>2
<1>2. CASE SiteGet(r) \/ Get(r)
  <2>1. uri[r] \in Uris
    BY <1>2 DEF SiteGet, Get, Progress, ProgressOf, PlaceOf
  <2>2. found' \in [Requests -> Pages \cup {None, Lost}]
    <3>1. store[uri[r]] \in Pages \cup {None}
      BY <2>1
    <3>2. \E x \in Pages \cup {None, Lost} : found' = [found EXCEPT ![r] = x]
      BY <1>2, <3>1 DEF SiteGet, Get, Lookup, LookupFails
    <3> QED BY <3>2
  <2>3. \E p \in Places : pc' = [pc EXCEPT ![r] = p]
    BY <1>2 DEF SiteGet, Get, Places
  <2>4. UNCHANGED <<store, buf, mutex, uri, handler, using, sent, body>>
    BY <1>2 DEF SiteGet, Get, Lookup, LookupFails
  <2> QED BY <2>2, <2>3, <2>4 DEF Places
<1>3. CASE SiteServe(r) \/ ServeCached(r)
  <2>1. Page(found[r])
    BY <1>3 DEF SiteServe, ServeCached, Progress, ProgressOf, PlaceOf
  <2>2. found[r] \in Pages /\ Bytes(found[r].data) \in Requests \X Nat
    BY <2>1 DEF AllCached, Cached, Page
  <2>3. found[r].status \in Nat /\ found[r].okay \in BOOLEAN
    BY <2>2 DEF Pages
  <2>4. Send(r, found[r].status, Bytes(found[r].data))
    BY <1>3 DEF SiteServe, ServeCached, Serve
  <2>5. sent' \in [Requests -> Nat] /\ body' \in [Requests -> Seq(Requests \X Nat)]
    BY <2>2, <2>3, <2>4, SendTypes
  <2> QED BY <1>3, <2>3, <2>5 DEF SiteServe, ServeCached, Serve
<1>4. CASE Handle(r) \/ HandlerPanics(r) \/ SetPanics(r) \/ End(r)
  <2>1. CASE Handle(r)
    BY <2>1 DEF Handle
  <2>2. CASE HandlerPanics(r)
    BY <2>2 DEF HandlerPanics
  <2>3. CASE SetPanics(r)
    BY <2>3 DEF SetPanics
  <2>4. CASE End(r)
    BY <2>4 DEF End
  <2> QED BY <1>4, <2>1, <2>2, <2>3, <2>4
<1>5. CASE Write(r)
  <2>1. Send(r, Code[r], <<r, piece[r] + 1>>)
    BY <1>5 DEF Write
  <2>2. sent' \in [Requests -> Nat] /\ body' \in [Requests -> Seq(Requests \X Nat)]
    <3>1. Code[r] \in Nat /\ <<r, piece[r] + 1>> \in Requests \X Nat
      BY RouteAssumption
    <3> HIDE DEF TypeOK
    <3> QED BY <2>1, <3>1, SendTypes
  <2>3. /\ buf' \in [Buffers -> (Requests \X Nat) \cup {None}]
        /\ using' \in [Requests -> Buffers \cup {None}]
    <3>1. CASE UNCHANGED <<buf, using>>
      BY <3>1
    <3>2. ASSUME NEW b \in Buffers,
                 buf' = [buf EXCEPT ![b] = <<r, piece[r] + 1>>],
                 using' = [using EXCEPT ![r] = b]
          PROVE  /\ buf' \in [Buffers -> (Requests \X Nat) \cup {None}]
                 /\ using' \in [Requests -> Buffers \cup {None}]
      BY <3>2
    <3> QED BY <1>5, <3>1, <3>2 DEF Write, Free
  <2>4. /\ piece' \in [Requests -> Nat] /\ pc' = [pc EXCEPT ![r] = "set"]
        /\ UNCHANGED <<store, mutex, uri, found, okay>>
    BY <1>5 DEF Write
  <2> QED BY <2>2, <2>3, <2>4
<1>6. CASE SetPage(r)
  <2>1. uri[r] \in Uris
    BY <1>6 DEF SetPage, Progress, ProgressOf, PlaceOf
  <2>2. Response(r) \in Pages
    <3>1. CachedStatus(r) \in Nat
      BY RouteAssumption DEF CachedStatus
    <3> QED BY <3>1 DEF Response, Pages
  <2> QED BY <1>6, <2>1, <2>2 DEF SetPage, Written
<1>7. CASE SetIgnored(r)
  BY <1>7 DEF SetIgnored, Written
<1> QED BY <1>1, <1>2, <1>3, <1>4, <1>5, <1>6, <1>7 DEF Moves, Run

(* Nobody comes inside while another request has the mutex. *)
LEMMA ExclusionStep ==
  ASSUME TypeOK, Progress, Exclusion, NEW r \in Requests, Moves(r)
  PROVE  Exclusion'
<1> SUFFICES ASSUME NEW q \in Requests, pc'[q] \in Inside, uri'[q] \in Atomic
             PROVE  mutex' = q
  BY DEF Exclusion
<1>1. CASE q # r
  <2>1. mutex = q /\ q # None
    BY <1>1, OthersStay, RouteAssumption DEF Exclusion
  <2>2. mutex' = mutex
    BY <1>1, <2>1
    DEF Moves, Run, Lock, Arrive, SiteGet, Get, Lookup, LookupFails, SiteServe, ServeCached,
        Serve, Handle, Write, SetPage, SetIgnored, Written, SetPanics, HandlerPanics, End,
        Exclusion
  <2> QED BY <2>1, <2>2
<1>2. CASE q = r
  <2>1. CASE Lock(r)
    BY <1>2, <2>1 DEF Lock
  <2>2. CASE ~Lock(r)
    <3>1. pc[r] \in Inside /\ uri'[r] = uri[r] /\ mutex' = mutex
      BY <1>2, <2>2
      DEF Moves, Run, Arrive, SiteGet, Get, Lookup, LookupFails, SiteServe, ServeCached,
          Serve, Handle, Write, SetPage, SetIgnored, Written, SetPanics, HandlerPanics, End,
          Goto, Inside, TypeOK
    <3> QED BY <1>2, <3>1 DEF Exclusion
  <2> QED BY <2>1, <2>2
<1> QED BY <1>1, <1>2

(* What is known of a request at its place is so after a step of any. *)
LEMMA ProgressStep ==
  ASSUME TypeOK, Progress, NEW r \in Requests, Moves(r)
  PROVE  Progress'
<1>1. ASSUME NEW q \in Requests, q # r
      PROVE  ProgressOf(q)'
  <2>1. PlaceOf(q) /\ AnswerOf(q)
    BY DEF Progress, ProgressOf
  <2>2. PlaceOf(q)'
    BY <1>1, <2>1, OthersStay DEF PlaceOf, Page
  <2>3. AnswerOf(q)'
    BY <1>1, <2>1, OthersStay DEF AnswerOf, Whole
  <2> QED BY <2>2, <2>3 DEF ProgressOf
<1>2. /\ PlaceOf(r) /\ AnswerOf(r)
      /\ DOMAIN pc = Requests /\ DOMAIN uri = Requests /\ DOMAIN found = Requests
      /\ DOMAIN piece = Requests /\ DOMAIN sent = Requests /\ DOMAIN body = Requests
      /\ piece[r] \in Nat
  BY DEF Progress, ProgressOf, TypeOK
<1>3. PlaceOf(r)' /\ AnswerOf(r)'
  <2> USE DEF Goto, handler, Silent
  <2>1. CASE Lock(r)
    BY <1>2, <2>1 DEF Lock, PlaceOf, AnswerOf
  <2>2. ASSUME NEW u \in Uris, Arrive(r, u)
        PROVE  PlaceOf(r)' /\ AnswerOf(r)'
    BY <1>2, <2>2 DEF Arrive, PlaceOf, AnswerOf
  <2>3. CASE SiteGet(r)
    <3>1. PlaceOf(r)'
      BY <1>2, <2>3 DEF SiteGet, Lookup, LookupFails, PlaceOf, Page
    <3>2. AnswerOf(r)'
      BY <1>2, <2>3 DEF SiteGet, Lookup, LookupFails, AnswerOf
    <3> QED BY <3>1, <3>2
  <2>4. CASE Get(r)
    <3>1. PlaceOf(r)'
      BY <1>2, <2>4 DEF Get, Lookup, LookupFails, PlaceOf, Page
    <3>2. AnswerOf(r)'
      BY <1>2, <2>4 DEF Get, Lookup, LookupFails, AnswerOf
    <3> QED BY <3>1, <3>2
  <2>5. CASE SiteServe(r)
    <3>1. /\ pc[r] = "siteServe" /\ pc'[r] = "route"
          /\ UNCHANGED <<uri, piece>>
      BY <1>2, <2>5 DEF SiteServe, Serve
    <3>2. PlaceOf(r)' /\ r \in ViaSite
      BY <1>2, <3>1 DEF PlaceOf
    <3> QED BY <3>2 DEF AnswerOf
  <2>6. CASE ServeCached(r)
    <3>1. /\ pc[r] = "serve" /\ pc'[r] = "end"
          /\ UNCHANGED <<uri, piece>>
      BY <1>2, <2>6 DEF ServeCached, Serve
    <3>2. PlaceOf(r)' /\ piece'[r] = 0
      BY <1>2, <3>1 DEF PlaceOf
    <3> QED BY <3>1, <3>2 DEF AnswerOf
  <2>7. CASE Handle(r)
    <3>1. /\ pc[r] = "handle" /\ pc'[r] = "write"
          /\ UNCHANGED <<uri, piece, body>>
      BY <1>2, <2>7 DEF Handle
    <3>2. piece[r] = 0 /\ uri[r] \in Uris
      BY <1>2, <3>1 DEF PlaceOf
    <3>3. Pieces[uri[r]] \in Nat /\ 0 < Pieces[uri[r]]
      BY <3>2, RouteAssumption
    <3>4. PlaceOf(r)'
      BY <3>1, <3>2, <3>3 DEF PlaceOf
    <3>5. r \notin ViaSite => body'[r] = Whole(r, 0)
      BY <1>2, <3>1, WholeAppend DEF AnswerOf
    <3> QED BY <3>1, <3>2, <3>4, <3>5 DEF AnswerOf
  <2>8. CASE Write(r)
    <3>1. /\ piece'[r] = piece[r] + 1 /\ pc[r] = "write"
          /\ pc'[r] = "set" /\ uri' = uri
          /\ body'[r] = Append(body[r], <<r, piece[r] + 1>>)
      BY <1>2, <2>8 DEF Write, Send
    <3>2. piece[r] < Pieces[uri[r]] /\ uri[r] \in Uris /\ Pieces[uri[r]] \in Nat
      BY <1>2, <3>1, RouteAssumption DEF PlaceOf
    <3>3. PlaceOf(r)'
      <4>1. piece'[r] > 0 /\ piece'[r] <= Pieces[uri[r]]
        BY <1>2, <3>1, <3>2
      <4> QED BY <3>1, <3>2, <4>1 DEF PlaceOf
    <3>4. r \notin ViaSite => body'[r] = Whole(r, piece'[r])
      <4>1. r \notin ViaSite => body[r] = Whole(r, piece[r])
        BY <1>2, <3>1 DEF AnswerOf
      <4>2. Append(Whole(r, piece[r]), <<r, piece[r] + 1>>) = Whole(r, piece[r] + 1)
        BY <1>2, WholeAppend
      <4> QED BY <3>1, <4>1, <4>2, Zenon
    <3> QED BY <3>1, <3>3, <3>4 DEF AnswerOf
  <2>9. CASE SetPage(r) \/ SetIgnored(r)
    <3>1. /\ pc[r] = "set" /\ UNCHANGED <<uri, piece, body>>
          /\ pc'[r] = IF piece[r] < Pieces[uri[r]] THEN "write" ELSE "end"
      BY <1>2, <2>9 DEF SetPage, SetIgnored, Written
    <3>2. /\ piece[r] > 0 /\ piece[r] <= Pieces[uri[r]] /\ uri[r] \in Uris
          /\ Pieces[uri[r]] \in Nat
      BY <1>2, <3>1, RouteAssumption DEF PlaceOf
    <3>3. \/ pc'[r] = "write" /\ piece[r] < Pieces[uri[r]]
          \/ pc'[r] = "end" /\ piece[r] = Pieces[uri[r]]
      BY <1>2, <3>1, <3>2
    <3>4. PlaceOf(r)'
      BY <3>1, <3>2, <3>3 DEF PlaceOf
    <3> QED BY <1>2, <3>1, <3>3, <3>4 DEF AnswerOf
  <2>10. CASE SetPanics(r) \/ HandlerPanics(r)
    <3>1. /\ pc[r] \in {"set", "write"} /\ pc'[r] = "panicked"
          /\ UNCHANGED uri
      BY <1>2, <2>10 DEF SetPanics, HandlerPanics
    <3>2. PlaceOf(r)'
      BY <1>2, <3>1 DEF PlaceOf
    <3> QED BY <3>1, <3>2 DEF AnswerOf
  <2>11. CASE End(r)
    <3>1. /\ UNCHANGED <<uri, piece, body>>
          /\ \/ pc[r] = "end" /\ pc'[r] = "done"
             \/ pc[r] = "panicked" /\ pc'[r] = "failed"
      BY <1>2, <2>11 DEF End
    <3>2. PlaceOf(r)'
      BY <1>2, <3>1 DEF PlaceOf
    <3> QED BY <1>2, <3>1, <3>2 DEF AnswerOf
  <2> QED BY <2>1, <2>2, <2>3, <2>4, <2>5, <2>6, <2>7, <2>8, <2>9, <2>10, <2>11
          DEF Moves, Run
<1> QED BY <1>1, <1>3 DEF Progress, ProgressOf

(* The pages in the store and those that were found are still of the cache *)
(* after a step, and so is one that the step stores.                       *)
LEMMA CachedStep ==
  ASSUME TypeOK, TypeOK', Progress, AllCached, NEW r \in Requests, Moves(r)
  PROVE  AllCached'
<1>1. \A q \in Requests : using'[q] # None => buf'[using'[q]] \in Requests \X Nat
  <2> SUFFICES ASSUME NEW q \in Requests, using'[q] # None
               PROVE  buf'[using'[q]] \in Requests \X Nat
    OBVIOUS
  <2>1. CASE using'[q] = using[q]
    <3>1. using[q] \in Buffers /\ buf[using[q]] \in Requests \X Nat
      BY <2>1 DEF AllCached, TypeOK
    <3> QED BY <2>1, <3>1, BuffersFilled
  <2>2. CASE using'[q] # using[q]
    <3>1. q = r
      BY <2>2, OthersStay
    <3>2. Write(r)
      BY <2>2, <3>1
      DEF Moves, Run, Lock, Arrive, SiteGet, Get, Lookup, LookupFails, SiteServe,
          ServeCached, Serve, Handle, SetPage, SetIgnored, Written, SetPanics,
          HandlerPanics, End, TypeOK
    <3>3. PICK b \in Buffers : /\ buf' = [buf EXCEPT ![b] = <<r, piece[r] + 1>>]
                               /\ using' = [using EXCEPT ![r] = b]
      BY <2>2, <3>2 DEF Write, Free
    <3>4. using'[r] = b /\ buf'[b] = <<r, piece[r] + 1>>
      BY <3>3 DEF TypeOK
    <3>5. piece[r] \in Nat
      BY DEF TypeOK
    <3> QED BY <3>1, <3>4, <3>5
  <2> QED BY <2>1, <2>2
<1>2. ~ByReference => \A q \in Requests : using'[q] = None
  <2> SUFFICES ASSUME ~ByReference, NEW q \in Requests
               PROVE  using'[q] = None
    OBVIOUS
  <2>1. \A p \in Requests : using[p] = None
    BY DEF AllCached
  <2>2. CASE q # r
    BY <2>1, <2>2, OthersStay
  <2>3. CASE q = r
    BY <2>1, <2>3
    DEF Moves, Run, Lock, Arrive, SiteGet, Get, Lookup, LookupFails, SiteServe,
        ServeCached, Serve, Handle, Write, SetPage, SetIgnored, Written, SetPanics,
        HandlerPanics, End, TypeOK
  <2> QED BY <2>2, <2>3
<1>3. ASSUME NEW u \in Uris, NEW x, x = store'[u], x # None
      PROVE  Cached(x, u)'
  <2>1. x \in Pages
    BY <1>3 DEF TypeOK
  <2>2. CASE x = store[u]
    BY <1>3, <2>1, <2>2, CachedStays DEF AllCached
  <2>3. CASE x # store[u]
    <3>1. SetPage(r)
      BY <1>3, <2>3
      DEF Moves, Run, Lock, Arrive, SiteGet, Get, Lookup, LookupFails, SiteServe,
          ServeCached, Serve, Handle, Write, SetIgnored, Written, SetPanics,
          HandlerPanics, End
    <3>2. u = uri[r] /\ x = Response(r)
      BY <1>3, <2>3, <3>1 DEF SetPage, TypeOK
    <3>3. /\ x.by = r /\ x.status = CachedStatus(r) /\ x.okay = okay[r]
          /\ x.data = IF using[r] # None THEN using[r] ELSE <<r, piece[r]>>
      BY <3>2 DEF Response
    <3>4. /\ UNCHANGED <<buf, uri, okay, piece>>
          /\ pc'[r] \in Past
      BY <3>1 DEF SetPage, Written, Goto, TypeOK, Past, handler
    <3>5. piece[r] \in Nat /\ piece[r] > 0
      BY <3>1 DEF SetPage, Progress, ProgressOf, PlaceOf, TypeOK
    <3>6. Bytes(x.data)' \in Requests \X Nat
      <4>1. CASE using[r] # None
        <5>1. using[r] \in Buffers /\ buf[using[r]] \in Requests \X Nat
          BY <4>1 DEF AllCached, TypeOK
        <5> QED BY <3>3, <3>4, <4>1, <5>1 DEF Bytes
      <4>2. CASE using[r] = None
        <5>1. <<r, piece[r]>> \in Requests \X Nat
          BY <3>5
        <5>2. x.data = <<r, piece[r]>>
          BY <3>3, <4>2
        <5>3. x.data \notin Buffers
          BY <5>1, <5>2, RouteAssumption
        <5> QED BY <5>1, <5>2, <5>3 DEF Bytes
      <4> QED BY <4>1, <4>2
    <3>7. ~ByReference => \E i \in 1..piece'[r] : x.data = <<r, i>>
      <4> SUFFICES ASSUME ~ByReference
                   PROVE  x.data = <<r, piece[r]>> /\ piece[r] \in 1..piece'[r]
        OBVIOUS
      <4>1. using[r] = None
        BY DEF AllCached
      <4>2. x.data = <<r, piece[r]>>
        BY <3>3, <4>1
      <4>3. piece'[r] = piece[r]
        BY <3>4
      <4> QED BY <3>5, <4>2, <4>3
    <3> QED BY <3>2, <3>3, <3>4, <3>5, <3>6, <3>7 DEF Cached
  <2> QED BY <2>2, <2>3
<1>4. ASSUME NEW q \in Requests, NEW x, x = found'[q], Page(x), NEW u, u = uri'[q]
      PROVE  Cached(x, u)'
  <2>1. x \in Pages
    BY <1>4 DEF TypeOK, Page
  <2>2. CASE x = found[q]
    <3>1. pc[q] # "new"
      BY <1>4, <2>2 DEF Progress, ProgressOf, PlaceOf, Page
    <3>2. uri'[q] = uri[q]
      BY <3>1, Forward, OthersStay
    <3>3. Cached(x, u)
      BY <1>4, <2>2, <3>2 DEF AllCached
    <3> QED BY <2>1, <3>3, CachedStays
  <2>3. CASE x # found[q]
    <3>1. q = r
      BY <1>4, <2>3, OthersStay
    <3>2. SiteGet(r) \/ Get(r)
      BY <1>4, <2>3, <3>1
      DEF Moves, Run, Lock, Arrive, SiteServe, ServeCached, Serve, Handle, Write, SetPage,
          SetIgnored, Written, SetPanics, HandlerPanics, End, TypeOK, Page
    <3>3. x = store[u] /\ u \in Uris
      <4>1. uri'[r] = uri[r] /\ found'[r] \in {store[uri[r]], Lost} /\ pc[r] # "new"
        BY <3>2 DEF SiteGet, Get, Lookup, LookupFails, TypeOK
      <4>2. uri[r] \in Uris
        BY <4>1 DEF Progress, ProgressOf, PlaceOf
      <4> QED BY <1>4, <3>1, <4>1, <4>2 DEF Page
    <3>4. Cached(x, u)
      BY <1>4, <3>3 DEF AllCached, Page
    <3> QED BY <2>1, <3>4, CachedStays
  <2> QED BY <2>2, <2>3
<1>5. ASSUME NEW u \in Uris, store'[u] # None
      PROVE  Cached(store[u], u)'
  <2>1. PICK x : x = store'[u]
    OBVIOUS
  <2>2. Cached(x, u)'
    BY <1>5, <1>3, <2>1
  <2> QED BY <2>1, <2>2 DEF Cached
<1>6. ASSUME NEW q \in Requests, Page(found'[q])
      PROVE  Cached(found[q], uri[q])'
  <2>1. PICK x, u : x = found'[q] /\ u = uri'[q]
    OBVIOUS
  <2>2. Cached(x, u)'
    BY <1>6, <1>4, <2>1
  <2> QED BY <2>1, <2>2 DEF Cached
<1> QED BY <1>1, <1>2, <1>5, <1>6 DEF AllCached, Page

(* CachePageAtomic's mutex keeps a page in the making from being found. *)
LEMMA HalfMadeStep ==
  ASSUME TypeOK, TypeOK', Progress, Exclusion, AllCached, NoHalfMadePage,
         NEW r \in Requests, Moves(r)
  PROVE  NoHalfMadePage'
<1> SUFFICES ASSUME NEW q \in Requests, pc'[q] = "serve", uri'[q] \in Atomic
             PROVE  pc'[found'[q].by] \in {"done", "failed"}
  BY DEF NoHalfMadePage
<1>1. ASSUME NEW p \in Requests, pc[p] \in {"done", "failed"}
      PROVE  pc'[p] \in {"done", "failed"}
  <2>1. p # r
    BY <1>1
    DEF Moves, Run, Lock, Arrive, SiteGet, Get, SiteServe, ServeCached, Handle, Write,
        SetPage, SetIgnored, SetPanics, HandlerPanics, End
  <2> QED BY <1>1, <2>1, OthersStay
<1>2. CASE q # r
  <2>1. pc[q] = "serve" /\ uri[q] \in Atomic /\ found'[q] = found[q]
    BY <1>2, OthersStay
  <2>2. found[q].by \in Requests
    BY <2>1 DEF Progress, ProgressOf, PlaceOf, TypeOK, Pages, Page
  <2> QED BY <1>1, <2>1, <2>2 DEF NoHalfMadePage
<1>3. CASE q = r
  <2>1. Get(r)
    BY <1>3
    DEF Moves, Run, Lock, Arrive, SiteGet, SiteServe, ServeCached, Serve, Handle, Write,
        SetPage, SetIgnored, Written, SetPanics, HandlerPanics, End, Goto, TypeOK
  <2>2. /\ pc[r] = "get" /\ uri[r] \in Atomic /\ uri[r] \in Uris
        /\ Page(found'[r]) /\ found'[r] \in {store[uri[r]], Lost}
    BY <1>3, <2>1 DEF Get, Lookup, LookupFails, Goto, TypeOK, Progress, ProgressOf, PlaceOf
  <2> DEFINE p == store[uri[r]].by
  <2>3. /\ found'[r] = store[uri[r]] /\ store[uri[r]] # None
        /\ store[uri[r]] \in Pages
    BY <2>2 DEF Page, TypeOK
  <2>4. p \in Requests /\ uri[p] = uri[r] /\ pc[p] \in Past
    BY <2>2, <2>3 DEF AllCached, Cached, Pages
  <2>5. pc[p] \notin Inside
    BY <2>2, <2>4 DEF Exclusion, Inside, Past
  <2>6. pc[p] \in {"done", "failed"}
    BY <2>4, <2>5 DEF Inside, Past
  <2> QED BY <1>1, <1>3, <2>3, <2>4, <2>6
<1> QED BY <1>2, <1>3

(* It keeps a page from being stored between the lookup and the handler of *)
(* another request.                                                        *)
LEMMA StampedeStep ==
  ASSUME TypeOK, Progress, Exclusion, NoStampede, NEW r \in Requests, Moves(r)
  PROVE  NoStampede'
<1> SUFFICES ASSUME NEW q \in Requests, pc'[q] = "handle", uri'[q] \in Atomic
             PROVE  \/ found'[q] = Lost
                    \/ store'[uri'[q]] = None
                    \/ ~store'[uri'[q]].okay
  BY DEF NoStampede
<1>1. CASE q # r
  <2>1. pc[q] = "handle" /\ uri'[q] = uri[q] /\ uri[q] \in Atomic /\ found'[q] = found[q]
    BY <1>1, OthersStay
  <2>2. store'[uri[q]] = store[uri[q]]
    <3>1. CASE SetPage(r)
      <4>1. uri[r] # uri[q]
        BY <1>1, <2>1, <3>1 DEF SetPage, Exclusion, Inside
      <4> QED BY <3>1, <4>1, <2>1 DEF SetPage, TypeOK, Progress, ProgressOf, PlaceOf
    <3>2. CASE ~SetPage(r)
      BY <3>2
      DEF Moves, Run, Lock, Arrive, SiteGet, Get, Lookup, LookupFails, SiteServe,
          ServeCached, Serve, Handle, Write, SetIgnored, Written, SetPanics,
          HandlerPanics, End
    <3> QED BY <3>1, <3>2
  <2> QED BY <2>1, <2>2 DEF NoStampede
<1>2. CASE q = r
  <2>1. Get(r)
    BY <1>2
    DEF Moves, Run, Lock, Arrive, SiteGet, SiteServe, ServeCached, Serve, Handle, Write,
        SetPage, SetIgnored, Written, SetPanics, HandlerPanics, End, Goto, TypeOK
  <2> QED BY <1>2, <2>1 DEF Get, Lookup, LookupFails, Goto, Page, TypeOK
<1> QED BY <1>1, <1>2

(* An answer from the cache stays what one run wrote, and one that is      *)
(* given now comes from a page that is.                                    *)
LEMMA ReplaysStep ==
  ASSUME TypeOK, Progress, AllCached, ~ByReference, HitReplaysOneRun,
         NEW r \in Requests, Moves(r)
  PROVE  HitReplaysOneRun'
<1> SUFFICES ASSUME NEW q \in Requests, q \notin ViaSite, FromCache(q)'
             PROVE  \E p \in Requests : Replays(q, p)'
  BY DEF HitReplaysOneRun
<1>1. ASSUME NEW p \in Requests
      PROVE  /\ pc[p] # "new" => uri'[p] = uri[p]
             /\ okay[p] => okay'[p]
             /\ piece[p] \in Nat /\ piece'[p] \in Nat /\ piece[p] <= piece'[p]
  <2>1. CASE p = r
    BY <2>1, Forward
  <2>2. CASE p # r
    <3>1. piece[p] \in Nat
      BY DEF TypeOK
    <3> QED BY <2>2, <3>1, OthersStay
  <2> QED BY <2>1, <2>2
<1>2. CASE FromCache(q) /\ sent'[q] = sent[q] /\ body'[q] = body[q]
  <2>1. PICK p \in Requests : Replays(q, p)
    BY <1>2 DEF HitReplaysOneRun
  <2>2. PICK i \in 1..piece[p] : body[q] = <<<<p, i>>>>
    BY <2>1 DEF Replays
  <2>3. i \in 1..piece'[p] /\ piece[p] # 0
    <3>1. piece[p] \in Nat /\ piece'[p] \in Nat /\ piece[p] <= piece'[p]
      BY <1>1
    <3> QED BY <3>1
  <2>4. pc[p] # "new" /\ pc[q] # "new"
    <3>1. pc[q] # "new"
      BY <1>2 DEF FromCache
    <3>2. ProgressOf(p)
      BY DEF Progress
    <3> QED BY <2>3, <3>1, <3>2 DEF ProgressOf, PlaceOf, Silent
  <2>5. uri'[p] = uri'[q] /\ okay'[p] /\ sent'[q] = Status(CachedStatus(p))
    BY <1>1, <1>2, <2>1, <2>4 DEF Replays
  <2> QED BY <1>2, <2>2, <2>3, <2>5 DEF Replays
<1>3. CASE ServeCached(r) /\ q = r
  <2> DEFINE x == found[q]
             p == x.by
  <2>1. /\ pc[q] = "serve" /\ Page(x) /\ x.okay /\ body[q] = <<>> /\ sent[q] = 0
    <3>0. PlaceOf(q) /\ AnswerOf(q)
      BY DEF Progress, ProgressOf
    <3>1. pc[q] = "serve"
      BY <1>3 DEF ServeCached
    <3>2. Page(x) /\ x.okay
      BY <3>0, <3>1 DEF PlaceOf
    <3> QED BY <3>0, <3>1, <3>2 DEF AnswerOf, Silent
  <2>2. x \in Pages /\ p \in Requests /\ x.data \notin Buffers /\ Cached(x, uri[q])
    <3>1. x \in Pages /\ Cached(x, uri[q])
      BY <2>1 DEF Page, AllCached, TypeOK
    <3>2. p \in Requests
      BY <3>1 DEF Pages
    <3>3. PICK i \in 1..piece[p] : x.data = <<p, i>>
      BY <3>1 DEF Cached
    <3>4. <<p, i>> \in Requests \X Nat
      BY <1>1, <3>2, <3>3
    <3> QED BY <3>1, <3>2, <3>3, <3>4, RouteAssumption
  <2>3. PICK i \in 1..piece[p] : x.data = <<p, i>>
    BY <2>2 DEF Cached
  <2>4. uri[p] = uri[q] /\ okay[p] /\ x.status = CachedStatus(p) /\ pc[p] # "new"
    BY <2>1, <2>2 DEF Cached, Past
  <2>5. body'[q] = Append(<<>>, <<p, i>>) /\ sent'[q] = Status(CachedStatus(p))
    BY <1>3, <2>1, <2>2, <2>3, <2>4 DEF ServeCached, Serve, Send, Bytes, TypeOK
  <2>6. body'[q] = <<<<p, i>>>>
    BY <2>5
  <2>7. i \in 1..piece'[p] /\ uri'[p] = uri'[q] /\ okay'[p]
    <3> HIDE DEF x, p
    <3>1. /\ piece[p] \in Nat /\ piece'[p] \in Nat /\ piece[p] <= piece'[p]
          /\ uri'[p] = uri[p] /\ okay'[p]
      BY <1>1, <2>2, <2>4
    <3>2. uri'[q] = uri[q]
      BY <1>1, <2>1
    <3>3. i \in 1..piece[p]
      BY <2>3
    <3>4. i \in 1..piece'[p]
      BY <3>1, <3>3
    <3> QED BY <2>4, <3>1, <3>2, <3>4
  <2> QED BY <2>2, <2>5, <2>6, <2>7 DEF Replays
<1>4. \/ FromCache(q) /\ sent'[q] = sent[q] /\ body'[q] = body[q]
      \/ ServeCached(r) /\ q = r
  <2>1. CASE q # r
    BY <2>1, OthersStay DEF FromCache
  <2>2. CASE q = r /\ (SetPage(r) \/ SetIgnored(r))
    <3>1. pc[r] = "set" /\ piece' = piece
      BY <2>2 DEF SetPage, SetIgnored, Written, handler
    <3>2. ProgressOf(r) /\ piece[r] \in Nat
      BY DEF Progress, TypeOK
    <3>3. piece[r] \in Nat /\ piece[r] > 0
      BY <3>1, <3>2 DEF ProgressOf, PlaceOf
    <3>4. piece[r] # 0
      BY <3>3
    <3>5. piece'[r] # 0
      BY <3>1, <3>4
    <3> QED BY <2>2, <3>5 DEF FromCache
  <2>3. CASE q = r /\ End(r)
    BY <2>3 DEF End, Goto, TypeOK, FromCache, handler
  <2>4. CASE q = r /\ ServeCached(r)
    BY <2>4
  <2>5. CASE q = r /\ ~(SetPage(r) \/ SetIgnored(r) \/ End(r) \/ ServeCached(r))
    <3>1. pc'[r] \notin {"end", "done"}
      BY <2>5
      DEF Moves, Run, Lock, Arrive, SiteGet, Get, SiteServe, Serve, Handle, Write, SetPanics,
          HandlerPanics, Goto, TypeOK
    <3> QED BY <2>5, <3>1 DEF FromCache
  <2> QED BY <2>1, <2>2, <2>3, <2>4, <2>5
<1> QED BY <1>2, <1>3, <1>4

-----------------------------------------------------------------------------
(* The invariant *)

(* The invariant holds before the first request. *)
LEMMA InitHolds == Init => IndInv
<1> SUFFICES ASSUME Init PROVE IndInv
  OBVIOUS
<1> USE DEF Init
<1>1. TypeOK
  BY EmptySeq DEF TypeOK, Places
<1>2. Exclusion /\ Progress
  <2>1. Exclusion
    BY DEF Exclusion, Inside
  <2>2. ASSUME NEW r \in Requests
        PROVE  PlaceOf(r) /\ AnswerOf(r)
    BY DEF PlaceOf, AnswerOf, Silent
  <2> QED BY <2>1, <2>2 DEF Progress, ProgressOf
<1>3. AllCached
  BY DEF AllCached, Page
<1> QED BY <1>1, <1>2, <1>3
        DEF IndInv, NoHalfMadePage, NoStampede, HitReplaysOneRun, FromCache

(* While only pages go from the store, all pages stay of the cache. *)
LEMMA CachedSame ==
  ASSUME AllCached, UNCHANGED <<buf, pc, uri, found, okay, piece, using>>,
         \A u \in Uris : store'[u] \in {store[u], None}
  PROVE  AllCached'
<1>1. ASSUME NEW x, NEW u, Cached(x, u)
      PROVE  Cached(x, u)'
  BY <1>1 DEF Cached, Bytes
<1>2. ASSUME NEW u \in Uris, NEW x, x = store'[u], x # None
      PROVE  Cached(x, u)'
  <2>1. Cached(x, u)
    BY <1>2 DEF AllCached
  <2> QED BY <1>1, <2>1
<1>3. ASSUME NEW q \in Requests, NEW x, x = found'[q], Page(x), NEW u, u = uri'[q]
      PROVE  Cached(x, u)'
  <2>1. Cached(x, u)
    BY <1>3 DEF AllCached
  <2> QED BY <1>1, <2>1
<1>4. ASSUME NEW u \in Uris, store'[u] # None
      PROVE  Cached(store[u], u)'
  <2>1. PICK x : x = store'[u]
    OBVIOUS
  <2>2. Cached(x, u)'
    BY <1>4, <1>2, <2>1
  <2> QED BY <2>1, <2>2 DEF Cached
<1>5. ASSUME NEW q \in Requests, Page(found'[q])
      PROVE  Cached(found[q], uri[q])'
  <2>1. PICK x, u : x = found'[q] /\ u = uri'[q]
    OBVIOUS
  <2>2. Cached(x, u)'
    BY <1>5, <1>3, <2>1
  <2> QED BY <2>1, <2>2 DEF Cached
<1> QED BY <1>4, <1>5 DEF AllCached, Page

(* Nothing else of the invariant is about the store or its buffers. *)
LEMMA OthersSame ==
  ASSUME UNCHANGED <<mutex, pc, uri, found, okay, piece, sent, body>>
  PROVE  /\ Exclusion => Exclusion'
         /\ Progress => Progress'
         /\ NoHalfMadePage => NoHalfMadePage'
         /\ HitReplaysOneRun => HitReplaysOneRun'
<1>1. Exclusion => Exclusion'
  BY DEF Exclusion
<1>2. ASSUME NEW r \in Requests, PlaceOf(r), AnswerOf(r)
      PROVE  PlaceOf(r)' /\ AnswerOf(r)'
  <2>1. PlaceOf(r)'
    BY <1>2 DEF PlaceOf
  <2>2. AnswerOf(r)'
    BY <1>2 DEF AnswerOf
  <2> QED BY <2>1, <2>2
<1>3. NoHalfMadePage => NoHalfMadePage'
  BY DEF NoHalfMadePage
<1>4. ASSUME NEW q \in Requests
      PROVE  FromCache(q)' => FromCache(q)
  BY DEF FromCache
<1>5. ASSUME NEW q \in Requests, NEW p \in Requests, Replays(q, p)
      PROVE  Replays(q, p)'
  BY <1>5 DEF Replays
<1>6. HitReplaysOneRun => HitReplaysOneRun'
  BY <1>4, <1>5 DEF HitReplaysOneRun
<1> QED BY <1>1, <1>2, <1>3, <1>6 DEF Progress, ProgressOf

(* A page that is forgotten is only a lookup that fails. *)
LEMMA ForgetPreserves ==
  ASSUME IndInv, NEW u \in Uris, Forget(u)
  PROVE  IndInv'
<1>1. /\ store' = [store EXCEPT ![u] = None]
      /\ UNCHANGED <<buf, mutex, pc, uri, found, okay, piece, using, sent, body>>
  BY DEF Forget, handler
<1>2. TypeOK'
  BY <1>1 DEF IndInv, TypeOK
<1>3. Exclusion' /\ Progress' /\ NoHalfMadePage'
  BY <1>1, OthersSame DEF IndInv
<1>4. AllCached'
  <2>1. AllCached /\ \A v \in Uris : store'[v] \in {store[v], None}
    BY <1>1 DEF IndInv, TypeOK
  <2> QED BY <1>1, <2>1, CachedSame
<1>5. NoStampede'
  <2>1. NoStampede /\ DOMAIN store = Uris
    BY DEF IndInv, TypeOK
  <2>2. ASSUME NEW v
        PROVE  store'[v] = store[v] \/ store'[v] = None
    BY <1>1, <2>1
  <2> QED BY <1>1, <2>1, <2>2 DEF NoStampede
<1>6. ~ByReference => HitReplaysOneRun'
  BY <1>1, OthersSame DEF IndInv
<1> QED BY <1>2, <1>3, <1>4, <1>5, <1>6 DEF IndInv

(* Every step preserves the inductive invariant. *)
LEMMA NextPreserves == IndInv /\ [Next]_vars => IndInv'
<1> SUFFICES ASSUME IndInv, [Next]_vars PROVE IndInv'
  OBVIOUS
<1>1. ASSUME NEW r \in Requests, Moves(r)
      PROVE  IndInv'
  <2>1. TypeOK /\ Exclusion /\ Progress /\ AllCached /\ NoHalfMadePage /\ NoStampede
    BY DEF IndInv
  <2>2. TypeOK'
    BY <1>1, <2>1, TypesStep
  <2>3. Exclusion' /\ Progress' /\ AllCached'
    BY <1>1, <2>1, <2>2, ExclusionStep, ProgressStep, CachedStep
  <2>4. NoHalfMadePage' /\ NoStampede'
    BY <1>1, <2>1, <2>2, HalfMadeStep, StampedeStep
  <2>5. ~ByReference => HitReplaysOneRun'
    BY <1>1, <2>1, ReplaysStep DEF IndInv
  <2> QED BY <2>2, <2>3, <2>4, <2>5 DEF IndInv
<1>2. CASE UNCHANGED vars
  <2>1. UNCHANGED <<store, buf, mutex, pc, uri, found, okay, piece, using, sent, body>>
    BY <1>2 DEF vars
  <2>2. TypeOK'
    BY <2>1 DEF IndInv, TypeOK
  <2>3. Exclusion' /\ Progress'
    BY <2>1, OthersSame DEF IndInv
  <2>4. AllCached'
    BY <2>1, CachedSame DEF IndInv
  <2>5. NoHalfMadePage' /\ NoStampede'
    BY <2>1 DEF IndInv, NoHalfMadePage, NoStampede
  <2>6. ~ByReference => HitReplaysOneRun'
    BY <2>1, OthersSame DEF IndInv
  <2> QED BY <2>2, <2>3, <2>4, <2>5, <2>6 DEF IndInv
<1> QED BY <1>1, <1>2, ForgetPreserves DEF Next, Moves

(* The inductive invariant holds. *)
THEOREM Invariance == Spec => []IndInv
BY InitHolds, NextPreserves, PTL DEF Spec

(* NoHalfMadePage: who finds a page under CachePageAtomic finds one whose  *)
(* handler has returned, for the handler has the mutex until then.         *)
THEOREM MutexHidesPage == Spec => []NoHalfMadePage
<1>1. IndInv => NoHalfMadePage
  BY DEF IndInv
<1> QED BY <1>1, Invariance, PTL

(* NoStampede: the mutex is also kept from the lookup to the handler.      *)
THEOREM MutexPreventsStampede == Spec => []NoStampede
<1>1. IndInv => NoStampede
  BY DEF IndInv
<1> QED BY <1>1, Invariance, PTL

(* HitReplaysOneRun, for a store that does not keep the slice: under       *)
(* CachePage and CachePageAtomic alike, an answer from the cache is what   *)
(* one run of the page's handler wrote in one call.                        *)
THEOREM HitsReplay ==
  ASSUME ~ByReference
  PROVE  Spec => []HitReplaysOneRun
<1>1. IndInv => HitReplaysOneRun
  BY DEF IndInv
<1> QED BY <1>1, Invariance, PTL

(* OwnAnswerWhole: whatever becomes of the store's calls, a handler that   *)
(* does not panic gives its own client all it wrote.                       *)
THEOREM AnswersWhole == Spec => []OwnAnswerWhole
<1>1. IndInv => OwnAnswerWhole
  <2> SUFFICES ASSUME IndInv, NEW r \in Requests, r \notin ViaSite, pc[r] = "done",
                      piece[r] > 0
               PROVE  body[r] = [i \in 1..Pieces[uri[r]] |-> <<r, i>>]
    BY DEF OwnAnswerWhole
  <2>1. PlaceOf(r) /\ AnswerOf(r) /\ piece[r] \in Nat
    BY DEF IndInv, Progress, ProgressOf, TypeOK
  <2>2. piece[r] # 0
    BY <2>1
  <2>3. piece[r] = Pieces[uri[r]]
    BY <2>1, <2>2 DEF PlaceOf
  <2>4. body[r] = Whole(r, piece[r])
    BY <2>1, <2>2 DEF AnswerOf
  <2> QED BY <2>3, <2>4 DEF Whole
<1> QED BY <1>1, Invariance, PTL
=============================================================================
