--------------------------- MODULE LinkServiceProofs ---------------------------
(****************************************************************************)
(* Proofs about LinkService, for any number of clients, codes and links and *)
(* any timeouts: the inductive invariant IInv, and from it the bounds on    *)
(* how long a removed or an expired link can still be redirected to.        *)
(****************************************************************************)
EXTENDS LinkService, SequenceTheorems, TLAPS

\* What a step that does not move the clock may do to the links: they keep code
\* and expiry, may be removed (now), may be joined by a new one.
StorageStep ==
  /\ Len(links') \in {Len(links), Len(links) + 1}
  /\ \A l \in LinkIds :
       /\ links'[l].code = links[l].code
       /\ links'[l].expires = links[l].expires
       /\ links'[l].gone # links[l].gone => links[l].gone = Never /\ links'[l].gone = now
  /\ \A c \in Codes : repo'[c] \in {0, repo[c], Len(links) + 1}

\* The part of IInv that is about the storage alone.
StorageOK ==
  /\ links \in Seq(Link)
  /\ repo \in [Codes -> Nat]
  /\ \A c \in Codes : RowOK(c)
  /\ TableIsTheStoredLinks
  /\ PurgedAfterAnExpiry

USE DEF LinkIds

LEMMA LinkFields ==
  ASSUME links \in Seq(Link), NEW l \in LinkIds
  PROVE  /\ links[l] \in Link
         /\ links[l].gone \in Nat \cup {Never}
         /\ links[l].expires \in Int \cup {Never}
<1>1. links[l] \in Link
  BY ElementOfSeq
<1> QED
  BY <1>1 DEF Link

LEMMA Constants ==
  /\ RequestTimeout \in Nat /\ RequestTimeout > 0
  /\ MaxCacheTtl \in Nat /\ MaxCacheTtl > 0
  /\ Second \in Nat /\ Second > 0
  /\ Never \notin Int
BY LinkServiceAssumption

\* Seconds and ticks: the only facts about them the proofs use.
LEMMA TickType == ASSUME NEW a \in Int PROVE Ticks(a) \in Int
BY Constants DEF Ticks

LEMMA TickDifference ==
  ASSUME NEW a \in Int, NEW b \in Int PROVE Ticks(a - b) = Ticks(a) - Ticks(b)
<1>1. Second * (a - b) = Second * a - Second * b
  BY Constants
<1> QED
  BY <1>1 DEF Ticks

LEMMA TickOrder ==
  ASSUME NEW a \in Int, NEW b \in Int
  PROVE  /\ a <= b => Ticks(a) <= Ticks(b)
         /\ a < b => Ticks(a) + Second <= Ticks(b)
<1>1. Second \in Nat /\ Second > 0
  BY Constants
<1>2. \A d \in Nat : Second * d >= 0 /\ (d > 0 => Second * d >= Second)
  BY <1>1
<1>3. /\ a <= b => Second * (b - a) >= 0
      /\ a < b => Second * (b - a) >= Second
  BY <1>2
<1>4. Second * (b - a) = Second * b - Second * a
  BY <1>1
<1>5. Second * a \in Int /\ Second * b \in Int
  BY <1>1
<1> QED
  BY <1>1, <1>3, <1>4, <1>5 DEF Ticks

\* now_unix lags behind the time by less than a second.
LEMMA WholeSeconds ==
  ASSUME NEW t \in Nat
  PROVE  NowUnix(t) \in Nat /\ Ticks(NowUnix(t)) <= t /\ t < Ticks(NowUnix(t)) + Second
<1>1. Second \in Nat /\ Second > 0
  BY Constants
<1>2. t \div Second \in Nat
  BY <1>1
<1>3. Second * (t \div Second) <= t /\ t < Second * (t \div Second) + Second
  BY <1>1
<1> QED
  BY <1>2, <1>3 DEF NowUnix, Ticks

\* Link::is_expired tells whether the expiry has been reached, on the tick.
LEMMA ExpiredOnTime ==
  ASSUME NEW l \in LinkIds, links[l].expires \in Int, NEW t \in Nat
  PROVE  IsExpired(l, t) <=> Ticks(links[l].expires) <= t
<1> DEFINE e == links[l].expires
           u == NowUnix(t)
<1>1. u \in Nat /\ Ticks(u) <= t /\ t < Ticks(u) + Second
  BY WholeSeconds
<1>2. IsExpired(l, t) <=> e <= u
  BY <1>1, Constants DEF IsExpired
<1>3. e \in Int /\ u \in Int /\ Second \in Nat
  BY <1>1, Constants
<1> HIDE DEF e, u
<1>4. Ticks(e) \in Int /\ Ticks(u) \in Int
  BY <1>3, TickType
<1>5. e <= u => Ticks(e) <= Ticks(u)
  BY <1>3, TickOrder
<1>6. u < e => Ticks(u) + Second <= Ticks(e)
  BY <1>3, TickOrder
<1>7. Ticks(e) <= t <=> e <= u
  BY <1>1, <1>3, <1>4, <1>5, <1>6
<1> QED
  BY <1>2, <1>7 DEF e

\* A lifetime of whole seconds, of at most MAX_CACHE_TTL_SECS of them.
LEMMA Lifetimes ==
  ASSUME NEW ttl \in 0..MaxCacheTtl
  PROVE  /\ Ticks(ttl) \in Nat /\ Ticks(MaxCacheTtl) \in Nat
         /\ Ticks(ttl) <= Ticks(MaxCacheTtl)
         /\ ttl > 0 => Ticks(ttl) > 0
<1>1. MaxCacheTtl \in Nat /\ ttl \in Nat /\ ttl <= MaxCacheTtl /\ Second \in Nat /\ Second > 0
  BY Constants
<1>2. Ticks(0) = 0
  BY <1>1 DEF Ticks
<1>3. Ticks(ttl) \in Int /\ Ticks(MaxCacheTtl) \in Int
  BY <1>1, TickType
<1>4. ttl <= MaxCacheTtl => Ticks(ttl) <= Ticks(MaxCacheTtl)
  BY <1>1, TickOrder
<1>5. /\ 0 <= ttl => Ticks(0) <= Ticks(ttl)
      /\ 0 < ttl => Ticks(0) + Second <= Ticks(ttl)
  BY <1>1, TickOrder
<1> QED
  BY <1>1, <1>2, <1>3, <1>4, <1>5

LEMMA Bounds ==
  /\ RequestTimeout \in Nat /\ RequestTimeout > 0
  /\ MaxCacheTtl \in Nat /\ MaxCacheTtl > 0
  /\ Ticks(MaxCacheTtl) \in Nat /\ Ticks(MaxCacheTtl) > 0
  /\ Second \in Nat /\ Second > 0
  /\ Never \notin Int
<1>1. 1 \in 0..MaxCacheTtl
  BY Constants
<1>2. Ticks(MaxCacheTtl) \in Nat /\ Ticks(1) <= Ticks(MaxCacheTtl) /\ Ticks(1) > 0 /\ Ticks(1) \in Nat
  BY <1>1, Lifetimes
<1> QED
  BY <1>2, Constants

------------------------------------------------------------------------------
\* The three things a step does to the storage.

\* Most steps leave it alone.
LEMMA SameStorage ==
  ASSUME IInv, UNCHANGED storage
  PROVE  StorageStep /\ StorageOK'
<1>1. Len(links') = Len(links) /\ links' = links /\ repo' = repo
  BY DEF storage
<1>2. StorageStep
  <2>1. Len(links) \in Nat
    BY LenProperties DEF IInv, TypeOK
  <2> QED
    BY <1>1, <2>1 DEF StorageStep
<1>3. StorageOK'
  BY <1>1 DEF StorageOK, IInv, TypeOK, RowOK, TableIsTheStoredLinks, PurgedAfterAnExpiry
<1> QED
  BY <1>2, <1>3

\* A DELETE removes at most the row of its code.  A purge needs a reason: a link
\* of the code, not younger than the one removed, that has expired.
LEMMA Removal ==
  ASSUME IInv, NEW c \in Codes, NEW how \in {"purge", "delete"}, Remove(c, how),
         how = "purge" /\ repo[c] # 0 =>
           \E m \in 1..repo[c] : /\ links[m].code = c
                                 /\ links[m].expires # Never
                                 /\ Ticks(links[m].expires) <= now
  PROVE  StorageStep /\ StorageOK'
<1>1. /\ links \in Seq(Link) /\ repo \in [Codes -> Nat] /\ now \in Nat
      /\ Len(links) \in Nat
  BY LenProperties DEF IInv, TypeOK
<1>2. CASE repo[c] = 0
  <2>1. links' = links /\ repo' = repo
    BY <1>1, <1>2 DEF Remove
  <2> QED
    BY <2>1, SameStorage DEF storage
<1>3. CASE repo[c] # 0
  <2> DEFINE row == repo[c]
             old == [links[row] EXCEPT !.gone = now, !.by = how]
  <2>1. /\ row \in LinkIds /\ links[row].code = c
        /\ \A d \in Codes : RowOK(d)
        /\ TableIsTheStoredLinks /\ PurgedAfterAnExpiry
    BY <1>3 DEF IInv, RowOK
  <2>2. links' = [links EXCEPT ![row] = old] /\ repo' = [repo EXCEPT ![c] = 0]
    BY <1>3 DEF Remove
  <2>3. /\ old \in Link /\ old.code = c /\ old.expires = links[row].expires
        /\ old.gone = now /\ old.by = how
    BY <1>1, <2>1, LinkFields DEF Link
  <2>4. /\ links' \in Seq(Link) /\ Len(links') = Len(links)
        /\ \A l \in LinkIds : links'[l] = IF l = row THEN old ELSE links[l]
    <3> HIDE DEF old, row
    <3> QED
      BY <1>1, <2>1, <2>2, <2>3, ExceptSeq
  <2>5. links[row].gone = Never
    BY <2>1 DEF TableIsTheStoredLinks
  <2>6. StorageStep
    BY <1>1, <2>1, <2>2, <2>3, <2>4, <2>5 DEF StorageStep
  <2>7. repo' \in [Codes -> Nat] /\ \A d \in Codes : RowOK(d)'
    BY <1>1, <2>1, <2>2, <2>3, <2>4 DEF RowOK
  <2>8. TableIsTheStoredLinks'
    <3> SUFFICES ASSUME NEW l \in LinkIds
                 PROVE  links'[l].gone = Never <=> repo'[links'[l].code] = l
      BY <2>4 DEF TableIsTheStoredLinks
    <3>1. links[l].code \in Codes /\ links'[l].code = links[l].code
      BY <1>1, <2>1, <2>3, <2>4, LinkFields DEF Link
    <3>2. CASE l = row
      BY <1>1, <2>1, <2>2, <2>3, <2>4, <3>1, <3>2, LinkServiceAssumption
    <3>3. CASE l # row
      BY <1>1, <2>1, <2>2, <2>4, <3>1, <3>3 DEF TableIsTheStoredLinks
    <3> QED
      BY <3>2, <3>3
  <2>9. PurgedAfterAnExpiry'
    <3> SUFFICES ASSUME NEW l \in LinkIds, links'[l].by = "purge"
                 PROVE  \E m \in 1..l : /\ links'[m].code = links'[l].code
                                        /\ links'[m].expires # Never
                                        /\ Ticks(links'[m].expires) <= links'[l].gone
      BY <2>4 DEF PurgedAfterAnExpiry
    <3>1. CASE l = row
      <4>1. how = "purge"
        BY <2>3, <2>4, <3>1
      <4>2. PICK m \in 1..row : /\ links[m].code = c
                                /\ links[m].expires # Never
                                /\ Ticks(links[m].expires) <= now
        BY <1>3, <4>1
      <4>3. m \in LinkIds
        BY <1>1, <2>1, <4>2
      <4>4. links'[m].code = c /\ links'[m].expires = links[m].expires
        BY <2>3, <2>4, <4>2, <4>3
      <4> QED
        BY <2>3, <2>4, <3>1, <4>2, <4>4
    <3>2. CASE l # row
      <4>1. links'[l] = links[l]
        BY <2>4, <3>2
      <4>2. PICK m \in 1..l : /\ links[m].code = links[l].code
                              /\ links[m].expires # Never
                              /\ Ticks(links[m].expires) <= links[l].gone
        BY <2>1, <4>1 DEF PurgedAfterAnExpiry
      <4>3. m \in LinkIds
        BY <1>1, <4>2
      <4>4. links'[m].code = links[m].code /\ links'[m].expires = links[m].expires
        BY <2>1, <2>3, <2>4, <4>3
      <4> QED
        BY <4>1, <4>2, <4>4
    <3> QED
      BY <3>1, <3>2
  <2> QED
    BY <2>4, <2>6, <2>7, <2>8, <2>9 DEF StorageOK
<1> QED
  BY <1>2, <1>3

\* An insert adds a link, and its row, for a code that has none.
LEMMA Storing ==
  ASSUME IInv, NEW p \in Clients, req[p] \in Request,
         repo[req[p].code] = 0, StoreNew(p, req[p].code)
  PROVE  StorageStep /\ StorageOK'
<1> DEFINE c == req[p].code
           new == [code |-> c, expires |-> req[p].expires, gone |-> Never, by |-> "nobody"]
           n == Len(links) + 1
<1>1. /\ links \in Seq(Link) /\ repo \in [Codes -> Nat] /\ Len(links) \in Nat
      /\ \A d \in Codes : RowOK(d)
      /\ TableIsTheStoredLinks /\ PurgedAfterAnExpiry
  BY LenProperties DEF IInv, TypeOK
<1>2. c \in Codes /\ new \in Link
  BY DEF Request, Link
<1>3. links' = Append(links, new) /\ repo' = [repo EXCEPT ![c] = n]
  BY DEF StoreNew
<1>4. /\ links' \in Seq(Link) /\ Len(links') = n /\ links'[n] = new
      /\ \A l \in LinkIds : links'[l] = links[l]
  <2> HIDE DEF new
  <2> QED
    BY <1>1, <1>2, <1>3, AppendProperties
<1>5. StorageStep
  BY <1>1, <1>2, <1>3, <1>4 DEF StorageStep
<1>6. repo' \in [Codes -> Nat] /\ \A d \in Codes : RowOK(d)'
  BY <1>1, <1>2, <1>3, <1>4 DEF RowOK
<1>7. TableIsTheStoredLinks'
  <2> SUFFICES ASSUME NEW l \in 1..n
               PROVE  links'[l].gone = Never <=> repo'[links'[l].code] = l
    BY <1>4 DEF TableIsTheStoredLinks
  <2>1. CASE l = n
    BY <1>1, <1>2, <1>3, <1>4, <2>1
  <2>2. CASE l # n
    <3>1. l \in LinkIds
      BY <1>1, <2>2
    <3>2. links[l].code \in Codes /\ (links[l].gone = Never <=> repo[links[l].code] = l)
      BY <1>1, <3>1, LinkFields DEF TableIsTheStoredLinks, Link
    <3>3. links[l].code = c => repo[links[l].code] # l
      BY <3>1
    <3> QED
      BY <1>1, <1>2, <1>3, <1>4, <2>2, <3>1, <3>2, <3>3
  <2> QED
    BY <2>1, <2>2
<1>8. PurgedAfterAnExpiry'
  <2> SUFFICES ASSUME NEW l \in 1..n, links'[l].by = "purge"
               PROVE  \E m \in 1..l : /\ links'[m].code = links'[l].code
                                      /\ links'[m].expires # Never
                                      /\ Ticks(links'[m].expires) <= links'[l].gone
    BY <1>4 DEF PurgedAfterAnExpiry
  <2>1. l \in LinkIds
    BY <1>1, <1>4
  <2>2. \A m \in 1..l : links'[m] = links[m]
    BY <1>1, <1>4, <2>1
  <2> QED
    BY <1>1, <1>4, <2>1, <2>2 DEF PurgedAfterAnExpiry
<1> QED
  BY <1>4, <1>5, <1>6, <1>7, <1>8 DEF StorageOK
------------------------------------------------------------------------------
\* What a change of the storage leaves true of requests and cache entries.

LEMMA RequestKept ==
  ASSUME IInv, StorageStep, StorageOK', now' = now,
         NEW q \in Clients, req'[q] = req[q]
  PROVE  RequestOK(req[q])'
<1> DEFINE r == req[q]
           l == r.link
<1> SUFFICES ASSUME r.pc # "idle" PROVE RequestOK(req[q])'
  BY DEF RequestOK
<1>1. /\ links \in Seq(Link) /\ repo \in [Codes -> Nat] /\ now \in Nat /\ Len(links) \in Nat
      /\ repo' \in [Codes -> Nat]
      /\ RequestOK(r)
  BY LenProperties DEF IInv, TypeOK, StorageOK
<1>2. r \in Request
  BY DEF IInv, TypeOK, Idle
<1>3. r.code \in Codes /\ r.link \in Nat /\ r.start \in Nat /\ r.ttl \in Nat
  BY <1>2, LinkServiceAssumption DEF Request
<1> DEFINE Linked == {"found", "ttl", "cacheSet", "record", "purgeRepo", "getFound", "getPurge"}
<1>4. CASE r.pc \notin Linked
  BY <1>1, <1>4 DEF RequestOK
<1>5. CASE r.pc \in Linked
  <2>1. l \in LinkIds /\ links[l].code = r.code
    BY <1>1, <1>5 DEF RequestOK
  <2>2. /\ l \in 1..Len(links')
        /\ links'[l].code = r.code
        /\ links'[l].expires = links[l].expires
        /\ links'[l].gone # links[l].gone => links[l].gone = Never /\ links'[l].gone = now
    BY <1>1, <2>1 DEF StorageStep
  <2>3. links[l].gone \in Nat \cup {Never} /\ links[l].expires \in Int \cup {Never}
    BY <1>1, <2>1, LinkFields
  <2>4. repo'[r.code] # 0 => repo'[r.code] = repo[r.code] \/ repo'[r.code] = Len(links) + 1
    BY <1>3 DEF StorageStep
  <2>5. r.start <= now /\ now <= r.start + RequestTimeout
    BY <1>1 DEF RequestOK
  <2>6. r.pc = "cacheSet" => r.ttl > 0
    BY <1>1 DEF RequestOK
  <2>7. r.pc \in {"found", "ttl", "cacheSet"} /\ links'[l].gone # Never =>
          r.start <= links'[l].gone
    BY <1>1, <2>2, <2>5 DEF RequestOK
  <2>8. r.pc \in {"ttl", "cacheSet"} /\ links'[l].expires # Never =>
          r.start < Ticks(links'[l].expires)
    BY <1>1, <2>2 DEF RequestOK
  <2>9. r.pc = "cacheSet" /\ links'[l].expires # Never =>
          r.start + Ticks(r.ttl) < Ticks(links'[l].expires) + Second
    BY <1>1, <2>2 DEF RequestOK
  <2>10. r.pc = "record" /\ links'[l].gone # Never =>
           r.start < links'[l].gone + RequestTimeout + Ticks(MaxCacheTtl)
    <3>1. CASE links'[l].gone = links[l].gone
      BY <1>1, <3>1 DEF RequestOK
    <3>2. CASE links'[l].gone = now
      BY <1>1, <1>3, <2>5, <3>2, Bounds
    <3> QED
      BY <2>2, <3>1, <3>2
  <2>11. r.pc = "record" /\ links'[l].expires # Never =>
           r.start < Ticks(links'[l].expires) + RequestTimeout + Second
    BY <1>1, <2>2 DEF RequestOK
  <2>12. r.pc \in {"purgeRepo", "getPurge"} =>
           links'[l].expires # Never /\ Ticks(links'[l].expires) <= now
    BY <1>1, <2>2 DEF RequestOK
  <2>13. r.pc \in {"found", "purgeRepo", "getFound", "getPurge"} =>
           (repo'[r.code] # 0 => l <= repo'[r.code])
    BY <1>1, <1>3, <2>1, <2>4 DEF RequestOK
  <2> QED
    BY <2>2, <2>5, <2>6, <2>7, <2>8, <2>9, <2>10, <2>11, <2>12, <2>13 DEF RequestOK
<1> QED
  BY <1>4, <1>5

LEMMA EntryKept ==
  ASSUME IInv, StorageStep, now' = now,
         NEW c \in Codes, cache'[c] = cache[c] \/ cache'[c] = Empty
  PROVE  EntryOK(c)'
<1> DEFINE l == cache[c].link
<1> SUFFICES ASSUME cache'[c] = cache[c], l # 0 PROVE EntryOK(c)'
  BY DEF EntryOK, Empty
<1>1. /\ links \in Seq(Link) /\ now \in Nat /\ Len(links) \in Nat
      /\ cache[c].until \in Nat
      /\ EntryOK(c)
  BY LenProperties DEF IInv, TypeOK
<1>2. /\ l \in LinkIds /\ links[l].code = c
      /\ now < cache[c].until /\ cache[c].until <= now + Ticks(MaxCacheTtl)
  BY <1>1 DEF EntryOK
<1>3. links[l].gone \in Nat \cup {Never} /\ links[l].expires \in Int \cup {Never}
  BY <1>1, <1>2, LinkFields
<1>4. /\ l \in 1..Len(links')
      /\ links'[l].code = c
      /\ links'[l].expires = links[l].expires
      /\ links'[l].gone # links[l].gone => links[l].gone = Never /\ links'[l].gone = now
  BY <1>1, <1>2 DEF StorageStep
<1>5. links'[l].gone # Never =>
        cache[c].until <= links'[l].gone + RequestTimeout + Ticks(MaxCacheTtl)
  <2> SUFFICES ASSUME links'[l].gone # Never
               PROVE  cache[c].until <= links'[l].gone + RequestTimeout + Ticks(MaxCacheTtl)
    OBVIOUS
  <2>1. CASE links'[l].gone = links[l].gone
    BY <1>1, <2>1 DEF EntryOK
  <2>2. CASE links'[l].gone = now
    <3> HIDE DEF l
    <3> QED
      BY <1>1, <1>2, <2>2, Bounds
  <2> QED
    BY <1>4, <2>1, <2>2
<1>6. links'[l].expires # Never =>
        cache[c].until < Ticks(links'[l].expires) + RequestTimeout + Second
  BY <1>1, <1>4 DEF EntryOK
<1> QED
  BY <1>2, <1>4, <1>5, <1>6 DEF EntryOK

\* What is left to show of a step of client p: that the storage keeps its
\* invariant, and that p's own request and the entry it wrote are in order.
LEMMA ClientFrame ==
  ASSUME IInv, NEW p \in Clients, now' = now,
         StorageStep, StorageOK',
         cache' \in [Codes -> [link : Nat, until : Nat]],
         \A c \in Codes : cache'[c] = cache[c] \/ cache'[c] = Empty \/ EntryOK(c)',
         req' \in [Clients -> Request \cup {Idle}],
         \A q \in Clients \ {p} : req'[q] = req[q],
         RequestOK(req[p])'
  PROVE  IInv'
<1>1. \A q \in Clients : RequestOK(req[q])'
  <2> TAKE q \in Clients
  <2>1. CASE q = p
    BY <2>1
  <2>2. CASE q # p
    BY <2>2, RequestKept
  <2> QED
    BY <2>1, <2>2
<1>2. \A c \in Codes : EntryOK(c)'
  BY EntryKept
<1>3. TypeOK'
  BY DEF TypeOK, IInv, StorageOK
<1> QED
  BY <1>1, <1>2, <1>3 DEF IInv, StorageOK

\* A step that ends the request of p, and writes no cache entry.
LEMMA AnswerFrame ==
  ASSUME IInv, NEW p \in Clients, now' = now,
         StorageStep, StorageOK',
         cache' = cache \/ Invalidate(req[p].code), Answer(p)
  PROVE  IInv'
<1>1. req \in [Clients -> Request \cup {Idle}] /\ cache \in [Codes -> [link : Nat, until : Nat]]
  BY DEF IInv, TypeOK
<1>2. /\ req' \in [Clients -> Request \cup {Idle}]
      /\ \A q \in Clients \ {p} : req'[q] = req[q]
      /\ req'[p] = Idle
  BY <1>1 DEF Answer
<1>3. RequestOK(req[p])'
  BY <1>2 DEF RequestOK, Idle
<1>4. /\ cache' \in [Codes -> [link : Nat, until : Nat]]
      /\ \A c \in Codes : cache'[c] = cache[c] \/ cache'[c] = Empty
  BY <1>1 DEF Invalidate, Empty
<1> QED
  BY <1>2, <1>3, <1>4, ClientFrame

\* A step of p that only moves its own request on.
LEMMA MoveFrame ==
  ASSUME IInv, NEW p \in Clients, now' = now, StorageStep, StorageOK',
         cache' = cache,
         req' \in [Clients -> Request \cup {Idle}],
         \A q \in Clients \ {p} : req'[q] = req[q],
         RequestOK(req[p])'
  PROVE  IInv'
<1>1. cache \in [Codes -> [link : Nat, until : Nat]]
  BY DEF IInv, TypeOK
<1> QED
  BY <1>1, ClientFrame

------------------------------------------------------------------------------
\* Every step preserves IInv, action by action.

\* The arithmetic of expires_at stays within the integers.
LEMMA ExpiresAtType ==
  ASSUME NEW ttl \in Ttls, NEW t \in Nat
  PROVE  ExpiresAt(ttl, t) \in Int \cup {Never}
<1>1. CASE ttl = Never
  BY <1>1 DEF ExpiresAt
<1>2. CASE ttl # Never
  <2>1. ttl \in Nat /\ SignBit \in Nat
    BY <1>2, LinkServiceAssumption
  <2>2. Signed(ttl) \in Int
    BY <2>1 DEF Signed
  <2>3. NowUnix(t) \in Nat /\ Second \in Nat
    BY WholeSeconds, Bounds
  <2>4. SaturatingAdd(NowUnix(t), Signed(ttl)) \in Int
    BY <2>1, <2>2, <2>3 DEF SaturatingAdd
  <2> QED
    BY <1>2, <2>4 DEF ExpiresAt
<1> QED
  BY <1>1, <1>2

\* What cache_ttl_secs returns: at most MAX_CACHE_TTL_SECS, and nothing that reaches
\* a second past the expiry of the link.
LEMMA CacheTtlBound ==
  ASSUME links \in Seq(Link), NEW l \in LinkIds, NEW t \in Nat
  PROVE  /\ CacheTtl(l, t) \in 0..MaxCacheTtl
         /\ links[l].expires # Never /\ CacheTtl(l, t) > 0 =>
              t + Ticks(CacheTtl(l, t)) < Ticks(links[l].expires) + Second
<1> DEFINE e == links[l].expires
           ttl == CacheTtl(l, t)
<1>1. e \in Int \cup {Never}
  BY LinkFields
<1>2. CASE e = Never
  BY <1>2, Bounds DEF CacheTtl
<1>3. CASE e # Never
  <2>1. e \in Int
    BY <1>1, <1>3
  <2>2. NowUnix(t) \in Nat /\ t < Ticks(NowUnix(t)) + Second
    BY WholeSeconds
  <2>3. ttl \in 0..MaxCacheTtl /\ (ttl > 0 => ttl <= e - NowUnix(t))
    BY <1>3, <2>1, <2>2, Bounds DEF CacheTtl
  <2> DEFINE u == NowUnix(t)
  <2>4. u \in Int /\ e - u \in Int /\ ttl \in Int
    BY <2>1, <2>2, <2>3, Bounds
  <2> HIDE DEF ttl, e, u
  <2>5. Ticks(u) \in Int /\ Ticks(e) \in Int /\ Ticks(ttl) \in Int
    BY <2>1, <2>4, TickType
  <2>6. Ticks(e - u) = Ticks(e) - Ticks(u)
    BY <2>1, <2>4, TickDifference
  <2>7. ttl <= e - u => Ticks(ttl) <= Ticks(e - u)
    BY <2>4, TickOrder
  <2>8. ttl > 0 => t + Ticks(ttl) < Ticks(e) + Second
    <3>1. ttl > 0 => Ticks(ttl) <= Ticks(e) - Ticks(u)
      BY <2>3, <2>6, <2>7 DEF u
    <3>2. t < Ticks(u) + Second
      BY <2>2 DEF u
    <3> QED
      BY <2>4, <2>5, <3>1, <3>2, Bounds
  <2> QED
    BY <2>3, <2>8 DEF ttl, e
<1> QED
  BY <1>2, <1>3

LEMMA BeginStep ==
  ASSUME IInv, NEW p \in Clients, NEW pc \in PCs, NEW c \in Codes,
         NEW e \in Int \cup {Never}, NEW tries \in 0..Attempts,
         pc \in {"insert", "cacheGet", "getRepo", "delRepo"},
         Begin(p, pc, c, e, tries)
  PROVE  IInv'
<1> DEFINE r == [pc |-> pc, code |-> c, link |-> 0, start |-> now,
                 ttl |-> 0, expires |-> e, tries |-> tries]
<1>1. req \in [Clients -> Request \cup {Idle}] /\ now \in Nat
  BY DEF IInv, TypeOK
<1>2. r \in Request
  BY <1>1, LinkServiceAssumption DEF Request
<1>3. req' = [req EXCEPT ![p] = r] /\ now' = now /\ cache' = cache /\ UNCHANGED storage
  BY DEF Begin, storage
<1>4. /\ req' \in [Clients -> Request \cup {Idle}]
      /\ \A q \in Clients \ {p} : req'[q] = req[q]
      /\ req'[p] = r
  <2> HIDE DEF r
  <2> QED
    BY <1>1, <1>2, <1>3
<1>5. RequestOK(req[p])'
  BY <1>1, <1>3, <1>4, LinkServiceAssumption DEF RequestOK
<1> HIDE DEF r
<1> QED
  BY <1>3, <1>4, <1>5, SameStorage, MoveFrame

LEMMA BusyRequest ==
  ASSUME IInv, NEW p \in Clients, req[p].pc # "idle"
  PROVE  req[p] \in Request /\ req[p].code \in Codes /\ req[p].link \in Nat /\ req[p].start \in Nat
BY DEF IInv, TypeOK, Idle, Request

LEMMA CreateStep ==
  ASSUME IInv, NEW p \in Clients, Create(p)
  PROVE  IInv'
<1>1. PICK c \in Codes, ttl \in Ttls, tries \in {1, Attempts} :
        Begin(p, "insert", c, ExpiresAt(ttl, now), tries)
  BY DEF Create
<1>2. ExpiresAt(ttl, now) \in Int \cup {Never}
  BY ExpiresAtType DEF IInv, TypeOK
<1>3. tries \in 0..Attempts
  BY LinkServiceAssumption
<1> QED
  BY <1>1, <1>2, <1>3, BeginStep DEF PCs

LEMMA ReadStep ==
  ASSUME IInv, NEW p \in Clients, Resolve(p) \/ Get(p) \/ Delete(p)
  PROVE  IInv'
<1>1. PICK pc \in {"cacheGet", "getRepo", "delRepo"}, c \in Codes : Begin(p, pc, c, Never, 0)
  BY DEF Resolve, Get, Delete
<1>2. 0 \in 0..Attempts
  BY LinkServiceAssumption
<1> QED
  BY <1>1, <1>2, BeginStep DEF PCs

LEMMA InsertStep ==
  ASSUME IInv, NEW p \in Clients, Insert(p)
  PROVE  IInv'
<1> DEFINE c == req[p].code
<1>1. /\ req[p].pc = "insert" /\ req[p] \in Request
      /\ now' = now /\ cache' = cache
  BY BusyRequest DEF Insert, At
<1>2. CASE repo[c] = 0 /\ StoreNew(p, c)
  <2>1. StorageStep /\ StorageOK'
    BY <1>1, <1>2, Storing
  <2> QED
    BY <1>1, <1>2, <2>1, AnswerFrame DEF StoreNew
<1>3. CASE UNCHANGED storage /\ Answer(p)
  BY <1>1, <1>3, SameStorage, AnswerFrame
<1>4. CASE /\ repo[c] # 0 /\ req[p].tries > 1
           /\ \E c2 \in Codes :
                req' = [req EXCEPT ![p].code = c2, ![p].tries = req[p].tries - 1]
           /\ UNCHANGED storage
  <2>1. PICK c2 \in Codes :
          req' = [req EXCEPT ![p].code = c2, ![p].tries = req[p].tries - 1]
    BY <1>4
  <2> DEFINE r == [[req[p] EXCEPT !.code = c2] EXCEPT !.tries = req[p].tries - 1]
  <2>2. req \in [Clients -> Request \cup {Idle}]
    BY DEF IInv, TypeOK
  <2>3. /\ r \in Request /\ r.pc = "insert" /\ r.start = req[p].start
    <3>1. req[p].tries - 1 \in 0..Attempts
      BY <1>1, <1>4, LinkServiceAssumption DEF Request
    <3> HIDE <1>4
    <3> QED
      BY <1>1, <3>1 DEF Request
  <2>4. /\ req' \in [Clients -> Request \cup {Idle}]
        /\ \A q \in Clients \ {p} : req'[q] = req[q]
        /\ req'[p] = r
    <3>1. req' = [req EXCEPT ![p] = r]
      BY <2>1
    <3> HIDE DEF r
    <3> QED
      BY <2>2, <2>3, <3>1
  <2>5. RequestOK(req[p])'
    <3>1. req[p].start <= now /\ now <= req[p].start + RequestTimeout
      BY <1>1 DEF IInv, RequestOK
    <3> HIDE DEF r
    <3> QED
      BY <1>1, <2>3, <2>4, <3>1 DEF RequestOK
  <2> HIDE DEF r
  <2> QED
    BY <1>1, <1>4, <2>4, <2>5, SameStorage, MoveFrame
<1> QED
  BY <1>2, <1>3, <1>4 DEF Insert

\* Moving a request on keeps its type, its code and its start.
LEMMA GotoType ==
  ASSUME IInv, NEW p \in Clients, NEW pc \in PCs, req[p] \in Request,
         Goto(p, pc)
  PROVE  /\ req' \in [Clients -> Request \cup {Idle}]
         /\ \A q \in Clients \ {p} : req'[q] = req[q]
         /\ req'[p].pc = pc /\ req'[p].code = req[p].code /\ req'[p].link = req[p].link
         /\ req'[p].start = req[p].start /\ req'[p].ttl = req[p].ttl
<1> DEFINE r == [req[p] EXCEPT !.pc = pc]
<1>1. req \in [Clients -> Request \cup {Idle}]
  BY DEF IInv, TypeOK
<1>2. /\ r \in Request /\ r.pc = pc /\ r.code = req[p].code /\ r.link = req[p].link
      /\ r.start = req[p].start /\ r.ttl = req[p].ttl
  BY DEF Request
<1>3. req' = [req EXCEPT ![p] = r]
  BY DEF Goto, GotoWith
<1> HIDE DEF r
<1> QED
  BY <1>1, <1>2, <1>3

LEMMA GotoWithType ==
  ASSUME IInv, NEW p \in Clients, NEW pc \in PCs, NEW l \in Nat, req[p] \in Request,
         GotoWith(p, pc, l)
  PROVE  /\ req' \in [Clients -> Request \cup {Idle}]
         /\ \A q \in Clients \ {p} : req'[q] = req[q]
         /\ req'[p].pc = pc /\ req'[p].code = req[p].code /\ req'[p].link = l
         /\ req'[p].start = req[p].start /\ req'[p].ttl = req[p].ttl
<1> DEFINE r == [req[p] EXCEPT !.pc = pc, !.link = l]
<1>1. req \in [Clients -> Request \cup {Idle}]
  BY DEF IInv, TypeOK
<1>2. /\ r \in Request /\ r.pc = pc /\ r.code = req[p].code /\ r.link = l
      /\ r.start = req[p].start /\ r.ttl = req[p].ttl
  BY DEF Request
<1>3. req' = [req EXCEPT ![p] = r]
  BY DEF Goto, GotoWith
<1> HIDE DEF r
<1> QED
  BY <1>1, <1>2, <1>3

LEMMA GotoTtlType ==
  ASSUME IInv, NEW p \in Clients, NEW pc \in PCs, NEW ttl \in 0..MaxCacheTtl, req[p] \in Request,
         req' = [req EXCEPT ![p].pc = pc, ![p].ttl = ttl]
  PROVE  /\ req' \in [Clients -> Request \cup {Idle}]
         /\ \A q \in Clients \ {p} : req'[q] = req[q]
         /\ req'[p].pc = pc /\ req'[p].code = req[p].code /\ req'[p].link = req[p].link
         /\ req'[p].start = req[p].start /\ req'[p].ttl = ttl
<1> DEFINE r == [req[p] EXCEPT !.pc = pc, !.ttl = ttl]
<1>1. req \in [Clients -> Request \cup {Idle}]
  BY DEF IInv, TypeOK
<1>2. /\ r \in Request /\ r.pc = pc /\ r.code = req[p].code /\ r.link = req[p].link
      /\ r.start = req[p].start /\ r.ttl = ttl
  BY DEF Request
<1>3. req' = [req EXCEPT ![p] = r]
  BY DEF Goto, GotoWith
<1> HIDE DEF r
<1> QED
  BY <1>1, <1>2, <1>3

LEMMA CacheGetStep ==
  ASSUME IInv, NEW p \in Clients, CacheGet(p)
  PROVE  IInv'
<1> DEFINE c == req[p].code
           l == cache[c].link
<1>1. /\ req[p].pc = "cacheGet" /\ req[p] \in Request /\ c \in Codes
      /\ now' = now /\ cache' = cache /\ UNCHANGED storage
  BY BusyRequest DEF CacheGet, At
<1>2. StorageStep /\ StorageOK' /\ links' = links /\ repo' = repo
  BY <1>1, SameStorage DEF storage
<1>3. req[p].start <= now /\ now <= req[p].start + RequestTimeout
  BY <1>1 DEF IInv, RequestOK
<1>4. /\ now \in Nat /\ req[p].start \in Nat /\ cache[c].until \in Nat /\ l \in Nat
      /\ links \in Seq(Link)
  BY <1>1 DEF IInv, TypeOK, Request
<1>5. CASE l # 0 /\ GotoWith(p, "record", l)
  <2>1. /\ req' \in [Clients -> Request \cup {Idle}]
        /\ \A q \in Clients \ {p} : req'[q] = req[q]
        /\ req'[p].pc = "record" /\ req'[p].code = c /\ req'[p].link = l
        /\ req'[p].start = req[p].start
    BY <1>1, <1>4, <1>5, GotoWithType DEF PCs
  <2>2. /\ l \in LinkIds /\ links[l].code = c /\ now < cache[c].until
        /\ links[l].gone # Never =>
             cache[c].until <= links[l].gone + RequestTimeout + Ticks(MaxCacheTtl)
        /\ links[l].expires # Never =>
             cache[c].until < Ticks(links[l].expires) + RequestTimeout + Second
    BY <1>1, <1>5 DEF IInv, EntryOK
  <2>3. links[l].gone \in Nat \cup {Never} /\ links[l].expires \in Int \cup {Never}
    BY <1>4, <2>2, LinkFields
  <2>4. links[l].gone # Never => req[p].start < links[l].gone + RequestTimeout + Ticks(MaxCacheTtl)
    <3> SUFFICES ASSUME links[l].gone # Never
                 PROVE  req[p].start < links[l].gone + RequestTimeout + Ticks(MaxCacheTtl)
      OBVIOUS
    <3>1. links[l].gone \in Nat /\ cache[c].until <= links[l].gone + RequestTimeout + Ticks(MaxCacheTtl)
      BY <2>2, <2>3
    <3>2. now < cache[c].until
      BY <2>2
    <3> HIDE DEF l, c
    <3> QED
      BY <1>3, <1>4, <3>1, <3>2, Bounds, SMTT(60)
  <2>5. links[l].expires # Never =>
          req[p].start < Ticks(links[l].expires) + RequestTimeout + Second
    <3> SUFFICES ASSUME links[l].expires # Never
                 PROVE  req[p].start < Ticks(links[l].expires) + RequestTimeout + Second
      OBVIOUS
    <3>1. /\ links[l].expires \in Int
          /\ cache[c].until < Ticks(links[l].expires) + RequestTimeout + Second
      BY <2>2, <2>3
    <3>2. now < cache[c].until
      BY <2>2
    <3>3. Ticks(links[l].expires) \in Int
      BY <3>1, TickType
    <3> HIDE DEF l, c
    <3> QED
      BY <1>3, <1>4, <3>1, <3>2, <3>3, Bounds, SMTT(60)
  <2>6. RequestOK(req[p])'
    BY <1>1, <1>2, <1>3, <2>1, <2>2, <2>4, <2>5 DEF RequestOK
  <2> QED
    BY <1>1, <1>2, <2>1, <2>6, MoveFrame
<1>6. CASE Goto(p, "repoGet")
  <2>1. /\ req' \in [Clients -> Request \cup {Idle}]
        /\ \A q \in Clients \ {p} : req'[q] = req[q]
        /\ req'[p].pc = "repoGet" /\ req'[p].start = req[p].start
    BY <1>1, <1>6, GotoType DEF PCs
  <2>2. RequestOK(req[p])'
    BY <1>1, <1>3, <2>1 DEF RequestOK
  <2> QED
    BY <1>1, <1>2, <2>1, <2>2, MoveFrame
<1> QED
  BY <1>5, <1>6 DEF CacheGet

\* The row resolve or get has read: stored when it was read, hence not yet removed
\* and the youngest of its code.
LEMMA RowRead ==
  ASSUME IInv, NEW p \in Clients, NEW pc \in {"found", "getFound"},
         req[p].pc # "idle", now' = now, cache' = cache, UNCHANGED storage,
         repo[req[p].code] # 0, GotoWith(p, pc, repo[req[p].code])
  PROVE  IInv'
<1> DEFINE c == req[p].code
           l == repo[c]
<1>1. req[p] \in Request /\ c \in Codes /\ l \in Nat
  BY BusyRequest DEF IInv, TypeOK
<1>2. StorageStep /\ StorageOK' /\ links' = links /\ repo' = repo
  BY SameStorage DEF storage
<1>3. /\ req' \in [Clients -> Request \cup {Idle}]
      /\ \A q \in Clients \ {p} : req'[q] = req[q]
      /\ req'[p].pc = pc /\ req'[p].code = c /\ req'[p].link = l
      /\ req'[p].start = req[p].start
  BY <1>1, GotoWithType DEF PCs
<1>4. l \in LinkIds /\ links[l].code = c
  BY <1>1 DEF IInv, RowOK
<1>5. links[l].gone = Never
  BY <1>4 DEF IInv, TableIsTheStoredLinks
<1>6. req[p].start <= now /\ now <= req[p].start + RequestTimeout
  BY DEF IInv, RequestOK
<1>7. RequestOK(req[p])'
  BY <1>1, <1>2, <1>3, <1>4, <1>5, <1>6 DEF RequestOK
<1> QED
  BY <1>2, <1>3, <1>7, MoveFrame

\* The row has expired: the purge starts.
LEMMA PurgeStarts ==
  ASSUME IInv, NEW p \in Clients, NEW pc \in {"purgeRepo", "getPurge"},
         req[p].pc \in {"found", "getFound"}, now' = now, cache' = cache, UNCHANGED storage,
         IsExpired(req[p].link, now), Goto(p, pc)
  PROVE  IInv'
<1> DEFINE l == req[p].link
<1>1. req[p] \in Request
  BY BusyRequest
<1>2. StorageStep /\ StorageOK' /\ links' = links /\ repo' = repo
  BY SameStorage DEF storage
<1>3. /\ req' \in [Clients -> Request \cup {Idle}]
      /\ \A q \in Clients \ {p} : req'[q] = req[q]
      /\ req'[p].pc = pc /\ req'[p].code = req[p].code /\ req'[p].link = l
      /\ req'[p].start = req[p].start
  BY <1>1, GotoType DEF PCs
<1>4. RequestOK(req[p]) /\ now \in Nat /\ links \in Seq(Link)
  BY DEF IInv, TypeOK
<1>5. l \in LinkIds /\ links[l].code = req[p].code
  BY <1>4 DEF RequestOK
<1>6. links[l].expires # Never
  BY DEF IsExpired
<1>7. links[l].expires \in Int
  BY <1>4, <1>5, <1>6, LinkFields
<1>8. Ticks(links[l].expires) <= now
  BY <1>4, <1>5, <1>7, ExpiredOnTime, Bounds
<1>9. RequestOK(req[p])'
  BY <1>2, <1>3, <1>4, <1>5, <1>6, <1>8 DEF RequestOK
<1> QED
  BY <1>2, <1>3, <1>9, MoveFrame

LEMMA RepoGetStep ==
  ASSUME IInv, NEW p \in Clients, RepoGet(p)
  PROVE  IInv'
<1> DEFINE l == repo[req[p].code]
<1>1. req[p].pc = "repoGet" /\ now' = now /\ cache' = cache /\ UNCHANGED storage
  BY DEF RepoGet, At
<1>2. CASE Answer(p)
  BY <1>1, <1>2, SameStorage, AnswerFrame
<1>3. CASE l # 0 /\ GotoWith(p, "found", l)
  BY <1>1, <1>3, RowRead
<1> QED
  BY <1>2, <1>3 DEF RepoGet

LEMMA CheckExpiryStep ==
  ASSUME IInv, NEW p \in Clients, CheckExpiry(p)
  PROVE  IInv'
<1> DEFINE l == req[p].link
<1>1. /\ req[p].pc = "found" /\ req[p] \in Request
      /\ now' = now /\ cache' = cache /\ UNCHANGED storage
  BY BusyRequest DEF CheckExpiry, At
<1>2. CASE IsExpired(l, now)
  <2>1. Goto(p, "purgeRepo")
    BY <1>2 DEF CheckExpiry
  <2> QED
    BY <1>1, <1>2, <2>1, PurgeStarts
<1>3. CASE ~IsExpired(l, now)
  <2>1. Goto(p, "ttl")
    BY <1>3 DEF CheckExpiry
  <2>2. StorageStep /\ StorageOK' /\ links' = links /\ repo' = repo
    BY <1>1, SameStorage DEF storage
  <2>3. /\ req' \in [Clients -> Request \cup {Idle}]
        /\ \A q \in Clients \ {p} : req'[q] = req[q]
        /\ req'[p].pc = "ttl" /\ req'[p].code = req[p].code /\ req'[p].link = l
        /\ req'[p].start = req[p].start
    BY <1>1, <2>1, GotoType DEF PCs
  <2>4. /\ RequestOK(req[p]) /\ now \in Nat /\ req[p].start \in Nat
        /\ links \in Seq(Link)
    BY <1>1 DEF IInv, TypeOK, Request
  <2>5. /\ l \in LinkIds /\ links[l].code = req[p].code
        /\ links[l].gone # Never => req[p].start <= links[l].gone
        /\ req[p].start <= now /\ now <= req[p].start + RequestTimeout
    BY <1>1, <2>4 DEF RequestOK
  <2>6. links[l].expires # Never => req[p].start < Ticks(links[l].expires)
    <3> SUFFICES ASSUME links[l].expires # Never
                 PROVE  req[p].start < Ticks(links[l].expires)
      OBVIOUS
    <3>1. links[l].expires \in Int
      BY <2>4, <2>5, LinkFields
    <3>2. ~(Ticks(links[l].expires) <= now) /\ Ticks(links[l].expires) \in Int
      BY <1>3, <2>4, <2>5, <3>1, ExpiredOnTime, TickType, Bounds
    <3> HIDE DEF l
    <3> QED
      BY <2>4, <2>5, <3>1, <3>2
  <2>7. RequestOK(req[p])'
    BY <1>1, <2>2, <2>3, <2>5, <2>6 DEF RequestOK
  <2> QED
    BY <1>1, <2>2, <2>3, <2>7, MoveFrame
<1> QED
  BY <1>2, <1>3

\* A request that started before a bound also meets the looser one of a redirect.
LEMMA WaitAdds ==
  \A s \in Nat, t \in Int :
    /\ s <= t => s < t + RequestTimeout + Ticks(MaxCacheTtl)
    /\ s < t => s < t + RequestTimeout + Second
BY Bounds

LEMMA ChooseTtlStep ==
  ASSUME IInv, NEW p \in Clients, ChooseTtl(p)
  PROVE  IInv'
<1> DEFINE l == req[p].link
           ttl == CacheTtl(l, now)
<1>1. /\ req[p].pc = "ttl" /\ req[p] \in Request
      /\ now' = now /\ cache' = cache /\ UNCHANGED storage
  BY BusyRequest DEF ChooseTtl, At
<1>2. StorageStep /\ StorageOK' /\ links' = links /\ repo' = repo
  BY <1>1, SameStorage DEF storage
<1>3. now \in Nat /\ req[p].start \in Nat /\ links \in Seq(Link)
  BY <1>1 DEF IInv, TypeOK, Request
<1>4. RequestOK(req[p])
  BY DEF IInv
<1>5. l \in LinkIds /\ links[l].code = req[p].code
  BY <1>1, <1>4 DEF RequestOK
<1>6. links[l].gone \in Nat \cup {Never} /\ links[l].expires \in Int \cup {Never}
  BY <1>3, <1>5, LinkFields
<1>7. /\ req[p].start <= now /\ now <= req[p].start + RequestTimeout
      /\ links[l].gone # Never => req[p].start <= links[l].gone
      /\ links[l].expires # Never => req[p].start < Ticks(links[l].expires)
  BY <1>1, <1>4 DEF RequestOK
<1>8. /\ ttl \in 0..MaxCacheTtl
      /\ links[l].expires # Never /\ ttl > 0 => now + Ticks(ttl) < Ticks(links[l].expires) + Second
  BY <1>3, <1>5, CacheTtlBound
<1>9. CASE ttl > 0
  <2>1. req' = [req EXCEPT ![p].pc = "cacheSet", ![p].ttl = ttl]
    BY <1>9 DEF ChooseTtl
  <2>2. /\ req' \in [Clients -> Request \cup {Idle}]
        /\ \A q \in Clients \ {p} : req'[q] = req[q]
        /\ req'[p].pc = "cacheSet" /\ req'[p].code = req[p].code /\ req'[p].link = l
        /\ req'[p].start = req[p].start /\ req'[p].ttl = ttl
    <3> HIDE DEF ttl
    <3> QED
      BY <1>1, <1>8, <2>1, GotoTtlType DEF PCs
  <2>3. links[l].expires # Never => req[p].start + Ticks(ttl) < Ticks(links[l].expires) + Second
    <3> SUFFICES ASSUME links[l].expires # Never
                 PROVE  req[p].start + Ticks(ttl) < Ticks(links[l].expires) + Second
      OBVIOUS
    <3>1. links[l].expires \in Int /\ now + Ticks(ttl) < Ticks(links[l].expires) + Second
      BY <1>6, <1>8, <1>9
    <3>2. ttl \in Int /\ req[p].start <= now
      BY <1>7, <1>8, Bounds
    <3> HIDE DEF ttl, l
    <3>3. Ticks(links[l].expires) \in Int /\ Ticks(ttl) \in Int
      BY <3>1, <3>2, TickType
    <3> QED
      BY <1>3, <3>1, <3>2, <3>3, Bounds
  <2>4. RequestOK(req[p])'
    <3> HIDE DEF ttl
    <3> QED
      BY <1>1, <1>2, <1>5, <1>7, <1>9, <2>2, <2>3 DEF RequestOK
  <2> QED
    BY <1>1, <1>2, <2>2, <2>4, MoveFrame
<1>10. CASE ~(ttl > 0)
  <2>1. Goto(p, "record")
    BY <1>10 DEF ChooseTtl
  <2>2. /\ req' \in [Clients -> Request \cup {Idle}]
        /\ \A q \in Clients \ {p} : req'[q] = req[q]
        /\ req'[p].pc = "record" /\ req'[p].code = req[p].code /\ req'[p].link = l
        /\ req'[p].start = req[p].start
    BY <1>1, <2>1, GotoType DEF PCs
  <2>3. /\ links[l].gone # Never =>
             req[p].start < links[l].gone + RequestTimeout + Ticks(MaxCacheTtl)
        /\ links[l].expires # Never =>
             req[p].start < Ticks(links[l].expires) + RequestTimeout + Second
    <3>1. links[l].expires # Never => Ticks(links[l].expires) \in Int
      BY <1>6, TickType
    <3> QED
      BY <1>3, <1>6, <1>7, <3>1, WaitAdds
  <2>4. RequestOK(req[p])'
    BY <1>1, <1>2, <1>5, <1>7, <2>2, <2>3 DEF RequestOK
  <2> QED
    BY <1>1, <1>2, <2>2, <2>4, MoveFrame
<1> QED
  BY <1>9, <1>10

LEMMA CacheSetStep ==
  ASSUME IInv, NEW p \in Clients, CacheSet(p)
  PROVE  IInv'
<1> DEFINE l == req[p].link
           c == req[p].code
           entry == [link |-> l, until |-> now + Ticks(req[p].ttl)]
<1>1. /\ req[p].pc = "cacheSet" /\ req[p] \in Request /\ c \in Codes
      /\ now' = now /\ UNCHANGED storage /\ Goto(p, "record")
      /\ cache' = [cache EXCEPT ![c] = entry] \/ cache' = cache
  BY BusyRequest DEF CacheSet, At
<1>2. StorageStep /\ StorageOK' /\ links' = links /\ repo' = repo
  BY <1>1, SameStorage DEF storage
<1>3. /\ now \in Nat /\ req[p].start \in Nat /\ req[p].ttl \in 0..MaxCacheTtl
      /\ l \in Nat /\ links \in Seq(Link)
      /\ cache \in [Codes -> [link : Nat, until : Nat]]
  BY <1>1, LinkServiceAssumption DEF IInv, TypeOK, Request
<1>4. RequestOK(req[p])
  BY DEF IInv
<1>5. l \in LinkIds /\ links[l].code = c
  BY <1>1, <1>4 DEF RequestOK
<1>6. links[l].gone \in Nat \cup {Never} /\ links[l].expires \in Int \cup {Never}
  BY <1>3, <1>5, LinkFields
<1>7. /\ req[p].start <= now /\ now <= req[p].start + RequestTimeout
      /\ req[p].ttl > 0
      /\ links[l].gone # Never => req[p].start <= links[l].gone
      /\ links[l].expires # Never => req[p].start < Ticks(links[l].expires)
      /\ links[l].expires # Never => req[p].start + Ticks(req[p].ttl) < Ticks(links[l].expires) + Second
  BY <1>1, <1>4 DEF RequestOK
<1>8. /\ req' \in [Clients -> Request \cup {Idle}]
      /\ \A q \in Clients \ {p} : req'[q] = req[q]
      /\ req'[p].pc = "record" /\ req'[p].code = c /\ req'[p].link = l
      /\ req'[p].start = req[p].start
  BY <1>1, GotoType DEF PCs
<1>9. /\ links[l].gone # Never =>
           req[p].start < links[l].gone + RequestTimeout + Ticks(MaxCacheTtl)
      /\ links[l].expires # Never =>
           req[p].start < Ticks(links[l].expires) + RequestTimeout + Second
  <2>1. links[l].expires # Never => Ticks(links[l].expires) \in Int
    BY <1>6, TickType
  <2> QED
    BY <1>3, <1>6, <1>7, <2>1, WaitAdds
<1>10. RequestOK(req[p])'
  BY <1>1, <1>2, <1>5, <1>7, <1>8, <1>9 DEF RequestOK
<1> DEFINE life == Ticks(req[p].ttl)
<1>11. life \in Nat /\ life <= Ticks(MaxCacheTtl) /\ life > 0
  BY <1>3, <1>7, Lifetimes
<1>12. entry \in [link : Nat, until : Nat]
  <2>1. now + life \in Nat
    BY <1>3, <1>11
  <2> QED
    BY <1>3, <2>1
<1>13. cache' \in [Codes -> [link : Nat, until : Nat]]
  <2> HIDE DEF entry
  <2> QED
    BY <1>1, <1>3, <1>12
<1>14. /\ links[l].gone # Never =>
            entry.until <= links[l].gone + RequestTimeout + Ticks(MaxCacheTtl)
       /\ links[l].expires # Never =>
            entry.until < Ticks(links[l].expires) + RequestTimeout + Second
       /\ now < entry.until /\ entry.until <= now + Ticks(MaxCacheTtl)
  <2>1. entry.until = now + Ticks(req[p].ttl)
    OBVIOUS
  <2>2. ASSUME links[l].gone # Never
        PROVE  now + Ticks(req[p].ttl) <= links[l].gone + RequestTimeout + Ticks(MaxCacheTtl)
    <3>1. links[l].gone \in Nat /\ req[p].start <= links[l].gone
      BY <1>6, <1>7, <2>2
    <3> HIDE DEF l, c, entry, life
    <3> QED
      BY <1>3, <1>7, <1>11, <3>1, Bounds, SMTT(60) DEF life
  <2>3. ASSUME links[l].expires # Never
        PROVE  now + Ticks(req[p].ttl) < Ticks(links[l].expires) + RequestTimeout + Second
    <3>1. links[l].expires \in Int /\ req[p].start + Ticks(req[p].ttl) < Ticks(links[l].expires) + Second
      BY <1>6, <1>7, <2>3
    <3>2. Ticks(links[l].expires) \in Int
      BY <3>1, TickType
    <3> HIDE DEF l, c, entry
    <3> QED
      BY <1>3, <1>7, <1>11, <3>1, <3>2, Bounds, SMTT(60)
  <2>4. now < now + Ticks(req[p].ttl) /\ now + Ticks(req[p].ttl) <= now + Ticks(MaxCacheTtl)
    BY <1>3, <1>11, Bounds
  <2> HIDE DEF entry
  <2> QED
    BY <2>1, <2>2, <2>3, <2>4
<1>15. \A d \in Codes : cache'[d] = cache[d] \/ EntryOK(d)'
  <2> SUFFICES ASSUME NEW d \in Codes, cache'[d] # cache[d]
               PROVE  EntryOK(d)'
    OBVIOUS
  <2>1. d = c /\ cache'[d] = entry
    <3> HIDE DEF entry
    <3> QED
      BY <1>1, <1>3
  <2>2. entry.link = l
    OBVIOUS
  <2> HIDE DEF entry
  <2> QED
    BY <1>1, <1>2, <1>5, <1>14, <2>1, <2>2 DEF EntryOK
<1> QED
  BY <1>1, <1>2, <1>8, <1>10, <1>13, <1>15, ClientFrame

\* Steps that end the request and leave the storage alone, whatever becomes of the
\* cache entry of its code.
LEMMA EndStep ==
  ASSUME IInv, NEW p \in Clients, Answer(p), now' = now, UNCHANGED storage,
         cache' = cache \/ Invalidate(req[p].code)
  PROVE  IInv'
BY SameStorage, AnswerFrame

\* The row a purge removes is of the code of a link that had expired, and that is
\* not younger.
LEMMA PurgeRemoves ==
  ASSUME IInv, NEW p \in Clients, req[p].pc \in {"purgeRepo", "getPurge"},
         Remove(req[p].code, "purge")
  PROVE  StorageStep /\ StorageOK'
<1> DEFINE c == req[p].code
           m == req[p].link
<1>1. c \in Codes /\ m \in Nat /\ repo[c] \in Nat /\ links \in Seq(Link)
  BY BusyRequest DEF IInv, TypeOK
<1>2. RequestOK(req[p])
  BY DEF IInv
<1>3. /\ m \in LinkIds /\ links[m].code = c
      /\ links[m].expires # Never /\ Ticks(links[m].expires) <= now
      /\ repo[c] # 0 => m <= repo[c]
  BY <1>2 DEF RequestOK
<1>4. repo[c] # 0 => m \in 1..repo[c]
  BY <1>1, <1>3
<1> QED
  BY <1>1, <1>3, <1>4, Removal

LEMMA PurgeRepoStep ==
  ASSUME IInv, NEW p \in Clients, PurgeRepo(p)
  PROVE  IInv'
<1>1. /\ req[p].pc = "purgeRepo" /\ req[p] \in Request
      /\ now' = now /\ cache' = cache /\ Goto(p, "purgeCache")
  BY BusyRequest DEF PurgeRepo, At
<1>2. StorageStep /\ StorageOK'
  <2>1. CASE Remove(req[p].code, "purge")
    BY <1>1, <2>1, PurgeRemoves
  <2>2. CASE UNCHANGED storage
    BY <2>2, SameStorage
  <2> QED
    BY <2>1, <2>2 DEF PurgeRepo
<1>3. /\ req' \in [Clients -> Request \cup {Idle}]
      /\ \A q \in Clients \ {p} : req'[q] = req[q]
      /\ req'[p].pc = "purgeCache" /\ req'[p].start = req[p].start
  BY <1>1, GotoType DEF PCs
<1>4. req[p].start <= now /\ now <= req[p].start + RequestTimeout
  BY <1>1 DEF IInv, RequestOK
<1>5. RequestOK(req[p])'
  BY <1>1, <1>3, <1>4 DEF RequestOK
<1> QED
  BY <1>1, <1>2, <1>3, <1>5, MoveFrame

LEMMA GetPurgeStep ==
  ASSUME IInv, NEW p \in Clients, GetPurge(p)
  PROVE  IInv'
<1>1. req[p].pc = "getPurge" /\ now' = now /\ cache' = cache /\ Answer(p)
  BY DEF GetPurge, At
<1>2. CASE Remove(req[p].code, "purge")
  BY <1>1, <1>2, PurgeRemoves, AnswerFrame
<1>3. CASE UNCHANGED storage
  BY <1>1, <1>3, EndStep
<1> QED
  BY <1>2, <1>3 DEF GetPurge

LEMMA GetRepoStep ==
  ASSUME IInv, NEW p \in Clients, GetRepo(p)
  PROVE  IInv'
<1> DEFINE l == repo[req[p].code]
<1>1. req[p].pc = "getRepo" /\ now' = now /\ cache' = cache /\ UNCHANGED storage
  BY DEF GetRepo, At
<1>2. CASE l # 0 /\ GotoWith(p, "getFound", l)
  BY <1>1, <1>2, RowRead
<1>3. CASE Answer(p)
  BY <1>1, <1>3, EndStep
<1> QED
  BY <1>2, <1>3 DEF GetRepo

LEMMA CheckGetStep ==
  ASSUME IInv, NEW p \in Clients, CheckGet(p)
  PROVE  IInv'
<1>1. req[p].pc = "getFound" /\ now' = now /\ cache' = cache /\ UNCHANGED storage
  BY DEF CheckGet, At
<1>2. CASE IsExpired(req[p].link, now)
  <2>1. Goto(p, "getPurge")
    BY <1>2 DEF CheckGet
  <2> QED
    BY <1>1, <1>2, <2>1, PurgeStarts
<1>3. CASE ~IsExpired(req[p].link, now)
  <2>1. Answer(p)
    BY <1>3 DEF CheckGet
  <2> QED
    BY <1>1, <2>1, EndStep
<1> QED
  BY <1>2, <1>3

LEMMA DelRepoStep ==
  ASSUME IInv, NEW p \in Clients, DelRepo(p)
  PROVE  IInv'
<1>1. req[p].pc = "delRepo" /\ req[p] \in Request /\ req[p].code \in Codes
      /\ now' = now /\ cache' = cache
  BY BusyRequest DEF DelRepo, At
<1>2. CASE Remove(req[p].code, "delete") /\ Goto(p, "delCache")
  <2>1. StorageStep /\ StorageOK'
    BY <1>1, <1>2, Removal
  <2>2. /\ req' \in [Clients -> Request \cup {Idle}]
        /\ \A q \in Clients \ {p} : req'[q] = req[q]
        /\ req'[p].pc = "delCache" /\ req'[p].start = req[p].start
    BY <1>1, <1>2, GotoType DEF PCs
  <2>3. req[p].start <= now /\ now <= req[p].start + RequestTimeout
    BY <1>1 DEF IInv, RequestOK
  <2>4. RequestOK(req[p])'
    BY <1>1, <2>2, <2>3 DEF RequestOK
  <2> QED
    BY <1>1, <2>1, <2>2, <2>4, MoveFrame
<1>3. CASE Answer(p) /\ UNCHANGED storage
  BY <1>1, <1>3, EndStep
<1> QED
  BY <1>2, <1>3 DEF DelRepo

\* A crash ends every request.
LEMMA CrashStep ==
  ASSUME IInv, Crash
  PROVE  IInv'
<1>1. /\ req' = [p \in Clients |-> Idle] /\ now' = now /\ cache' = cache
      /\ UNCHANGED storage
  BY DEF Crash
<1>2. StorageStep /\ StorageOK'
  BY <1>1, SameStorage
<1>3. \A p \in Clients : RequestOK(req[p])'
  BY <1>1 DEF RequestOK, Idle
<1>4. \A c \in Codes : EntryOK(c)'
  BY <1>1, <1>2, EntryKept
<1>5. TypeOK'
  BY <1>1, <1>2 DEF TypeOK, IInv, StorageOK
<1> QED
  BY <1>2, <1>3, <1>4, <1>5 DEF IInv, StorageOK

\* Time passes only while every request is younger than its timeout, and takes
\* the entries away whose deadline it reaches.
LEMMA TickStep ==
  ASSUME IInv, Tick
  PROVE  IInv'
<1>1. /\ now' = now + 1 /\ req' = req /\ UNCHANGED storage
      /\ \A p \in Clients : ~Due(p)
      /\ cache' = [c \in Codes |-> IF cache[c].until <= now + 1 THEN Empty ELSE cache[c]]
  BY DEF Tick
<1>2. /\ now \in Nat /\ links \in Seq(Link)
      /\ cache \in [Codes -> [link : Nat, until : Nat]]
      /\ req \in [Clients -> Request \cup {Idle}]
  BY DEF IInv, TypeOK
<1>3. StorageOK' /\ links' = links /\ repo' = repo
  BY <1>1, SameStorage DEF storage
<1>4. \A p \in Clients : RequestOK(req[p])'
  <2> SUFFICES ASSUME NEW p \in Clients, req[p].pc # "idle"
               PROVE  RequestOK(req[p])'
    BY <1>1 DEF RequestOK
  <2>1. req[p] \in Request /\ req[p] # Idle /\ req[p].start \in Nat
    BY <1>2 DEF Request, Idle
  <2>2. RequestOK(req[p]) /\ now < req[p].start + RequestTimeout
    BY <1>1, <1>2, <2>1, Bounds DEF IInv, Due
  <2>3. req[p].start <= now + 1 /\ now + 1 <= req[p].start + RequestTimeout
    BY <1>2, <2>1, <2>2, Bounds DEF RequestOK
  <2>4. req[p].pc \in {"purgeRepo", "getPurge"} => Ticks(links[req[p].link].expires) <= now + 1
    <3> SUFFICES ASSUME req[p].pc \in {"purgeRepo", "getPurge"}
                 PROVE  Ticks(links[req[p].link].expires) <= now + 1
      OBVIOUS
    <3>1. /\ req[p].link \in LinkIds
          /\ links[req[p].link].expires # Never /\ Ticks(links[req[p].link].expires) <= now
      BY <2>2 DEF RequestOK
    <3>2. links[req[p].link].expires \in Int
      BY <1>2, <3>1, LinkFields
    <3>3. Ticks(links[req[p].link].expires) \in Int
      BY <3>2, TickType
    <3> QED
      BY <1>2, <3>1, <3>3
  <2> QED
    BY <1>1, <1>3, <2>2, <2>3, <2>4 DEF RequestOK
<1>5. \A c \in Codes : EntryOK(c)'
  <2> SUFFICES ASSUME NEW c \in Codes, cache'[c].link # 0
               PROVE  EntryOK(c)'
    BY DEF EntryOK
  <2>1. cache'[c] = cache[c] /\ cache[c].until > now + 1
    BY <1>1, <1>2 DEF Empty
  <2>2. cache[c].until \in Nat /\ EntryOK(c)
    BY <1>2 DEF IInv
  <2>3. now + 1 < cache[c].until /\ cache[c].until <= now + 1 + Ticks(MaxCacheTtl)
    BY <1>2, <2>1, <2>2, Bounds DEF EntryOK
  <2> QED
    BY <1>1, <1>3, <2>1, <2>2, <2>3 DEF EntryOK
<1>6. cache' \in [Codes -> [link : Nat, until : Nat]]
  BY <1>1, <1>2 DEF Empty
<1>7. TypeOK'
  BY <1>1, <1>2, <1>3, <1>6 DEF TypeOK, StorageOK
<1> QED
  BY <1>3, <1>4, <1>5, <1>7 DEF IInv, StorageOK

------------------------------------------------------------------------------
LEMMA InitIInv == Init => IInv
<1> SUFFICES ASSUME Init PROVE IInv
  OBVIOUS
<1>1. links = <<>> /\ links \in Seq(Link) /\ Len(links) = 0
  BY EmptySeq DEF Init
<1>2. TypeOK
  BY <1>1 DEF Init, TypeOK, Empty
<1>3. TableIsTheStoredLinks /\ PurgedAfterAnExpiry
  BY <1>1 DEF TableIsTheStoredLinks, PurgedAfterAnExpiry
<1> QED
  BY <1>2, <1>3 DEF Init, IInv, RowOK, EntryOK, RequestOK, Empty, Idle

LEMMA NextIInv == IInv /\ [Next]_vars => IInv'
<1> SUFFICES ASSUME IInv, [Next]_vars PROVE IInv'
  OBVIOUS
<1>1. ASSUME NEW p \in Clients, ClientStep(p) PROVE IInv'
  <2>1. CASE Create(p)
    BY <2>1, CreateStep
  <2>2. CASE Resolve(p) \/ Get(p) \/ Delete(p)
    BY <2>2, ReadStep
  <2>3. CASE Insert(p)
    BY <2>3, InsertStep
  <2>4. CASE CacheGet(p)
    BY <2>4, CacheGetStep
  <2>5. CASE RepoGet(p)
    BY <2>5, RepoGetStep
  <2>6. CASE ChooseTtl(p)
    BY <2>6, ChooseTtlStep
  <2>7. CASE CacheSet(p)
    BY <2>7, CacheSetStep
  <2>8. CASE Record(p) \/ Timeout(p) \/ Disconnect(p)
    BY <2>8, EndStep DEF Record, Timeout, Disconnect
  <2>9. CASE PurgeRepo(p)
    BY <2>9, PurgeRepoStep
  <2>10. CASE PurgeCache(p) \/ DelCache(p)
    BY <2>10, EndStep DEF PurgeCache, DelCache
  <2>11. CASE GetRepo(p)
    BY <2>11, GetRepoStep
  <2>12. CASE GetPurge(p)
    BY <2>12, GetPurgeStep
  <2>13. CASE DelRepo(p)
    BY <2>13, DelRepoStep
  <2>14. CASE CheckExpiry(p)
    BY <2>14, CheckExpiryStep
  <2>15. CASE CheckGet(p)
    BY <2>15, CheckGetStep
  <2> QED
    BY <1>1, <2>1, <2>2, <2>3, <2>4, <2>5, <2>6, <2>7, <2>8, <2>9, <2>10, <2>11,
       <2>12, <2>13, <2>14, <2>15 DEF ClientStep
<1>2. CASE Crash
  BY <1>2, CrashStep
<1>3. CASE Tick
  BY <1>3, TickStep
<1>4. CASE UNCHANGED vars
  <2>1. now' = now /\ cache' = cache /\ req' = req /\ UNCHANGED storage
    BY <1>4 DEF vars, storage
  <2>2. links' = links /\ repo' = repo
    BY <2>1 DEF storage
  <2> QED
    BY <2>1, <2>2 DEF IInv, TypeOK, RowOK, EntryOK, RequestOK, TableIsTheStoredLinks,
       PurgedAfterAnExpiry
<1> QED
  BY <1>1, <1>2, <1>3, <1>4 DEF Next

\* IInv is an invariant of LinkService.
THEOREM Inductive == Spec => []IInv
BY InitIInv, NextIInv, PTL DEF Spec

\* Type correctness.
THEOREM TypeCorrect == Spec => []TypeOK
<1>1. IInv => TypeOK
  BY DEF IInv
<1> QED
  BY <1>1, Inductive, PTL

\* The links table holds exactly the links nobody removed.
THEOREM TableCorrect == Spec => []TableIsTheStoredLinks
<1>1. IInv => TableIsTheStoredLinks
  BY DEF IInv
<1> QED
  BY <1>1, Inductive, PTL

\* A link is purged only after it, or an earlier link of its code, expired.
THEOREM PurgesHaveAReason == Spec => []PurgedAfterAnExpiry
<1>1. IInv => PurgedAfterAnExpiry
  BY DEF IInv
<1> QED
  BY <1>1, Inductive, PTL

\* A removed link is redirected to for less than MAX_CACHE_TTL_SECS and two
\* request timeouts.
THEOREM StalenessIsBounded == Spec => []BoundedStaleness
<1>1. IInv => BoundedStaleness
  <2> SUFFICES ASSUME IInv, NEW p \in Clients, req[p].pc = "record",
                      links[req[p].link].gone # Never
               PROVE  now < links[req[p].link].gone + Ticks(MaxCacheTtl) + 2 * RequestTimeout
    BY DEF BoundedStaleness, At
  <2>1. RequestOK(req[p]) /\ links \in Seq(Link) /\ now \in Nat /\ req[p].start \in Nat
    BY BusyRequest DEF IInv, TypeOK
  <2>2. /\ links[req[p].link].gone \in Nat
        /\ now <= req[p].start + RequestTimeout
        /\ req[p].start < links[req[p].link].gone + RequestTimeout + Ticks(MaxCacheTtl)
    BY <2>1, LinkFields DEF RequestOK
  <2> QED
    BY <2>1, <2>2, Bounds, SMTT(60)
<1> QED
  BY <1>1, Inductive, PTL

\* An expired link is redirected to for less than two request timeouts and a second.
THEOREM OverrunIsBounded == Spec => []BoundedOverrun
<1>1. IInv => BoundedOverrun
  <2> SUFFICES ASSUME IInv, NEW p \in Clients, req[p].pc = "record",
                      links[req[p].link].expires # Never
               PROVE  now < Ticks(links[req[p].link].expires) + 2 * RequestTimeout + Second
    BY DEF BoundedOverrun, At
  <2>1. RequestOK(req[p]) /\ links \in Seq(Link) /\ now \in Nat /\ req[p].start \in Nat
    BY BusyRequest DEF IInv, TypeOK
  <2>2. /\ links[req[p].link].expires \in Int
        /\ now <= req[p].start + RequestTimeout
        /\ req[p].start < Ticks(links[req[p].link].expires) + RequestTimeout + Second
    BY <2>1, LinkFields DEF RequestOK
  <2>3. Ticks(links[req[p].link].expires) \in Int
    BY <2>2, TickType
  <2> QED
    BY <2>1, <2>2, <2>3, Bounds, SMTT(60)
<1> QED
  BY <1>1, Inductive, PTL
==============================================================================
