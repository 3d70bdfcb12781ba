------------------------------ MODULE LinkService ------------------------------
(****************************************************************************)
(* The use cases of url-shortener: create, resolve, get and delete, as they *)
(* run inside concurrent HTTP handlers over one SQLite table and one Redis  *)
(* read cache (url-shortener/src/application/mod.rs).                       *)
(*                                                                          *)
(* A handler is a task that can be interleaved with the others wherever it  *)
(* awaits: every action below is the code between two awaits, with the      *)
(* storage or cache call that ends it.  The handler's future can be dropped *)
(* at every await: by the TimeoutLayer, by a client that went away, by the  *)
(* end of the process.                                                      *)
(*                                                                          *)
(* A link is named by the order in which its row was inserted, 1, 2, ...:   *)
(* two links that had the same code at different times are different links, *)
(* and stand for different targets.                                         *)
(*                                                                          *)
(* Time runs in ticks, of which Second make a second: requests, timeouts    *)
(* and Redis see the ticks, while an expiry and a lifetime are in whole     *)
(* seconds, as the code has them.                                           *)
(****************************************************************************)
EXTENDS Integers, Sequences

CONSTANTS
  Second,          \* ticks in a second
  Clients,         \* the requests that can be in flight at once
  Codes,           \* valid short codes (ShortCode::parse accepted them)
  Ttls,            \* the ttl_seconds a create can carry; Never: it has none
  Never,           \* no expiry, and the removal time of a link that is stored
  NoCode,          \* the code of a client that has no request in flight
  MaxCacheTtl,     \* MAX_CACHE_TTL_SECS, in seconds
  RequestTimeout,  \* config.request_timeout_secs, in ticks
  Attempts,        \* MAX_GENERATION_ATTEMPTS
  SignBit,         \* 2^63: an i64 lies in -SignBit .. SignBit - 1
  CacheMayFail,    \* TRUE: a Redis call may fail (or there is no Redis)
  RepoMayFail,     \* TRUE: a SQLite call may fail
  MayCancel,       \* TRUE: clients may disconnect and the process may crash
  MaxLinks,        \* bound of the model: rows ever inserted
  Horizon          \* bound of the model: the last tick

ASSUME LinkServiceAssumption ==
  /\ Second \in Nat \ {0}
  /\ Ttls \subseteq Nat \cup {Never}
  /\ Never \notin Int /\ NoCode \notin Codes
  /\ MaxCacheTtl \in Nat \ {0} /\ RequestTimeout \in Nat \ {0}
  /\ Attempts \in Nat \ {0}
  /\ SignBit \in Nat \ {0}
  /\ CacheMayFail \in BOOLEAN /\ RepoMayFail \in BOOLEAN /\ MayCancel \in BOOLEAN
  /\ MaxLinks \in Nat /\ Horizon \in Nat /\ Horizon < SignBit

VARIABLES
  now,       \* the time, of the runtime and of Redis
  links,     \* every link ever stored: code, expiry, when and how it was removed
  repo,      \* the links table: the link a code is bound to, or 0
  cache,     \* Redis: the link whose target a code maps to (or 0), and its deadline
  req        \* the request each client has in flight

vars == <<now, links, repo, cache, req>>
storage == <<links, repo>>

LinkIds == 1..Len(links)
Empty == [link |-> 0, until |-> 0]
Idle == [pc |-> "idle", code |-> NoCode, link |-> 0, start |-> 0, ttl |-> 0,
         expires |-> Never, tries |-> 0]

PCs == {"insert", "cacheGet", "repoGet", "found", "ttl", "cacheSet", "record", "purgeRepo",
        "purgeCache", "getRepo", "getFound", "getPurge", "delRepo", "delCache"}

------------------------------------------------------------------------------
\* now_unix at t: as_secs cuts the fraction of a second off.
NowUnix(t) == t \div Second

\* How long s seconds are, or when second s begins.
Ticks(s) == Second * s

\* secs as i64: the upper half of u64 becomes negative.
Signed(secs) == IF secs < SignBit THEN secs ELSE secs - 2 * SignBit

SaturatingAdd(a, b) ==
  CASE a + b >= SignBit -> SignBit - 1
    [] a + b < -SignBit -> -SignBit
    [] OTHER -> a + b

\* The expires_at of a link created at t.
ExpiresAt(ttl, t) == IF ttl = Never THEN Never ELSE SaturatingAdd(NowUnix(t), Signed(ttl))

\* Mutant: the comparison is turned round, a link is expired before its expiry.
IsExpiredEarly(l, t) == links[l].expires # Never /\ NowUnix(t) < links[l].expires

\* Link::is_expired, of the clock at t.
IsExpired(l, t) == links[l].expires # Never /\ NowUnix(t) >= links[l].expires

\* Mutant: the remaining lifetime is not capped.
CacheTtlUncapped(l, t) ==
  IF links[l].expires = Never THEN Horizon
  ELSE IF links[l].expires <= NowUnix(t) THEN 0 ELSE links[l].expires - NowUnix(t)

\* Mutant: the link's own expiry is forgotten.
CacheTtlFixed(l, t) == MaxCacheTtl

\* cache_ttl_secs: 0 means "do not cache".
CacheTtl(l, t) ==
  IF links[l].expires = Never THEN MaxCacheTtl
  ELSE LET remaining == links[l].expires - NowUnix(t)
       IN IF remaining <= 0 THEN 0
          ELSE IF remaining < MaxCacheTtl THEN remaining ELSE MaxCacheTtl

------------------------------------------------------------------------------
\* The request of p moves on to its next await, or is answered.
At(p, pc) == req[p].pc = pc
Goto(p, pc) == req' = [req EXCEPT ![p].pc = pc]
GotoWith(p, pc, l) == req' = [req EXCEPT ![p].pc = pc, ![p].link = l]
Answer(p) == req' = [req EXCEPT ![p] = Idle]

\* A handler starts.  Requests that could outlive the horizon are not modelled.
Begin(p, pc, c, expires, tries) ==
  /\ req[p] = Idle
  /\ now + RequestTimeout <= Horizon
  /\ req' = [req EXCEPT ![p] = [pc |-> pc, code |-> c, link |-> 0, start |-> now,
                                ttl |-> 0, expires |-> expires, tries |-> tries]]
  /\ UNCHANGED <<now, cache, storage>>

\* DELETE FROM links WHERE code = c: whatever row the code is bound to now.
Remove(c, how) ==
  /\ repo' = [repo EXCEPT ![c] = 0]
  /\ links' = IF repo[c] = 0 THEN links
              ELSE [links EXCEPT ![repo[c]] = [@ EXCEPT !.gone = now, !.by = how]]

\* Cache::delete, best effort.
Invalidate(c) ==
  \/ cache' = [cache EXCEPT ![c] = Empty]
  \/ CacheMayFail /\ UNCHANGED cache

Init ==
  /\ now = 0
  /\ links = <<>>
  /\ repo = [c \in Codes |-> 0]
  /\ cache = [c \in Codes |-> Empty]
  /\ req = [p \in Clients |-> Idle]

------------------------------------------------------------------------------
\* create: the URL parsed and its host is not blocked (a refused one changes
\* nothing); expires_at is fixed here, before the insert.  An alias has a single
\* attempt, a generated code Attempts of them.
Create(p) ==
  \E c \in Codes, ttl \in Ttls, tries \in {1, Attempts} :
    Begin(p, "insert", c, ExpiresAt(ttl, now), tries)

StoreNew(p, c) ==
  /\ Len(links) < MaxLinks
  /\ links' = Append(links, [code |-> c, expires |-> req[p].expires,
                             gone |-> Never, by |-> "nobody"])
  /\ repo' = [repo EXCEPT ![c] = Len(links) + 1]
  /\ Answer(p)

\* Mutant: an upsert instead of an insert.
InsertOver(p) ==
  /\ At(p, "insert")
  /\ StoreNew(p, req[p].code)
  /\ UNCHANGED <<now, cache>>

\* INSERT, which the primary key refuses for a code that has a row (expired or
\* not); the generated code is then drawn again until the attempts run out.
Insert(p) ==
  LET c == req[p].code IN
  /\ At(p, "insert")
  /\ \/ repo[c] = 0 /\ StoreNew(p, c)
     \/ /\ repo[c] # 0 /\ req[p].tries > 1
        /\ \E c2 \in Codes :
             req' = [req EXCEPT ![p].code = c2, ![p].tries = req[p].tries - 1]
        /\ UNCHANGED storage
     \/ repo[c] # 0 /\ req[p].tries = 1 /\ Answer(p) /\ UNCHANGED storage
     \/ RepoMayFail /\ Answer(p) /\ UNCHANGED storage
  /\ UNCHANGED <<now, cache>>

------------------------------------------------------------------------------
Resolve(p) == \E c \in Codes : Begin(p, "cacheGet", c, Never, 0)

\* A hit goes straight to the hit counter; a miss or a failed call to the table.
CacheGet(p) ==
  LET c == req[p].code IN
  /\ At(p, "cacheGet")
  /\ \/ cache[c].link # 0 /\ GotoWith(p, "record", cache[c].link)
     \/ (cache[c].link = 0 \/ CacheMayFail) /\ Goto(p, "repoGet")
  /\ UNCHANGED <<now, cache, storage>>

RepoGet(p) ==
  LET l == repo[req[p].code] IN
  /\ At(p, "repoGet")
  /\ \/ l = 0 /\ Answer(p)
     \/ l # 0 /\ GotoWith(p, "found", l)
     \/ RepoMayFail /\ Answer(p)
  /\ UNCHANGED <<now, cache, storage>>

\* The clock is read once the row has arrived.
CheckExpiry(p) ==
  /\ At(p, "found")
  /\ Goto(p, IF IsExpired(req[p].link, now) THEN "purgeRepo" ELSE "ttl")
  /\ UNCHANGED <<now, cache, storage>>

\* cache_ttl_secs reads the clock a second time, after the expiry check.
ChooseTtl(p) ==
  LET ttl == CacheTtl(req[p].link, now) IN
  /\ At(p, "ttl")
  /\ IF ttl > 0 THEN req' = [req EXCEPT ![p].pc = "cacheSet", ![p].ttl = ttl]
                ELSE Goto(p, "record")
  /\ UNCHANGED <<now, cache, storage>>

\* Mutant: SET without EX.
CacheSetForEver(p) ==
  /\ At(p, "cacheSet")
  /\ cache' = [cache EXCEPT ![req[p].code] =
                 [link |-> req[p].link, until |-> Horizon + 1]]
  /\ Goto(p, "record")
  /\ UNCHANGED <<now, storage>>

\* SET code target EX ttl: Redis starts counting when it executes the command.
CacheSet(p) ==
  /\ At(p, "cacheSet")
  /\ \/ cache' = [cache EXCEPT ![req[p].code] =
                    [link |-> req[p].link, until |-> now + Ticks(req[p].ttl)]]
     \/ CacheMayFail /\ UNCHANGED cache
  /\ Goto(p, "record")
  /\ UNCHANGED <<now, storage>>

\* hits.record(code) only enqueues (the queue is modelled in HitBatcher), then the
\* redirect to the link's target is answered.
Record(p) ==
  /\ At(p, "record")
  /\ Answer(p)
  /\ UNCHANGED <<now, cache, storage>>

\* The lazy purge of resolve: the row (best effort), then the cache entry.
PurgeRepo(p) ==
  /\ At(p, "purgeRepo")
  /\ \/ Remove(req[p].code, "purge")
     \/ RepoMayFail /\ UNCHANGED storage
  /\ Goto(p, "purgeCache")
  /\ UNCHANGED <<now, cache>>

PurgeCache(p) ==
  /\ At(p, "purgeCache")
  /\ Invalidate(req[p].code)
  /\ Answer(p)
  /\ UNCHANGED <<now, storage>>

------------------------------------------------------------------------------
Get(p) == \E c \in Codes : Begin(p, "getRepo", c, Never, 0)

GetRepo(p) ==
  LET l == repo[req[p].code] IN
  /\ At(p, "getRepo")
  /\ \/ l # 0 /\ GotoWith(p, "getFound", l)
     \/ (l = 0 \/ RepoMayFail) /\ Answer(p)
  /\ UNCHANGED <<now, cache, storage>>

CheckGet(p) ==
  /\ At(p, "getFound")
  /\ IF IsExpired(req[p].link, now) THEN Goto(p, "getPurge") ELSE Answer(p)
  /\ UNCHANGED <<now, cache, storage>>

\* The lazy purge of get leaves the cache alone.
GetPurge(p) ==
  /\ At(p, "getPurge")
  /\ \/ Remove(req[p].code, "purge")
     \/ RepoMayFail /\ UNCHANGED storage
  /\ Answer(p)
  /\ UNCHANGED <<now, cache>>

Delete(p) == \E c \in Codes : Begin(p, "delRepo", c, Never, 0)

\* A failed DELETE is answered at once; otherwise the cache entry goes next,
\* whether or not a row was removed.
DelRepo(p) ==
  /\ At(p, "delRepo")
  /\ \/ Remove(req[p].code, "delete") /\ Goto(p, "delCache")
     \/ RepoMayFail /\ Answer(p) /\ UNCHANGED storage
  /\ UNCHANGED <<now, cache>>

DelCache(p) ==
  /\ At(p, "delCache")
  /\ Invalidate(req[p].code)
  /\ Answer(p)
  /\ UNCHANGED <<now, storage>>

------------------------------------------------------------------------------
Due(p) == req[p] # Idle /\ now >= req[p].start + RequestTimeout

\* TimeoutLayer: the handler's future is dropped where it awaits, 408.
Timeout(p) == Due(p) /\ Answer(p) /\ UNCHANGED <<now, cache, storage>>

\* The client closes its connection: the handler's future is dropped too.
Disconnect(p) ==
  /\ MayCancel /\ req[p] # Idle
  /\ Answer(p)
  /\ UNCHANGED <<now, cache, storage>>

\* The process dies: its requests are gone, SQLite and Redis stay.
Crash ==
  /\ MayCancel
  /\ req' = [p \in Clients |-> Idle]
  /\ UNCHANGED <<now, cache, storage>>

\* Time passes.  Redis drops the entries whose time is over, and no request
\* is older than its timeout.
Tick ==
  /\ now < Horizon
  /\ \A p \in Clients : ~Due(p)
  /\ now' = now + 1
  /\ cache' = [c \in Codes |-> IF cache[c].until <= now + 1 THEN Empty ELSE cache[c]]
  /\ UNCHANGED <<storage, req>>

ClientStep(p) ==
  \/ Create(p) \/ Insert(p)
  \/ Resolve(p) \/ CacheGet(p) \/ RepoGet(p) \/ CheckExpiry(p) \/ ChooseTtl(p) \/ CacheSet(p)
  \/ Record(p) \/ PurgeRepo(p) \/ PurgeCache(p)
  \/ Get(p) \/ GetRepo(p) \/ CheckGet(p) \/ GetPurge(p)
  \/ Delete(p) \/ DelRepo(p) \/ DelCache(p)
  \/ Timeout(p) \/ Disconnect(p)

Next ==
  \/ \E p \in Clients : ClientStep(p)
  \/ Crash
  \/ Tick

Spec == Init /\ [][Next]_vars

------------------------------------------------------------------------------
Link == [code : Codes, expires : Int \cup {Never}, gone : Nat \cup {Never},
         by : {"nobody", "purge", "delete"}]
Request == [pc : PCs, code : Codes, link : Nat, start : Nat, ttl : 0..MaxCacheTtl,
            expires : Int \cup {Never}, tries : 0..Attempts]

\* Every variable has the type the code gives it; a cache lifetime sent to Redis
\* is within 0 .. MAX_CACHE_TTL_SECS, and what is read names a stored link.
TypeOK ==
  /\ now \in Nat
  /\ links \in Seq(Link)
  /\ repo \in [Codes -> Nat]
  /\ cache \in [Codes -> [link : Nat, until : Nat]]
  /\ req \in [Clients -> Request \cup {Idle}]

\* Safety of insert: the table holds exactly the links nobody removed.  A create
\* that loses the race for a code is refused and never replaces the row that won.
TableIsTheStoredLinks ==
  \A l \in LinkIds : links[l].gone = Never <=> repo[links[l].code] = l

\* A removed link is redirected to for less than MAX_CACHE_TTL_SECS and two
\* request timeouts, whatever is cached behind the back of the delete: by a
\* resolve that had read the row before, or by a failed or cancelled invalidation.
BoundedStaleness ==
  \A p \in Clients :
    At(p, "record") /\ links[req[p].link].gone # Never
      => now < links[req[p].link].gone + Ticks(MaxCacheTtl) + 2 * RequestTimeout

\* A link is redirected to for less than two request timeouts and a second past its
\* expiry, although a cache hit does not look at the expiry: the entry may be set late,
\* and lives as many whole seconds as were left, rounded up, when its lifetime was chosen.
BoundedOverrun ==
  \A p \in Clients :
    At(p, "record") /\ links[req[p].link].expires # Never
      => now < Ticks(links[req[p].link].expires) + 2 * RequestTimeout + Second

\* No link vanishes without a reason: one that was not deleted was purged, and
\* by then it, or an earlier link of its code, had expired.
PurgedAfterAnExpiry ==
  \A l \in LinkIds :
    links[l].by = "purge" =>
      \E m \in 1..l : /\ links[m].code = links[l].code
                      /\ links[m].expires # Never
                      /\ Ticks(links[m].expires) <= links[l].gone

------------------------------------------------------------------------------
\* The strengthening that makes the four invariants above inductive.

\* A request is younger than its timeout.  The link it carries was stored under
\* its code; how that link's end relates to the request's start depends on where
\* the request is:
\*   found, ttl, cacheSet
\*                  it read the row after it started, so the row was there then
\*   record         it read the row, or the cache within the entry's lifetime
\*   purge steps    the link it read has expired, and no older link is stored
RequestOK(r) ==
  r.pc # "idle" =>
    /\ r.start <= now /\ now <= r.start + RequestTimeout
    /\ r.pc \in {"found", "ttl", "cacheSet", "record", "purgeRepo", "getFound", "getPurge"} =>
         r.link \in LinkIds /\ links[r.link].code = r.code
    /\ r.pc \in {"found", "ttl", "cacheSet"} /\ links[r.link].gone # Never =>
         r.start <= links[r.link].gone
    /\ r.pc \in {"ttl", "cacheSet"} /\ links[r.link].expires # Never =>
         r.start < Ticks(links[r.link].expires)
    /\ r.pc = "cacheSet" /\ links[r.link].expires # Never =>
         r.start + Ticks(r.ttl) < Ticks(links[r.link].expires) + Second
    /\ r.pc = "cacheSet" => r.ttl > 0
    /\ r.pc = "record" /\ links[r.link].gone # Never =>
         r.start < links[r.link].gone + RequestTimeout + Ticks(MaxCacheTtl)
    /\ r.pc = "record" /\ links[r.link].expires # Never =>
         r.start < Ticks(links[r.link].expires) + RequestTimeout + Second
    /\ r.pc \in {"found", "purgeRepo", "getFound", "getPurge"} /\ repo[r.code] # 0 =>
         r.link <= repo[r.code]
    /\ r.pc \in {"purgeRepo", "getPurge"} =>
         links[r.link].expires # Never /\ Ticks(links[r.link].expires) <= now

\* A cache entry is for a link of its code, and its deadline is bounded by the
\* clock, by the removal of the link and by the link's expiry.
EntryOK(c) ==
  cache[c].link # 0 =>
    LET l == cache[c].link IN
    /\ l \in LinkIds /\ links[l].code = c
    /\ now < cache[c].until /\ cache[c].until <= now + Ticks(MaxCacheTtl)
    /\ links[l].gone # Never =>
         cache[c].until <= links[l].gone + RequestTimeout + Ticks(MaxCacheTtl)
    /\ links[l].expires # Never =>
         cache[c].until < Ticks(links[l].expires) + RequestTimeout + Second

RowOK(c) == repo[c] # 0 => repo[c] \in LinkIds /\ links[repo[c]].code = c

IInv ==
  /\ TypeOK
  /\ \A c \in Codes : RowOK(c) /\ EntryOK(c)
  /\ \A p \in Clients : RequestOK(req[p])
  /\ TableIsTheStoredLinks
  /\ PurgedAfterAnExpiry

------------------------------------------------------------------------------
\* What the repository's comments say and the code does not do.

\* "a cached entry is a live, non-expired target (we cap the TTL and invalidate on
\* delete)" (application/mod.rs:159-160): with no request in flight, every cache
\* entry is for the link its code is bound to, and that link has not expired.
CachedIsLive ==
  (\A p \in Clients : req[p] = Idle) =>
    \A c \in Codes : cache[c].link # 0 =>
      /\ cache[c].link = repo[c]
      /\ ~IsExpired(cache[c].link, now)

\* "expired links resolve as 404 and are lazily purged on access" (README.md:37):
\* the lazy purge removes no link that has not expired.
PurgeOnlyExpired ==
  [][\A l \in LinkIds :
       links[l].by = "nobody" /\ links'[l].by = "purge" => IsExpired(l, now)]_vars
==============================================================================
