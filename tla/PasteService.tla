------------------------------ MODULE PasteService -----------------------------
(****************************************************************************)
(* The use cases of pastebin-service: create, fetch and delete, as they run *)
(* inside concurrent HTTP handlers over one SQLite table and one Redis read *)
(* cache (pastebin-service/src/application/mod.rs).                         *)
(*                                                                          *)
(* An action is the code between two awaits, with the storage or cache call *)
(* that ends it, and a handler can be dropped wherever it awaits.  A paste  *)
(* is named by the order in which its row was inserted: an id can be drawn  *)
(* again once its row is gone.                                              *)
(*                                                                          *)
(* Time runs in ticks, of which Second make a second: requests, timeouts    *)
(* and Redis see the ticks, while an expiry and a lifetime are in whole     *)
(* seconds, as the code has them.                                           *)
(****************************************************************************)
EXTENDS Integers, Sequences

CONSTANTS
  Second,          \* ticks in a second
  Clients,         \* the requests that can be in flight at once
  Ids,             \* valid paste ids
  Drafts,          \* the ttl_seconds (Never: none) and one_shot a create can carry
  Never,           \* no expiry, and the removal time of a paste that is stored
  NoId,            \* the id of a client that has no request in flight
  MaxCacheTtl,     \* MAX_CACHE_TTL_SECS, in seconds
  RequestTimeout,  \* config.request_timeout_secs, in ticks
  Attempts,        \* MAX_GENERATION_ATTEMPTS
  SignBit,         \* 2^63: an i64 lies in -SignBit .. SignBit - 1
  CacheMayFail,    \* TRUE: a Redis call may fail (or there is no Redis)
  RepoMayFail,     \* TRUE: a SQLite call may fail
  MayCancel,       \* TRUE: clients may disconnect and the process may crash
  MaxPastes,       \* bound of the model: rows ever inserted
  Horizon          \* bound of the model: the last tick

ASSUME PasteServiceAssumption ==
  /\ Second \in Nat \ {0}
  /\ Drafts \subseteq [ttl : Nat \cup {Never}, oneShot : BOOLEAN]
  /\ Never \notin Int /\ NoId \notin Ids
  /\ MaxCacheTtl \in Nat \ {0} /\ RequestTimeout \in Nat \ {0}
  /\ Attempts \in Nat \ {0} /\ SignBit \in Nat \ {0}
  /\ {CacheMayFail, RepoMayFail, MayCancel} \subseteq BOOLEAN
  /\ MaxPastes \in Nat /\ Horizon \in Nat /\ Horizon < SignBit

VARIABLES
  now,     \* the time, of the runtime and of Redis
  pastes,  \* every paste ever stored; how it ended and, of a one-shot, its readers
  table,   \* the pastes table: the paste an id is bound to, or 0
  cache,   \* Redis: the paste whose JSON an id maps to (or 0), and its deadline
  req      \* the request each client has in flight

vars == <<now, pastes, table, cache, req>>
storage == <<pastes, table>>

PasteNumbers == 1..Len(pastes)
Empty == [paste |-> 0, until |-> 0]
Idle == [pc |-> "idle", id |-> NoId, paste |-> 0, start |-> 0, ttl |-> 0,
         expires |-> Never, oneShot |-> FALSE, tries |-> 0]

PCs == {"insert", "cacheGet", "hit", "cacheDrop", "repoGet", "found", "purgeRepo",
        "purgeCache", "take", "taken", "ttl", "cacheSet", "record", "delRepo", "delCache"}

------------------------------------------------------------------------------
\* now_unix: as_secs cuts the fraction of a second off.
NowUnix == now \div Second

\* How long s seconds are, or when second s begins.
Ticks(s) == Second * s

Clamp(n) == IF n >= SignBit THEN SignBit - 1 ELSE IF n < -SignBit THEN -SignBit ELSE n

\* created_at.saturating_add(ttl as i64): the upper half of u64 becomes negative.
ExpiresAt(ttl) ==
  IF ttl = Never THEN Never
  ELSE Clamp(NowUnix + (IF ttl < SignBit THEN ttl ELSE ttl - 2 * SignBit))

\* Paste::is_expired
IsExpired(n) == pastes[n].expires # Never /\ NowUnix >= pastes[n].expires

\* Mutant: the remaining lifetime is not capped.
CacheTtlUncapped(n) ==
  IF pastes[n].expires = Never THEN Horizon
  ELSE IF IsExpired(n) THEN 0 ELSE pastes[n].expires - NowUnix

\* cache_ttl_secs: 0 means "do not cache".
CacheTtl(n) ==
  IF pastes[n].expires = Never \/ pastes[n].expires - NowUnix > MaxCacheTtl THEN MaxCacheTtl
  ELSE IF IsExpired(n) THEN 0 ELSE pastes[n].expires - NowUnix

------------------------------------------------------------------------------
At(p, pc) == req[p].pc = pc
Goto(p, pc) == req' = [req EXCEPT ![p].pc = pc]
GotoWith(p, pc, n) == req' = [req EXCEPT ![p].pc = pc, ![p].paste = n]
Answer(p) == req' = [req EXCEPT ![p] = Idle]

\* A handler starts.  Requests that could outlive the horizon are not modelled.
Begin(p, pc, i, expires, oneShot, tries) ==
  /\ req[p] = Idle
  /\ now + RequestTimeout <= Horizon
  /\ req' = [req EXCEPT ![p] = [pc |-> pc, id |-> i, paste |-> 0, start |-> now, ttl |-> 0,
                                expires |-> expires, oneShot |-> oneShot, tries |-> tries]]
  /\ UNCHANGED <<now, cache, storage>>

\* DELETE FROM pastes WHERE id = i: whatever row the id is bound to now.
Remove(i, how) ==
  /\ table' = [table EXCEPT ![i] = 0]
  /\ pastes' = IF table[i] = 0 THEN pastes
               ELSE [pastes EXCEPT ![table[i]] = [@ EXCEPT !.gone = now, !.by = how]]

\* Cache::delete, best effort.
Invalidate(i) ==
  \/ cache' = [cache EXCEPT ![i] = Empty]
  \/ CacheMayFail /\ UNCHANGED cache

Init ==
  /\ now = 0
  /\ pastes = <<>>
  /\ table = [i \in Ids |-> 0]
  /\ cache = [i \in Ids |-> Empty]
  /\ req = [p \in Clients |-> Idle]

------------------------------------------------------------------------------
\* create: the content is accepted (a refused one changes nothing), and the expiry is
\* fixed before the insert.
Create(p) ==
  \E i \in Ids, d \in Drafts :
    Begin(p, "insert", i, ExpiresAt(d.ttl), d.oneShot, Attempts)

\* INSERT, which the primary key refuses for an id that has a row; the id is then drawn
\* again until the attempts run out.
Insert(p) ==
  LET r == req[p] IN
  /\ At(p, "insert")
  /\ \/ /\ table[r.id] = 0 /\ Len(pastes) < MaxPastes
        /\ pastes' = Append(pastes, [id |-> r.id, expires |-> r.expires,
             oneShot |-> r.oneShot, stored |-> now, gone |-> Never, by |-> "nobody",
             readers |-> 0])
        /\ table' = [table EXCEPT ![r.id] = Len(pastes) + 1]
        /\ Answer(p)
     \/ /\ table[r.id] # 0 /\ r.tries > 1
        /\ \E i \in Ids : req' = [req EXCEPT ![p].id = i, ![p].tries = r.tries - 1]
        /\ UNCHANGED storage
     \/ table[r.id] # 0 /\ r.tries = 1 /\ Answer(p) /\ UNCHANGED storage
     \/ RepoMayFail /\ Answer(p) /\ UNCHANGED storage
  /\ UNCHANGED <<now, cache>>

------------------------------------------------------------------------------
Fetch(p) == \E i \in Ids : Begin(p, "cacheGet", i, Never, FALSE, 0)

CacheGet(p) ==
  LET n == cache[req[p].id].paste IN
  /\ At(p, "cacheGet")
  /\ \/ n # 0 /\ GotoWith(p, "hit", n)
     \/ (n = 0 \/ CacheMayFail) /\ Goto(p, "repoGet")
  /\ UNCHANGED <<now, cache, storage>>

\* Mutant: a hit is served without a look at its expiry.
CheckHitBlindly(p) ==
  /\ At(p, "hit")
  /\ Goto(p, "record")
  /\ UNCHANGED <<now, cache, storage>>

\* A hit is counted and served; an expired one is dropped first and then looked up like
\* a miss or a failed call.
CheckHit(p) ==
  /\ At(p, "hit")
  /\ Goto(p, IF IsExpired(req[p].paste) THEN "cacheDrop" ELSE "record")
  /\ UNCHANGED <<now, cache, storage>>

CacheDrop(p) ==
  /\ At(p, "cacheDrop")
  /\ Invalidate(req[p].id)
  /\ Goto(p, "repoGet")
  /\ UNCHANGED <<now, storage>>

RepoGet(p) ==
  LET n == table[req[p].id] IN
  /\ At(p, "repoGet")
  /\ \/ (n = 0 \/ RepoMayFail) /\ Answer(p)
     \/ n # 0 /\ GotoWith(p, "found", n)
  /\ UNCHANGED <<now, cache, storage>>

\* Mutant: one-shot pastes are read like the others.
CheckPasteUnburnt(p) ==
  /\ At(p, "found")
  /\ Goto(p, IF IsExpired(req[p].paste) THEN "purgeRepo" ELSE "ttl")
  /\ UNCHANGED <<now, cache, storage>>

\* Mutant: every paste burns.
CheckPasteBurnAll(p) ==
  /\ At(p, "found")
  /\ Goto(p, IF IsExpired(req[p].paste) THEN "purgeRepo" ELSE "take")
  /\ UNCHANGED <<now, cache, storage>>

\* The clock is read once the row has arrived.
CheckPaste(p) ==
  LET n == req[p].paste IN
  /\ At(p, "found")
  /\ \/ IsExpired(n) /\ Goto(p, "purgeRepo")
     \/ ~IsExpired(n) /\ pastes[n].oneShot /\ Goto(p, "take")
     \/ ~IsExpired(n) /\ ~pastes[n].oneShot /\ Goto(p, "ttl")
  /\ UNCHANGED <<now, cache, storage>>

\* The lazy purge: the row (best effort), then the cache entry.
PurgeRepo(p) ==
  /\ At(p, "purgeRepo")
  /\ \/ Remove(req[p].id, "purge")
     \/ RepoMayFail /\ UNCHANGED storage
  /\ Goto(p, "purgeCache")
  /\ UNCHANGED <<now, cache>>

PurgeCache(p) ==
  /\ At(p, "purgeCache")
  /\ Invalidate(req[p].id)
  /\ Answer(p)
  /\ UNCHANGED <<now, storage>>

\* Mutant: the paste that was read is served, whether or not there was a row to delete.
TakeLeniently(p) ==
  /\ At(p, "take")
  /\ \/ Remove(req[p].id, "burn") /\ Goto(p, "taken")
     \/ RepoMayFail /\ Answer(p) /\ UNCHANGED storage
  /\ UNCHANGED <<now, cache>>

\* DELETE ... RETURNING removes and returns whatever row the id is bound to now, if any.
\* The answer reaches the handler later (Taken).
Take(p) ==
  LET n == table[req[p].id] IN
  /\ At(p, "take")
  /\ \/ n # 0 /\ Remove(req[p].id, "burn") /\ GotoWith(p, "taken", n)
     \/ (n = 0 \/ RepoMayFail) /\ Answer(p) /\ UNCHANGED storage
  /\ UNCHANGED <<now, cache>>

\* The paste is served.  The readers of a one-shot are counted, to two.
Taken(p) ==
  LET n == req[p].paste IN
  /\ At(p, "taken")
  /\ pastes' = IF pastes[n].oneShot /\ pastes[n].readers < 2
               THEN [pastes EXCEPT ![n].readers = pastes[n].readers + 1] ELSE pastes
  /\ Answer(p)
  /\ UNCHANGED <<now, table, cache>>

\* cache_ttl_secs reads the clock a second time, after the expiry check.
ChooseTtl(p) ==
  LET ttl == CacheTtl(req[p].paste) IN
  /\ At(p, "ttl")
  /\ IF ttl > 0 THEN req' = [req EXCEPT ![p].pc = "cacheSet", ![p].ttl = ttl]
                ELSE Goto(p, "record")
  /\ UNCHANGED <<now, cache, storage>>

\* Mutant: SET without EX.
CacheSetForEver(p) ==
  /\ At(p, "cacheSet")
  /\ cache' = [cache EXCEPT ![req[p].id] = [paste |-> req[p].paste, until |-> Horizon + 1]]
  /\ Goto(p, "record")
  /\ UNCHANGED <<now, storage>>

\* SET id json EX ttl: Redis starts counting when it executes the command.
CacheSet(p) ==
  /\ At(p, "cacheSet")
  /\ \/ cache' = [cache EXCEPT ![req[p].id] =
                    [paste |-> req[p].paste, until |-> now + Ticks(req[p].ttl)]]
     \/ CacheMayFail /\ UNCHANGED cache
  /\ Goto(p, "record")
  /\ UNCHANGED <<now, storage>>

\* views.record(id) only enqueues (HitBatcher has the queue), then the paste is served.
Record(p) ==
  /\ At(p, "record")
  /\ Answer(p)
  /\ UNCHANGED <<now, cache, storage>>

------------------------------------------------------------------------------
Delete(p) == \E i \in Ids : Begin(p, "delRepo", i, Never, FALSE, 0)

\* A failed DELETE is answered at once; otherwise the cache entry goes next, whether or
\* not a row was removed.
DelRepo(p) ==
  /\ At(p, "delRepo")
  /\ \/ Remove(req[p].id, "delete") /\ Goto(p, "delCache")
     \/ RepoMayFail /\ Answer(p) /\ UNCHANGED storage
  /\ UNCHANGED <<now, cache>>

DelCache(p) ==
  /\ At(p, "delCache")
  /\ Invalidate(req[p].id)
  /\ Answer(p)
  /\ UNCHANGED <<now, storage>>

------------------------------------------------------------------------------
Due(p) == req[p] # Idle /\ now >= req[p].start + RequestTimeout

\* TimeoutLayer: the handler's future is dropped where it awaits, 408.
Timeout(p) == Due(p) /\ Answer(p) /\ UNCHANGED <<now, cache, storage>>

\* The client closes its connection: the handler's future is dropped too.
Disconnect(p) ==
  /\ MayCancel /\ req[p] # Idle
  /\ Answer(p)
  /\ UNCHANGED <<now, cache, storage>>

\* The process dies: its requests are gone, SQLite and Redis stay.
Crash ==
  /\ MayCancel
  /\ req' = [p \in Clients |-> Idle]
  /\ UNCHANGED <<now, cache, storage>>

\* Time passes.  Redis drops the entries whose time is over, and no request is older
\* than its timeout.
Tick ==
  /\ now < Horizon
  /\ \A p \in Clients : ~Due(p)
  /\ now' = now + 1
  /\ cache' = [i \in Ids |-> IF cache[i].until <= now + 1 THEN Empty ELSE cache[i]]
  /\ UNCHANGED <<storage, req>>

ClientStep(p) ==
  \/ Create(p) \/ Insert(p)
  \/ Fetch(p) \/ CacheGet(p) \/ CheckHit(p) \/ CacheDrop(p)
  \/ RepoGet(p) \/ CheckPaste(p) \/ PurgeRepo(p) \/ PurgeCache(p)
  \/ Take(p) \/ Taken(p) \/ ChooseTtl(p) \/ CacheSet(p) \/ Record(p)
  \/ Delete(p) \/ DelRepo(p) \/ DelCache(p)
  \/ Timeout(p) \/ Disconnect(p)

Next ==
  \/ \E p \in Clients : ClientStep(p)
  \/ Crash
  \/ Tick

Spec == Init /\ [][Next]_vars

------------------------------------------------------------------------------
Paste == [id : Ids, expires : Int \cup {Never}, oneShot : BOOLEAN, stored : Nat,
          gone : Nat \cup {Never}, by : {"nobody", "burn", "purge", "delete"},
          readers : 0..2]
Request == [pc : PCs, id : Ids, paste : Nat, start : Nat, ttl : 0..MaxCacheTtl,
            expires : Int \cup {Never}, oneShot : BOOLEAN, tries : 0..Attempts]

\* Every variable has the type the code gives it; a lifetime sent to Redis is within
\* 0 .. MAX_CACHE_TTL_SECS.
TypeOK ==
  /\ now \in Nat
  /\ pastes \in Seq(Paste)
  /\ table \in [Ids -> 0..Len(pastes)]
  /\ cache \in [Ids -> [paste : 0..Len(pastes), until : Nat]]
  /\ req \in [Clients -> Request \cup {Idle}]

\* A one-shot paste is served at most once and never through the cache, however fetches,
\* failures and cut-off handlers interleave.
OneReader == \A n \in PasteNumbers : pastes[n].oneShot => pastes[n].readers <= 1
OneShotNotCached ==
  /\ \A i \in Ids : cache[i].paste # 0 => ~pastes[cache[i].paste].oneShot
  /\ \A p \in Clients : At(p, "record") => ~pastes[req[p].paste].oneShot

\* No paste vanishes without a reason: one that was purged had expired, or an earlier
\* paste of its id had, and one that was burned, or an earlier one of its id, was a
\* one-shot.
RemovedForAReason ==
  \A n \in PasteNumbers :
    LET before == {pastes[m] : m \in {m \in 1..n : pastes[m].id = pastes[n].id}} IN
    /\ pastes[n].by = "purge" =>
         \E b \in before : b.expires # Never /\ Ticks(b.expires) <= pastes[n].gone
    /\ pastes[n].by = "burn" => \E b \in before : b.oneShot

\* A paste is served for less than one request timeout past its expiry, since a hit in
\* the cache is checked; only one that took the id of a burned paste under its reader,
\* and was expired when it was stored, is served for as long after that.
ServedInTime ==
  \A p \in Clients :
    LET paste == pastes[req[p].paste] IN
    At(p, "record") \/ At(p, "taken") =>
      \/ paste.expires = Never \/ now < Ticks(paste.expires) + RequestTimeout
      \/ At(p, "taken") /\ now <= paste.stored + RequestTimeout

\* A removed paste is served from the cache for less than MAX_CACHE_TTL_SECS and two
\* request timeouts, whatever a fetch that had read the row puts there.
BoundedStaleness ==
  \A p \in Clients :
    At(p, "record") /\ pastes[req[p].paste].gone # Never
      => now < pastes[req[p].paste].gone + Ticks(MaxCacheTtl) + 2 * RequestTimeout

------------------------------------------------------------------------------
\* The phase of a paste as BurnAfterRead has it.  Only one-shot pastes take part.
Held(n) == \E p \in Clients : At(p, "taken") /\ req[p].paste = n
Phase(n) ==
  IF n > Len(pastes) \/ ~pastes[n].oneShot THEN "absent"
  ELSE CASE pastes[n].by = "nobody" -> "stored"
         [] pastes[n].by = "burn" -> IF Held(n) THEN "claimed"
                                     ELSE IF pastes[n].readers = 1 THEN "served" ELSE "lost"
         [] OTHER -> "removed"

Burn == INSTANCE BurnAfterRead
          WITH Pastes <- 1..MaxPastes, phase <- [n \in 1..MaxPastes |-> Phase(n)]

\* The use cases implement burn-after-read.
BurnsAfterRead == Burn!Spec

------------------------------------------------------------------------------
\* What the repository's comments say and the code does not do.

\* "Burn-after-read: deleted on first successful fetch" (domain/mod.rs:109): a burned
\* paste has been served, or is about to be.
BurnedIsServed ==
  \A n \in PasteNumbers :
    pastes[n].by = "burn" /\ pastes[n].oneShot => pastes[n].readers = 1 \/ Held(n)
==============================================================================
